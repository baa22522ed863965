\* Two binaries whose paths may also hold a space, other punctuation or
\* UTF-8 bytes.
CONSTANTS
  N = 2
  Paths <- AnyPaths
SPECIFICATION Spec
INVARIANT
  LdSymbolsDefined
