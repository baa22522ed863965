\* Two binaries whose paths, of up to two characters, use letters and
\* digits, '_', the characters sanitizeFilename lists and control
\* characters; any generator may fail.
CONSTANTS
  N = 2
  Paths <- AsciiPaths
SPECIFICATION Spec
INVARIANTS
  TypeOK
  LdTablesAgree
  RcIdsAgree
  LdSymbolsDefined
