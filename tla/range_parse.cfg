\* Headers of up to two tokens with numbers 0..3 against resources of
\* length 0..3: every boundary of start, end, suffix and length. The inputs
\* of the tests are added.
CONSTANTS
  MaxTokens = 2
  Bound = 4
  Lengths = {0, 1, 2, 3}
SPECIFICATION Spec
\* each input is parsed once, and the program stops
CHECK_DEADLOCK FALSE
INVARIANTS
  RangeParsingTotal
  ParseMatchesTests
