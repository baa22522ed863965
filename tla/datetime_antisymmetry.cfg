\* The same computations; a build that wraps on signed overflow.
CONSTANTS
  Bits = 5
  Milli = 2
  Builds = {"wrap"}
SPECIFICATION Spec
INVARIANT
  CompareAntisymmetric
