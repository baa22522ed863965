\* Two threads construct DateTimes from 3-bit clock readings with a
\* thread-local struct tm; the program then measures spans between them
\* and moves them, on 4-bit words, in wrapping and folding builds.
CONSTANTS
  Bits = 4
  Milli = 2
  Builds = {"wrap", "fold"}
  ThreadA = ta
  ThreadB = tb
  Utcs = {0, 1}
  HourLen = 2
  DayLen = 4
  YearLen = 8
  Libcs = {"tls"}
SPECIFICATION MCSpec
INVARIANTS
  TypeOK
  CompareOrdersClockReadings
  UnclearCompareWithinSecond
