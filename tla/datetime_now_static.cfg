\* Two threads construct DateTimes at once with the static struct tm of
\* glibc.  Each thread constructs one DateTime and stops.
CONSTANTS
  Threads = {t1, t2}
  Stamps = {0, 2, 5}
  Utcs = {0, 1}
  USec = 1
  HourLen = 1
  DayLen = 2
  YearLen = 4
  Libcs = {"static"}
SPECIFICATION Spec
INVARIANT
  FieldsMatchTimestamp
CHECK_DEADLOCK FALSE
