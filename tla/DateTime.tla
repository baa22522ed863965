------------------------------ MODULE DateTime ------------------------------
(***************************************************************************)
(* sese::DateTime and sese::TimeSpan arithmetic (src/sese/src/util/        *)
(* DateTime.cpp, src/sese/include/sese/util/TimeSpan.h).  A DateTime is    *)
(* its uint64_t microsecond timestamp, a TimeSpan its uint64_t timestamp.  *)
(* The widths are scaled down to Bits; a second is Milli * Milli           *)
(* microseconds as in the code's 1000 * 1000.                              *)
(*                                                                         *)
(* The state is what a program computes with these operators: two          *)
(* DateTimes read from the clock, a TimeSpan measured between them, and    *)
(* DateTimes moved by that span.  build is how the compiled code behaves   *)
(* when the int64_t subtraction in compareTo overflows, which C++ leaves   *)
(* undefined.                                                              *)
(***************************************************************************)
EXTENDS Integers

CONSTANTS
  Bits,     \* width of uint64_t / int64_t
  Milli,    \* the 1000 of "1000 * 1000" microseconds per second
  Builds    \* subset of {"wrap", "fold"}: outcomes of signed overflow

ASSUME Bits \in 2..8 /\ Milli \in 1..4
ASSUME Builds # {} /\ Builds \subseteq {"wrap", "fold"}

Word == 2 ^ Bits
Half == 2 ^ (Bits - 1)
UInt == 0 .. Word - 1
USec == Milli * Milli

\* a TimeSpan is its uint64_t timestamp in microseconds, the value
\* getTimestamp returns; its days .. microseconds fields are derived from
\* it by the constructor, whose body is not in this source
TimeSpan == UInt

\* the timestamps DateTime::now() can return: system_clock after the epoch,
\* below 2^63 microseconds
Clock == 0 .. Half - 1

\* (int64_t) u for a uint64_t u: two's complement reinterpretation
ToSigned(u) == IF u >= Half THEN u - Word ELSE u

\* int64_t x - y.  On overflow a "wrap" build yields the two's complement
\* result; a "fold" build has simplified the later sign tests to x < y and
\* x > y, which is the sign of the exact difference.
SignedSub(x, y, build) ==
  IF build = "wrap" THEN ToSigned((x - y) % Word) ELSE x - y

\* C++ integer division truncates toward zero
TruncDiv(r, d) == IF r >= 0 THEN r \div d ELSE -((-r) \div d)

Sign(r) == IF r < 0 THEN -1 ELSE IF r > 0 THEN 1 ELSE 0

\* DateTime::compareTo: rt = (int64_t) timestamp - (int64_t) other; sign
CompareToUnsigned(a, b, build) == Sign((a - b) % Word)
compareTo(a, b, build) == Sign(SignedSub(ToSigned(a), ToSigned(b), build))

\* DateTime::unclearCompareTo: the same difference, truncated to seconds
UnclearDividingFirst(a, b, build) ==
  Sign(TruncDiv(ToSigned(a), USec) - TruncDiv(ToSigned(b), USec))
unclearCompareTo(a, b, build) ==
  Sign(TruncDiv(SignedSub(ToSigned(a), ToSigned(b), build), USec))

\* DateTime - DateTime: TimeSpan{timestamp - other.timestamp}, unsigned
DiffSpan(a, b) == (a - b) % Word

\* DateTime - TimeSpan and DateTime + TimeSpan, via getTimestamp(), unsigned
SubSpanSigned(a, s) == a - s
SubSpan(a, s) == (a - s) % Word
AddSpan(a, s) == (a + s) % Word

-----------------------------------------------------------------------------

VARIABLES a, b, span, build

vars == <<a, b, span, build>>

\* two clock readings, the zero span, and the build in use
Init ==
  /\ a \in Clock
  /\ b \in Clock
  /\ span = 0
  /\ build \in Builds

\* measure the elapsed time between the two readings, in either order
Elapsed ==
  /\ span' \in {DiffSpan(a, b), DiffSpan(b, a)}
  /\ UNCHANGED <<a, b, build>>

\* move one of the DateTimes by the span, later or earlier
Later ==
  \/ a' = AddSpan(a, span) /\ UNCHANGED <<b, span, build>>
  \/ b' = AddSpan(b, span) /\ UNCHANGED <<a, span, build>>
Earlier ==
  \/ a' = SubSpan(a, span) /\ UNCHANGED <<b, span, build>>
  \/ b' = SubSpan(b, span) /\ UNCHANGED <<a, span, build>>

Next == Elapsed \/ Later \/ Earlier

Spec == Init /\ [][Next]_vars

-----------------------------------------------------------------------------

TypeOK == a \in UInt /\ b \in UInt /\ span \in TimeSpan /\ build \in Builds

\* compareTo orders two clock readings (both below 2^63) as their
\* timestamps are ordered, whatever the build does on overflow.
CompareOrdersClockReadings ==
  (a \in Clock /\ b \in Clock) => compareTo(a, b, build) = Sign(a - b)

\* unclearCompareTo ignores differences below one second and otherwise
\* agrees with compareTo, for clock readings.
UnclearCompareWithinSecond ==
  (a \in Clock /\ b \in Clock) =>
    /\ (unclearCompareTo(a, b, build) = 0) <=> (a - b < USec /\ b - a < USec)
    /\ unclearCompareTo(a, b, build) # 0 =>
         unclearCompareTo(a, b, build) = compareTo(a, b, build)

\* compareTo is antisymmetric for every pair of DateTimes a program can
\* compute with operator+ and operator- from clock readings: a sort or a
\* std::map keyed by it needs a.compareTo(b) = -b.compareTo(a).
CompareAntisymmetric ==
  compareTo(a, b, build) = -compareTo(b, a, build)
=============================================================================
