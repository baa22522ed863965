---------------------------- MODULE DateTimeNow ----------------------------
(***************************************************************************)
(* Threads constructing DateTimes at once (DateTime::DateTime(timestamp,  *)
(* utc) in src/sese/src/util/DateTime.cpp, reached from DateTime::now,    *)
(* which HttpClient::post calls on every caller thread).  The constructor *)
(* converts the timestamp to seconds, calls gmtime, and then copies the   *)
(* calendar fields out of the struct tm it returns, one field after the   *)
(* other.  Whether that struct is private to the thread is a property of  *)
(* the C library: libc "static" is a gmtime returning one static buffer  *)
(* (glibc), "tls" one returning a thread-local buffer (MSVC).             *)
(*                                                                         *)
(* The calendar is abstracted to a few fields of a scaled clock: a year   *)
(* of YearLen seconds, a day of DayLen; the timestamp is in microseconds, *)
(* USec per second.                                                        *)
(***************************************************************************)
EXTENDS Naturals, Sequences

CONSTANTS
  Threads,   \* threads calling DateTime::now
  Stamps,    \* microsecond timestamps the clock may return
  Utcs,      \* utc offsets (hours) the callers pass
  USec,      \* microseconds per second (1000 * 1000)
  HourLen,   \* seconds per hour (60 * 60)
  DayLen,    \* seconds per day
  YearLen,   \* seconds per year
  Libcs      \* subset of {"static", "tls"}

ASSUME USec > 0 /\ 0 < HourLen /\ HourLen <= DayLen /\ DayLen <= YearLen
ASSUME Utcs \subseteq Nat /\ Libcs # {} /\ Libcs \subseteq {"static", "tls"}

\* the fields copied out of struct tm, in the order of lines 125-132
Fields == <<"years", "days", "hours">>

\* what gmtime computes for a time in seconds (tm_year + 1900 is kept as
\* a count of years from the epoch)
Civil(time) == [years |-> time \div YearLen,
                days  |-> (time % YearLen) \div DayLen,
                hours |-> (time % DayLen) \div HourLen]

IsLeap(y) == (y % 4 = 0 /\ y % 100 # 0) \/ y % 400 = 0

\* lines 115-116: totalSeconds = timestamp / 1000 / 1000 + utc * 60 * 60
TotalSeconds(ts, utc) == ts \div USec + utc * HourLen

\* the struct tm gmtime fills: a static one, or one per thread
BufOf(t, libc) == IF libc = "static" THEN "static" ELSE t

NoTm == [f \in {"years", "days", "hours"} |-> 0]

VARIABLES
  libc,    \* the C library's gmtime
  pc,      \* per thread: "idle", "copy" (lines 125-132), "done"
  stamp,   \* per thread: this->timestamp
  time,    \* per thread: its totalSeconds
  k,       \* per thread: the next field of Fields to copy
  tm,      \* the struct tm buffers, by owner
  out      \* per thread: the DateTime it constructs

vars == <<libc, pc, stamp, time, k, tm, out>>

Init ==
  /\ libc \in Libcs
  /\ pc = [t \in Threads |-> "idle"]
  /\ stamp = [t \in Threads |-> 0]
  /\ time = [t \in Threads |-> 0]
  /\ k = [t \in Threads |-> 1]
  /\ tm = [o \in Threads \cup {"static"} |-> NoTm]
  /\ out = [t \in Threads |-> [years |-> 0, days |-> 0, hours |-> 0, isLeap |-> FALSE]]

\* DateTime::now reads the clock; the constructor stores timestamp and utc,
\* computes totalSeconds and calls gmtime, which fills its buffer
Construct(t) ==
  /\ pc[t] = "idle"
  /\ \E ts \in Stamps, utc \in Utcs :
       /\ stamp' = [stamp EXCEPT ![t] = ts]
       /\ time' = [time EXCEPT ![t] = TotalSeconds(ts, utc)]
       /\ tm' = [tm EXCEPT ![BufOf(t, libc)] = Civil(TotalSeconds(ts, utc))]
  /\ pc' = [pc EXCEPT ![t] = "copy"]
  /\ k' = [k EXCEPT ![t] = 1]
  /\ UNCHANGED <<libc, out>>

\* this->years = tm->tm_year + 1900, this->months = tm->tm_mon, ...: one
\* field read through the pointer gmtime returned
CopyField(t) ==
  /\ pc[t] = "copy"
  /\ k[t] <= Len(Fields)
  /\ out' = [out EXCEPT ![t][Fields[k[t]]] = tm[BufOf(t, libc)][Fields[k[t]]]]
  /\ k' = [k EXCEPT ![t] = @ + 1]
  /\ UNCHANGED <<libc, pc, stamp, time, tm>>

\* lines 135-141: isLeap from the copied year (milliseconds and
\* microseconds come from the timestamp alone); the constructor returns
Finish(t) ==
  /\ pc[t] = "copy"
  /\ k[t] > Len(Fields)
  /\ out' = [out EXCEPT ![t].isLeap = IsLeap(out[t].years)]
  /\ pc' = [pc EXCEPT ![t] = "done"]
  /\ UNCHANGED <<libc, stamp, time, k, tm>>

\* DateTime::nowPtr: the same clock read and constructor call as now, the
\* DateTime made on the heap with std::make_unique
NowPtr(t) == Construct(t)

Next == \E t \in Threads : Construct(t) \/ NowPtr(t) \/ CopyField(t) \/ Finish(t)

Spec == Init /\ [][Next]_vars

-----------------------------------------------------------------------------

\* A constructed DateTime describes its own timestamp: the calendar fields
\* a thread copied out of gmtime's struct tm, and the isLeap it derived
\* from them, are those of the time that thread converted, even when other
\* threads construct DateTimes at the same moment.
FieldsMatchTimestamp ==
  \A t \in Threads :
    pc[t] = "done" =>
      /\ \A i \in 1 .. Len(Fields) : out[t][Fields[i]] = Civil(time[t])[Fields[i]]
      /\ out[t].isLeap = IsLeap(Civil(time[t]).years)
=============================================================================
