----------------------------- MODULE MCDateTime -----------------------------
(***************************************************************************)
(* DateTime composed with DateTimeNow: two threads each construct a       *)
(* DateTime with DateTime::now, and the program then compares, measures   *)
(* and moves the two DateTimes they got.                                  *)
(***************************************************************************)
EXTENDS DateTime

CONSTANTS
  ThreadA, ThreadB,          \* the threads whose readings become a and b
  Utcs, HourLen, DayLen, YearLen, Libcs

VARIABLES libc, pc, stamp, time, k, tm, out

nowVars == <<libc, pc, stamp, time, k, tm, out>>

Now == INSTANCE DateTimeNow WITH Threads <- {ThreadA, ThreadB}, Stamps <- Clock, USec <- USec

MCInit ==
  /\ Now!Init
  /\ a = 0 /\ b = 0 /\ span = 0
  /\ build \in Builds

\* a thread runs a step of its constructor; when ThreadA or ThreadB
\* returns, its DateTime becomes a or b
Constructing ==
  \E t \in {ThreadA, ThreadB} :
    /\ \/ Now!Construct(t) \/ Now!NowPtr(t) \/ Now!CopyField(t)
       \/ Now!Finish(t)
    /\ a' = IF t = ThreadA /\ pc'[t] = "done" THEN stamp[t] ELSE a
    /\ b' = IF t = ThreadB /\ pc'[t] = "done" THEN stamp[t] ELSE b
    /\ UNCHANGED <<span, build>>

\* both DateTimes exist: the arithmetic of DateTime
Computing ==
  /\ \A t \in {ThreadA, ThreadB} : pc[t] = "done"
  /\ Next
  /\ UNCHANGED nowVars

MCNext == Constructing \/ Computing

MCSpec == MCInit /\ [][MCNext]_<<vars, nowVars>>
=============================================================================
