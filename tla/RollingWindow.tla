--------------------------- MODULE RollingWindow ---------------------------
(***************************************************************************)
(* The admission rule of src/admission/rolling-window.ts: a request is     *)
(* admitted when neither the rolling minute nor the rolling day holds as   *)
(* many admissions as its limit.  An admission is a row [row, at]: rows    *)
(* may share a time, and their order is never observed.                    *)
(*                                                                         *)
(* Time is in ticks, of which a second holds Second.                       *)
(***************************************************************************)
EXTENDS Integers, FiniteSets

CONSTANTS
    Minute, \* MINUTE_MILLISECONDS
    Day,    \* DAY_MILLISECONDS
    Second  \* one second

ASSUME WindowAssumption ==
    /\ Second \in Nat \ {0}
    /\ Minute \in Nat \ {0}
    /\ Day \in Nat /\ Minute <= Day

Admission == [row : Nat, at : Int]
Limits == [minute : Nat \ {0}, day : Nat \ {0}]

\* Admissions stamped later than now count as well.
AdmissionsInWindow(rows, now, length) == {r \in rows : r.at > now - length}

DayAdmissions(rows, now) == AdmissionsInWindow(rows, now, Day)
MinuteAdmissions(rows, now) == AdmissionsInWindow(DayAdmissions(rows, now), now, Minute)

MinuteExhausted(rows, now, limits) == Cardinality(MinuteAdmissions(rows, now)) >= limits.minute
DayExhausted(rows, now, limits) == Cardinality(DayAdmissions(rows, now)) >= limits.day

Admits(rows, now, limits) ==
    ~MinuteExhausted(rows, now, limits) /\ ~DayExhausted(rows, now, limits)

\* An exhausted window opens when the admission with Cardinality(rows) - limit
\* others before it leaves: the one at that index of the sorted list.
NextOpeningTime(rows, limit, length) ==
    LET rank == Cardinality(rows) - limit
        blocking == CHOOSE b \in rows :
                       /\ Cardinality({r \in rows : r.at < b.at}) <= rank
                       /\ rank < Cardinality({r \in rows : r.at <= b.at})
    IN blocking.at + length

Later(a, b) == IF a >= b THEN a ELSE b

\* Variant: the seconds are cut off.
WholeSecondsDown(ticks) == ticks \div Second

\* Math.ceil of a number of ticks in seconds.
WholeSeconds(ticks) == (ticks + Second - 1) \div Second

RetryAfterSeconds(rows, now, limits) ==
    LET minute == MinuteAdmissions(rows, now)
        day == DayAdmissions(rows, now)
        opening ==
            Later(IF MinuteExhausted(rows, now, limits)
                  THEN NextOpeningTime(minute, limits.minute, Minute) ELSE now,
                  IF DayExhausted(rows, now, limits)
                  THEN NextOpeningTime(day, limits.day, Day) ELSE now)
    IN Later(1, WholeSeconds(opening - now))
=============================================================================
