--------------------------- MODULE CitationRecord ---------------------------
(***************************************************************************)
(* What the citation cache promises of a citation, without leases, reads   *)
(* or workers: one record that learns an observation at a time, and only   *)
(* when it has nothing to answer from, and that drops an absence as soon   *)
(* as anyone finds it expired.  The workers' clocks need not agree, so the *)
(* times of the observations need not be in order.                         *)
(*                                                                         *)
(* CitationCache implements this specification.                            *)
(***************************************************************************)
EXTENDS CitationSource

CONSTANT Instant  \* the times a worker may read, any set of integers

VARIABLES
    source,   \* the row of citation_source_states
    evidence  \* history: the last positive, and the absences observed since

recordVars == <<source, evidence>>

Evidence == [positive : Positive \cup {Null}, absences : SUBSET Int]

RecordInit ==
    /\ source = Empty
    /\ evidence = [positive |-> Null, absences |-> {}]

\* The history after an observation.
Heard(known, observation, now) ==
    IF observation = Absent
    THEN [known EXCEPT !.absences = @ \cup {now}]
    ELSE [positive |-> [cluster |-> observation, retrievedAt |-> now], absences |-> {}]

Learn(observation, now) ==
    /\ RequiresRevalidation(source, now)
    /\ source.kind # "negative"
    /\ source' = RecordObservation(source, observation, now)
    /\ evidence' = Heard(evidence, observation, now)

Forget(now) ==
    /\ StaleNegative(source, now)
    /\ source' = PurgeExpiredNegative(source, now)
    /\ UNCHANGED evidence

RecordNext ==
    \E now \in Instant :
        \/ Forget(now)
        \/ \E observation \in Observation : Learn(observation, now)

RecordSpec == RecordInit /\ [][RecordNext]_recordVars

-----------------------------------------------------------------------------
(* Properties                                                              *)

\* The positive a record still knows of.
Retained(s) ==
    CASE s.kind = "positive" -> s.positive
      [] s.kind \in {"negative", "reversal_pending"} -> s.superseded
      [] OTHER -> Null

\* Evidence once seen is never lost: whatever absences and expiries follow,
\* the last positive is what is answered from or what is in doubt.
PositiveKept == Retained(source) = evidence.positive

\* After a positive, "not found" is answered only when two absences at least
\* ReversalConfirmation apart have been observed since: neither an expired
\* negative nor clocks that disagree let a single absence through.
ReversalConfirmed ==
    source.kind = "negative" /\ evidence.positive # Null =>
        /\ source.negative \in evidence.absences
        /\ \E first \in evidence.absences : source.negative - first >= ReversalConfirmation

RecordTypeOK ==
    /\ source \in SourceState
    /\ evidence \in Evidence

\* The first absence of a reversal was really observed.
AbsencesObserved ==
    /\ source.kind = "reversal_pending" => source.firstNegative \in evidence.absences
    /\ source.kind = "negative" => source.negative \in evidence.absences

RecordInv ==
    /\ RecordTypeOK
    /\ AbsencesObserved
    /\ PositiveKept
    /\ ReversalConfirmed
=============================================================================
