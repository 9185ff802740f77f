------------------------ MODULE CitationRecordProofs ------------------------
(***************************************************************************)
(* The promises of the citation record, for any clusters, periods and      *)
(* times of observation.                                                   *)
(***************************************************************************)
EXTENDS CitationRecord, TLAPS

USE DEF Empty, PositiveState, NegativeState, ReversalPending

\* An observation turns a state into a state that keeps what the invariant says
\* of the evidence.
LEMMA LearnKeeps ==
    ASSUME Instant \subseteq Int, RecordInv,
           NEW now \in Instant, NEW observation \in Observation, Learn(observation, now)
    PROVE  RecordInv'
<1> USE SourceAssumption
<1> USE DEF RecordInv, RecordTypeOK, AbsencesObserved, PositiveKept, ReversalConfirmed, Retained,
            Evidence, Observation, Positive, Learn, Heard
<1>1. now \in Int
      OBVIOUS
<1>2. CASE observation # Absent
  <2> DEFINE p == [cluster |-> observation, retrievedAt |-> now]
  <2>1. p \in Positive /\ source' = [kind |-> "positive", positive |-> p]
        BY <1>1, <1>2 DEF RecordObservation
  <2>2. evidence' = [positive |-> p, absences |-> {}]
        BY <1>2
  <2> QED BY <2>1, <2>2 DEF SourceState
<1>3. CASE observation = Absent
  <2> DEFINE heard == evidence.absences \cup {now}
  <2>1. /\ evidence'.positive = evidence.positive
        /\ evidence'.absences = heard
        /\ evidence' \in Evidence
        BY <1>1, <1>3
  <2>2. CASE source.kind = "empty"
    <3>1. source' = [kind |-> "negative", negative |-> now, superseded |-> Null]
          BY <2>2, <1>3 DEF RecordObservation
    <3> QED BY <3>1, <2>1, <2>2, <1>1 DEF SourceState
  <2>3. CASE source.kind = "positive"
    <3>1. source.positive \in Positive /\ source.positive = evidence.positive
          BY <2>3 DEF SourceState
    <3>2. source' = [kind |-> "reversal_pending", superseded |-> source.positive,
                     firstNegative |-> now]
          BY <2>3, <1>3 DEF RecordObservation
    <3> QED BY <3>1, <3>2, <2>1, <2>3, <1>1 DEF SourceState
  <2>4. CASE source.kind = "reversal_pending"
    <3>1. /\ source.superseded \in Positive /\ source.superseded = evidence.positive
          /\ source.firstNegative \in Int /\ source.firstNegative \in evidence.absences
          BY <2>4 DEF SourceState
    <3>2. CASE IsFresh(source.firstNegative, now, ReversalConfirmation)
      <4>1. source' = source
            BY <2>4, <3>2, <1>3 DEF RecordObservation
      <4> QED BY <4>1, <3>1, <2>1, <2>4
    <3>3. CASE ~IsFresh(source.firstNegative, now, ReversalConfirmation)
      <4>1. source' = [kind |-> "negative", negative |-> now, superseded |-> source.superseded]
            BY <2>4, <3>3, <1>3 DEF RecordObservation
      <4>2. now - source.firstNegative >= ReversalConfirmation
            BY <3>3, <3>1, <1>1 DEF IsFresh
      <4>3. source'.negative - source.firstNegative >= ReversalConfirmation
            BY <4>1, <4>2
      <4> QED BY <4>1, <4>3, <3>1, <2>1, <1>1 DEF SourceState
    <3> QED BY <3>2, <3>3
  <2> QED BY <2>2, <2>3, <2>4 DEF SourceState
<1> QED BY <1>2, <1>3

\* Dropping an expired absence keeps the evidence it had superseded.
LEMMA ForgetKeeps ==
    ASSUME Instant \subseteq Int, RecordInv, NEW now \in Instant, Forget(now)
    PROVE  RecordInv'
<1> USE SourceAssumption
<1> USE DEF RecordInv, RecordTypeOK, AbsencesObserved, PositiveKept, ReversalConfirmed, Retained,
            Evidence, Positive, Forget, StaleNegative
<1>1. /\ source.kind = "negative" /\ source.negative \in Int
      /\ source.superseded \in Positive \cup {Null}
      /\ source.superseded = evidence.positive /\ source.negative \in evidence.absences
      BY DEF SourceState
<1>2. CASE source.superseded = Null
  <2>1. source' = [kind |-> "empty"]
        BY <1>2 DEF PurgeExpiredNegative
  <2> QED BY <2>1, <1>1, <1>2 DEF SourceState
<1>3. CASE source.superseded # Null
  <2>1. source' = [kind |-> "reversal_pending", superseded |-> source.superseded,
                   firstNegative |-> source.negative]
        BY <1>3 DEF PurgeExpiredNegative
  <2> QED BY <2>1, <1>1, <1>3 DEF SourceState
<1> QED BY <1>2, <1>3

\* RecordInv holds in every reachable state: an observation at a time, whatever
\* the clocks say, keeps the last positive and confirms every reversal.
THEOREM RecordInvariant ==
    ASSUME Instant \subseteq Int
    PROVE  RecordSpec => []RecordInv
<1>1. RecordInit => RecordInv
      BY SourceAssumption
      DEF RecordInit, RecordInv, RecordTypeOK, AbsencesObserved, PositiveKept, ReversalConfirmed,
          Retained, Evidence, SourceState
<1>2. RecordInv /\ [RecordNext]_recordVars => RecordInv'
  <2> SUFFICES ASSUME RecordInv, [RecordNext]_recordVars PROVE RecordInv'
      OBVIOUS
  <2>1. CASE RecordNext
        BY <2>1, LearnKeeps, ForgetKeeps DEF RecordNext
  <2>2. CASE UNCHANGED recordVars
        BY <2>2
        DEF recordVars, RecordInv, RecordTypeOK, AbsencesObserved, PositiveKept, ReversalConfirmed,
            Retained
  <2> QED BY <2>1, <2>2
<1> QED BY <1>1, <1>2, PTL DEF RecordSpec

\* PositiveKept: the evidence last seen survives every absence and expiry.
THEOREM EvidenceSurvives ==
    ASSUME Instant \subseteq Int
    PROVE  RecordSpec => []PositiveKept
<1>1. RecordInv => PositiveKept
      BY DEF RecordInv
<1> QED BY <1>1, RecordInvariant, PTL

\* ReversalConfirmed: "not found" after a positive rests on two absences far
\* enough apart.
THEOREM ReversalsAreConfirmed ==
    ASSUME Instant \subseteq Int
    PROVE  RecordSpec => []ReversalConfirmed
<1>1. RecordInv => ReversalConfirmed
      BY DEF RecordInv
<1> QED BY <1>1, RecordInvariant, PTL
=============================================================================
