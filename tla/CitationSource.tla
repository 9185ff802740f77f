--------------------------- MODULE CitationSource ---------------------------
(***************************************************************************)
(* The pure state machine of src/verification/citation-source-cache.ts:    *)
(* what is known about one citation, what may be answered from it, and how *)
(* an observation of CourtListener changes it.  A negative is the time of  *)
(* its retrieval.                                                          *)
(***************************************************************************)
EXTENDS Integers

CONSTANTS
    Cluster,               \* the clusters a citation may resolve to
    Absent,                \* the observation that there is none
    Null,
    PositiveFreshness,     \* positiveFreshnessMs
    NegativeFreshness,     \* negativeFreshnessMs
    ReversalConfirmation   \* reversalConfirmationMs

ASSUME SourceAssumption ==
    /\ {PositiveFreshness, NegativeFreshness, ReversalConfirmation} \subseteq Nat \ {0}
    /\ Absent \notin Cluster
    /\ Null \notin Cluster \cup {Absent} \cup [cluster : Cluster, retrievedAt : Int]

Observation == Cluster \cup {Absent}
Positive == [cluster : Cluster, retrievedAt : Int]

Empty == [kind |-> "empty"]
PositiveState(p) == [kind |-> "positive", positive |-> p]
NegativeState(at, superseded) ==
    [kind |-> "negative", negative |-> at, superseded |-> superseded]
ReversalPending(superseded, at) ==
    [kind |-> "reversal_pending", superseded |-> superseded, firstNegative |-> at]

SourceState ==
    [kind : {"empty"}]
    \cup [kind : {"positive"}, positive : Positive]
    \cup [kind : {"negative"}, negative : Int, superseded : Positive \cup {Null}]
    \cup [kind : {"reversal_pending"}, superseded : Positive, firstNegative : Int]

IsFresh(retrievedAt, now, freshness) == now - retrievedAt < freshness

StaleNegative(s, now) == s.kind = "negative" /\ ~IsFresh(s.negative, now, NegativeFreshness)

\* Whether the decision asks for CourtListener.
RequiresRevalidation(s, now) ==
    \/ s.kind \in {"empty", "reversal_pending"}
    \/ s.kind = "positive" /\ ~IsFresh(s.positive.retrievedAt, now, PositiveFreshness)
    \/ StaleNegative(s, now)

\* Variant: one absence is enough to refute an earlier positive.
RecordObservationUnconfirmed(s, observation, now) ==
    IF observation # Absent
    THEN PositiveState([cluster |-> observation, retrievedAt |-> now])
    ELSE CASE s.kind = "empty" -> NegativeState(now, Null)
           [] s.kind = "positive" -> NegativeState(now, s.positive)
           [] OTHER -> NegativeState(now, s.superseded)

\* An absence after a positive must be confirmed by a later one.
RecordObservation(s, observation, now) ==
    IF observation # Absent
    THEN PositiveState([cluster |-> observation, retrievedAt |-> now])
    ELSE CASE s.kind = "empty" -> NegativeState(now, Null)
           [] s.kind = "positive" -> ReversalPending(s.positive, now)
           [] s.kind = "negative" -> NegativeState(now, s.superseded)
           [] s.kind = "reversal_pending" ->
                 IF IsFresh(s.firstNegative, now, ReversalConfirmation)
                 THEN s
                 ELSE NegativeState(now, s.superseded)

\* Variant: an expired negative leaves nothing behind.
PurgeExpiredNegativeWholly(s, now) == IF StaleNegative(s, now) THEN Empty ELSE s

\* The evidence an expired negative had superseded comes back into doubt.
PurgeExpiredNegative(s, now) ==
    IF ~StaleNegative(s, now) THEN s
    ELSE IF s.superseded = Null THEN Empty
    ELSE ReversalPending(s.superseded, s.negative)
=============================================================================
