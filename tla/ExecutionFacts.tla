--------------------------- MODULE ExecutionFacts ---------------------------
(***************************************************************************)
(* The collector of src/telemetry/execution-facts.ts: what the lookups of  *)
(* one request tell about the cache, the circuit and CourtListener, folded *)
(* into one value per dimension of the telemetry event.  Of the latency    *)
(* only matters whether there is one.                                      *)
(***************************************************************************)
CacheStatus == {"not_used", "hit", "miss", "source_changed"}
FreshnessStatus == {"not_applicable", "fresh", "stale", "source_changed"}
CircuitStatus == {"not_called", "closed", "open", "half_open"}
UpstreamStatus == {"not_called", "success", "rate_limited", "quota_limited", "quota_unknown",
                   "unavailable", "timeout", "server_error", "malformed_response"}

ExecutionFacts == [cache : CacheStatus, freshness : FreshnessStatus, circuit : CircuitStatus,
                   upstream : UpstreamStatus, timed : BOOLEAN]

InitialFacts == [cache |-> "not_used", freshness |-> "not_applicable",
                 circuit |-> "not_called", upstream |-> "not_called", timed |-> FALSE]

CacheFact(status, freshness) == [kind |-> "cache", status |-> status, freshness |-> freshness]
CircuitFact(status) == [kind |-> "circuit", status |-> status]
UpstreamFact(status) == [kind |-> "upstream", status |-> status]

\* The duration of an attempt, observed however the attempt ended.
AttemptFact == [kind |-> "upstream_latency"]

\* What a cache decided: the evidence is "fresh" or "stale", its absence "absent", it
\* has "nothing", or evidence that a later absence contradicts.
Decision == {"fresh", "stale", "absent", "nothing", "source_changed"}

DecisionFact(decision) ==
    CASE decision \in {"fresh", "stale"} -> CacheFact("hit", decision)
      [] decision = "absent" -> CacheFact("hit", "fresh")
      [] decision = "nothing" -> CacheFact("miss", "not_applicable")
      [] decision = "source_changed" -> CacheFact("source_changed", "source_changed")

\* What came of an attempt.
OutcomeFact(outcome) ==
    UpstreamFact(IF outcome = "transport_error" THEN "unavailable" ELSE outcome)

\* Variant: a miss outlasts even a contradiction.
RecordCacheFactOnceMissed(facts, fact) ==
    IF facts.cache \in {"source_changed", "miss"} THEN facts
    ELSE [facts EXCEPT !.cache = fact.status, !.freshness = fact.freshness]

\* A contradiction outlasts whatever follows, a miss every hit.
RecordCacheFact(facts, fact) ==
    IF \/ facts.cache = "source_changed"
       \/ facts.cache = "miss" /\ fact.status # "source_changed"
    THEN facts
    ELSE [facts EXCEPT !.cache = fact.status, !.freshness = fact.freshness]

\* Variant: what CourtListener was first seen to do holds.
ObserveFirst(facts, fact) ==
    CASE fact.kind = "cache" -> RecordCacheFact(facts, fact)
      [] fact.kind = "circuit" -> [facts EXCEPT !.circuit = fact.status]
      [] fact.kind = "upstream" ->
            IF facts.upstream = "not_called" THEN [facts EXCEPT !.upstream = fact.status]
            ELSE facts
      [] fact.kind = "upstream_latency" -> [facts EXCEPT !.timed = TRUE]

Observe(facts, fact) ==
    CASE fact.kind = "cache" -> RecordCacheFact(facts, fact)
      [] fact.kind = "circuit" -> [facts EXCEPT !.circuit = fact.status]
      [] fact.kind = "upstream" -> [facts EXCEPT !.upstream = fact.status]
      [] fact.kind = "upstream_latency" -> [facts EXCEPT !.timed = TRUE]
=============================================================================
