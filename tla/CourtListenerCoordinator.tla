---------------------- MODULE CourtListenerCoordinator ----------------------
(***************************************************************************)
(* The Durable Object of src/courtlistener/coordinator.ts: one persisted   *)
(* budget, shared by every worker.  Each RPC reads the row, applies one    *)
(* function of CourtListenerBudget and writes the row back inside          *)
(* transactionSync, so each RPC is one action.  An eviction of the object  *)
(* loses nothing: the row is its whole state.                              *)
(*                                                                         *)
(* Callers are left arbitrary: any worker may make any call at any time,   *)
(* repeat it, make it late or never.  A worker that dies is one that makes *)
(* no further call.  A call carries the time its worker read before it     *)
(* sent the call: at most Ahead in front of the true time and, counting    *)
(* the delay of the call, at most Behind it.                               *)
(***************************************************************************)
EXTENDS CourtListenerBudget

CONSTANTS
    UsageReports, \* the window states a usage report may carry; resets are relative
    RetryAfters,  \* the Retry-After delays CourtListener may ask for
    Outcomes,     \* the other ways a data request may end
    Ahead,        \* how far a worker's clock may run in front
    Behind,       \* how far it may run behind, with the delay of a call
    MaxClock      \* bound: the clock stops here

UsageReport == [Window -> [remaining : Nat, resetIn : Int \cup {Null}]]

\* A reservation ends before a circuit opened meanwhile may be probed: ten
\* seconds of lease and the spread of the clocks fit in thirty.
ASSUME TimingAssumption ==
    /\ Ahead \in Nat /\ Behind \in Nat /\ MaxClock \in Nat
    /\ Ahead + Behind + Lease <= FirstOpen
    /\ UsageReports \subseteq UsageReport
    /\ RetryAfters \subseteq Nat
    /\ Outcomes \subseteq {"success"} \cup FailureOutcome \cup NeutralOutcome

VARIABLES
    budget,      \* the persisted row
    clock,       \* true time
    lastRetryAt  \* history: the deadline of the 429 recorded last

vars == <<budget, clock, lastRetryAt>>

\* The time stamps a call may carry now.
Stamps == (clock - Behind) .. (clock + Ahead)

Init ==
    /\ budget = InitialBudget
    /\ clock = 0
    /\ lastRetryAt = 0

\* admit: the recovered budget is written back whatever the decision.
Admit(e, token, now) ==
    LET s == RecoverExpiredLeases(budget, now)
        granted == AdmissionDecision(s, e, token, now) = "reserved"
    IN /\ budget' = IF granted THEN Reserve(s, e, token, now) ELSE s
       /\ UNCHANGED <<clock, lastRetryAt>>

\* beginQuotaSync.  The token is a fresh UUID: no pending reservation has it.
BeginQuotaSync(token, now) ==
    LET s == RecoverExpiredLeases(budget, now)
        started == SyncDecision(s, now) = "started"
    IN /\ \A r \in budget.pendingReservations : r.token # token
       /\ budget' = IF started THEN StartSync(s, token, now) ELSE s
       /\ UNCHANGED <<clock, lastRetryAt>>

RecordQuotaSync(token, windows, now) ==
    LET s == RecoverExpiredLeases(budget, now)
    IN /\ budget' = IF OwnsSync(s, token) THEN SyncRecorded(s, token, windows, now) ELSE s
       /\ UNCHANGED <<clock, lastRetryAt>>

FailQuotaSync(token, now) ==
    LET s == RecoverExpiredLeases(budget, now)
    IN /\ budget' = IF OwnsSync(s, token) THEN SyncFailed(s, token, now) ELSE s
       /\ UNCHANGED <<clock, lastRetryAt>>

\* The worker computes retryAt from the Retry-After delay and its own clock.
RecordQuotaSyncRateLimited(token, delay, now) ==
    LET s == RecoverExpiredLeases(budget, now)
        owns == OwnsSync(s, token)
    IN /\ budget' = IF owns THEN SyncRateLimited(s, token, now + delay) ELSE s
       /\ lastRetryAt' = IF owns THEN now + delay ELSE lastRetryAt
       /\ UNCHANGED clock

RecordOutcome(e, token, outcome, now) ==
    LET s == RecoverExpiredLeases(budget, now)
        known == ReservationOf(s, e, token) # {}
    IN /\ budget' = IF known THEN OutcomeRecorded(s, e, token, outcome, now, now) ELSE s
       /\ UNCHANGED <<clock, lastRetryAt>>

RecordRateLimit(e, token, delay, now) ==
    LET s == RecoverExpiredLeases(budget, now)
        known == ReservationOf(s, e, token) # {}
    IN /\ budget' = IF known
                    THEN OutcomeRecorded(s, e, token, "rate_limited", now + delay, now)
                    ELSE s
       /\ lastRetryAt' = IF known THEN now + delay ELSE lastRetryAt
       /\ UNCHANGED clock

\* The windows of a usage report whose resets are relative to the clock.
ReportedWindows(report) ==
    [w \in Window |->
        [remaining |-> report[w].remaining,
         resetAt |-> IF report[w].resetIn = Null THEN Null ELSE clock + report[w].resetIn]]

Tick ==
    /\ clock < MaxClock
    /\ clock' = clock + 1
    /\ UNCHANGED <<budget, lastRetryAt>>

Call(now) ==
    \E token \in Token :
        \/ BeginQuotaSync(token, now)
        \/ FailQuotaSync(token, now)
        \/ \E report \in UsageReports : RecordQuotaSync(token, ReportedWindows(report), now)
        \/ \E delay \in RetryAfters : RecordQuotaSyncRateLimited(token, delay, now)
        \/ \E e \in DataEndpoint :
              \/ Admit(e, token, now)
              \/ \E outcome \in Outcomes : RecordOutcome(e, token, outcome, now)
              \/ \E delay \in RetryAfters : RecordRateLimit(e, token, delay, now)

Next == Tick \/ \E now \in Stamps : Call(now)

Spec == Init /\ [][Next]_vars

-----------------------------------------------------------------------------
(* Properties                                                              *)

Pending == budget.pendingReservations
SyncReservations == {r \in Pending : r.kind = "quota_sync"}

\* The persisted row stays readable: no order of calls stores a negative
\* allowance, a failure count above two or more than MaxPending reservations.
TypeOK ==
    /\ Readable(budget)
    /\ clock \in Nat
    /\ lastRetryAt \in Int

\* A half-open circuit has its one probe in flight and nothing else, so one
\* verdict decides it: no answer, lease expiry or late outcome of a request
\* admitted before the circuit opened can meet the probe.
SingleProbe ==
    \A e \in DataEndpoint :
        budget.circuits[e].kind = "half_open" =>
            \E r \in Pending : OfEndpoint(Pending, e) = {r}

\* Every reservation of an endpoint whose circuit is open runs out before the
\* circuit may be probed.
OpenDrains ==
    \A e \in DataEndpoint :
        budget.circuits[e].kind = "open" =>
            \A r \in OfEndpoint(Pending, e) : r.leaseExpiresAt <= budget.circuits[e].retryAt

\* One worker at a time asks CourtListener for usage, it owns the lease the
\* quota names, and every data request still in flight is among those whose
\* debit the answer will be corrected by.  Outside a synchronization no such
\* reservation is left behind to occupy the pool.
SyncExclusive ==
    IF budget.quota.kind = "sync_in_progress"
    THEN /\ \E r \in SyncReservations :
               /\ SyncReservations = {r}
               /\ r.token = budget.quota.token
               /\ r.leaseExpiresAt = budget.quota.leaseExpiresAt
         /\ DataOf(Pending) \subseteq budget.quota.captured
    ELSE SyncReservations = {}

\* No data request is granted before the deadline of the 429 recorded last,
\* whatever synchronizations, failures and lease expiries come in between.
RateLimitHonoured ==
    [][DataOf(Pending') \subseteq DataOf(Pending) \/ clock + Ahead >= lastRetryAt]_vars

\* A coordinator that cannot ask for usage again: its api_usage allowance is
\* spent and carries no time at which it will be full again.
Stranded ==
    /\ budget.quota.kind \in {"confirmed", "sync_backoff", "rate_limited"}
    /\ PriorQuota(budget.quota) # Null
    /\ \E w \in ApiUsage : PriorQuota(budget.quota).windows[w] = [remaining |-> 0, resetAt |-> Null]

\* No call, outcome or lapse of time frees a stranded coordinator: from then
\* on every synchronization is refused.
StrandedForever == [][Stranded => Stranded']_vars

\* What courtlistener-coordinator-remediation.integration.test.ts:106 says of
\* the coordinator: usage capacity stays exhausted until its reset.
ExhaustedUntilReset == ~Stranded

-----------------------------------------------------------------------------
(* The inductive invariant                                                 *)

\* No lease outlives the time a fresh one could have.
LeasesBounded == \A r \in Pending : r.leaseExpiresAt <= clock + Ahead + Lease

\* Where the deadline of the last 429 is kept until it has passed.
RateLimitTracked ==
    LET q == budget.quota
        passed == lastRetryAt <= clock + Ahead
    IN /\ q.kind \in {"unknown", "confirmed", "sync_backoff"} => passed
       /\ q.kind = "rate_limited" => q.retryAt = lastRetryAt
       /\ q.kind = "sync_in_progress" =>
             IF q.rateLimit = Null THEN passed ELSE q.rateLimit.retryAt = lastRetryAt

IInv ==
    /\ TypeOK
    /\ LeasesBounded
    /\ OpenDrains
    /\ SingleProbe
    /\ SyncExclusive
    /\ RateLimitTracked
=============================================================================
