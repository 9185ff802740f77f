------------------------ MODULE CourtListenerBudget ------------------------
(***************************************************************************)
(* The shared CourtListener budget as a pure state machine: the functions  *)
(* of src/courtlistener/budget-*.ts, which map a persisted budget, a time  *)
(* stamp and an input to the next budget.  A budget is the record          *)
(*     [circuits, pendingReservations, quota]                              *)
(* that the coordinator stores as one row.  Nothing here has state of its  *)
(* own: CourtListenerCoordinator gives the functions a variable, a clock   *)
(* and callers.                                                            *)
(*                                                                         *)
(* Times are integers.  A caller stamps each call with its own clock, so   *)
(* "now" is always a parameter.  The order of pending reservations is      *)
(* never observed, so they are a set; where the code keeps the list of     *)
(* endpoints captured by a quota synchronization, the model keeps the      *)
(* captured reservations themselves, whose endpoints they are.             *)
(***************************************************************************)
EXTENDS Integers, FiniteSets

CONSTANTS
    Token,        \* reservation tokens (crypto.randomUUID in the code)
    Window,       \* identities of the quota windows CourtListener reports
    ScopeOf,      \* the scope of each window
    Limit,        \* the limit of each window
    Lease,        \* COURTLISTENER_LEASE_MILLISECONDS
    FirstOpen,    \* FIRST_OPEN_MILLISECONDS
    MaxOpen,      \* the five minutes that cap an open period
    SyncInterval, \* QUOTA_SYNC_INTERVAL_MILLISECONDS
    MaxPending,   \* MAX_PENDING_RESERVATIONS
    Null          \* the code's null

DataEndpoint == {"citation", "case_law"}
Scope == {"user", "citations", "api_usage"}

WindowState == [remaining : Nat, resetAt : Int \cup {Null}]
ConfirmedQuota == [confirmedAt : Int, windows : [Window -> WindowState]]
RateLimit == [prior : ConfirmedQuota \cup {Null}, retryAt : Int]

DataReservation ==
    [kind : {"data"}, endpoint : DataEndpoint, leaseExpiresAt : Int, token : Token]
SyncReservation == [kind : {"quota_sync"}, leaseExpiresAt : Int, token : Token]
Reservation == DataReservation \cup SyncReservation

ClosedState == [kind : {"closed"}, consecutiveFailures : 0 .. 2]
OpenState == [kind : {"open"}, openFor : FirstOpen .. MaxOpen, retryAt : Int]
HalfOpenState == [kind : {"half_open"}, openFor : FirstOpen .. MaxOpen]
CircuitState == ClosedState \cup OpenState \cup HalfOpenState

UnknownQuota == [kind : {"unknown"}]
ConfirmedState == [kind : {"confirmed"}, value : ConfirmedQuota]
SyncState ==
    [kind : {"sync_in_progress"}, captured : SUBSET DataReservation,
     leaseExpiresAt : Int, prior : ConfirmedQuota \cup {Null},
     rateLimit : RateLimit \cup {Null}, token : Token]
BackoffState ==
    [kind : {"sync_backoff"}, prior : ConfirmedQuota \cup {Null}, retryAt : Int]
LimitedState ==
    [kind : {"rate_limited"}, immediateSyncRequired : BOOLEAN,
     prior : ConfirmedQuota \cup {Null}, retryAt : Int]
QuotaState ==
    UnknownQuota \cup ConfirmedState \cup SyncState \cup BackoffState \cup LimitedState

BudgetState ==
    [circuits : [DataEndpoint -> CircuitState],
     pendingReservations : SUBSET Reservation,
     quota : QuotaState]

\* What stateSchema in coordinator.ts accepts: a budget that fails it is
\* refused by every later call.  (The schema lets an open period be any positive
\* number; that it stays between FirstOpen and MaxOpen is stated here as well.)
Readable(s) ==
    /\ s \in BudgetState
    /\ IsFiniteSet(s.pendingReservations)
    /\ Cardinality(s.pendingReservations) <= MaxPending
    /\ s.quota.kind = "sync_in_progress" =>
          IsFiniteSet(s.quota.captured) /\ Cardinality(s.quota.captured) <= MaxPending

\* Every synchronization reports at least one window of each scope
\* (quotaWindows refuses a report that does not), and a limit is positive
\* (windowSchema).  Null is no time and no quota.
ASSUME BudgetAssumption ==
    /\ ScopeOf \in [Window -> Scope]
    /\ \A s \in Scope : \E w \in Window : ScopeOf[w] = s
    /\ Limit \in [Window -> Nat \ {0}]
    /\ Lease \in Nat \ {0}
    /\ FirstOpen \in Nat \ {0}
    /\ MaxOpen \in Nat /\ FirstOpen <= MaxOpen
    /\ SyncInterval \in Nat \ {0}
    /\ MaxPending \in Nat \ {0}
    /\ Null \notin Int \cup ConfirmedQuota \cup RateLimit

InitialBudget ==
    [circuits |-> [e \in DataEndpoint |-> [kind |-> "closed", consecutiveFailures |-> 0]],
     pendingReservations |-> {},
     quota |-> [kind |-> "unknown"]]

-----------------------------------------------------------------------------
(* Circuits (budget-leases.ts)                                             *)

Smaller(a, b) == IF a <= b THEN a ELSE b
Larger(a, b) == IF a >= b THEN a ELSE b

ClosedCircuit == [kind |-> "closed", consecutiveFailures |-> 0]
\* Variant: the open period is counted from the epoch.
OpenCircuitFromEpoch(openFor, now) == [kind |-> "open", openFor |-> openFor, retryAt |-> openFor]
OpenCircuit(openFor, now) == [kind |-> "open", openFor |-> openFor, retryAt |-> now + openFor]

FailedCircuit(c, now) ==
    CASE c.kind = "closed" /\ c.consecutiveFailures < 2 ->
            [c EXCEPT !.consecutiveFailures = @ + 1]
      [] c.kind = "closed" /\ c.consecutiveFailures = 2 -> OpenCircuit(FirstOpen, now)
      [] c.kind = "half_open" -> OpenCircuit(Smaller(2 * c.openFor, MaxOpen), now)
      [] c.kind = "open" -> c

NonFailureCircuit(c) == IF c.kind = "open" THEN c ELSE ClosedCircuit

\* The circuit after n failures in a row at the same time stamp: the reduce
\* over the expired data reservations of one endpoint.
FailedTimes(c, n, now) ==
    IF n = 0 THEN c
    ELSE CASE c.kind = "closed" /\ c.consecutiveFailures + n < 3 ->
                 [c EXCEPT !.consecutiveFailures = @ + n]
           [] c.kind = "closed" /\ c.consecutiveFailures + n >= 3 ->
                 OpenCircuit(FirstOpen, now)
           [] c.kind # "closed" -> FailedCircuit(c, now)

-----------------------------------------------------------------------------
(* Lease recovery (budget-leases.ts), the first step of every operation    *)

OfEndpoint(pending, e) == {r \in pending : r.kind = "data" /\ r.endpoint = e}
DataOf(pending) == {r \in pending : r.kind = "data"}
Expired(pending, now) == {r \in pending : now >= r.leaseExpiresAt}
Retained(pending, now) == {r \in pending : now < r.leaseExpiresAt}

RecoveredCircuit(s, e, now) ==
    FailedTimes(s.circuits[e],
                Cardinality(OfEndpoint(Expired(s.pendingReservations, now), e)), now)

SyncReservationOf(pending, token) ==
    {r \in pending : r.kind = "quota_sync" /\ r.token = token}

SyncLapsed(s, now) ==
    /\ s.quota.kind = "sync_in_progress"
    /\ \/ now >= s.quota.leaseExpiresAt
       \/ SyncReservationOf(Retained(s.pendingReservations, now), s.quota.token) = {}

Backoff(prior, now) ==
    [kind |-> "sync_backoff", prior |-> prior, retryAt |-> now + SyncInterval]
Limited(immediate, prior, retryAt) ==
    [kind |-> "rate_limited", immediateSyncRequired |-> immediate,
     prior |-> prior, retryAt |-> retryAt]

\* Variant: a lapsed synchronization forgets the 429 that asked for it.
RecoveredQuotaForgetting(s, now) ==
    IF SyncLapsed(s, now) THEN Backoff(s.quota.prior, now) ELSE s.quota

RecoveredQuota(s, now) ==
    IF ~SyncLapsed(s, now) THEN s.quota
    ELSE IF s.quota.rateLimit = Null THEN Backoff(s.quota.prior, now)
    ELSE Limited(FALSE, s.quota.rateLimit.prior, s.quota.rateLimit.retryAt)

RecoverExpiredLeases(s, now) ==
    [circuits |-> [e \in DataEndpoint |-> RecoveredCircuit(s, e, now)],
     pendingReservations |-> Retained(s.pendingReservations, now),
     quota |-> RecoveredQuota(s, now)]

-----------------------------------------------------------------------------
(* Admission (budget-admission.ts)                                         *)

ScopesFor(e) == IF e = "citation" THEN {"user", "citations"} ELSE {"user"}
WindowsFor(e) == {w \in Window : ScopeOf[w] \in ScopesFor(e)}

WindowDecision(q, e) ==
    IF \/ \E s \in ScopesFor(e) : \A w \in WindowsFor(e) : ScopeOf[w] # s
       \/ \E w \in WindowsFor(e) : q.windows[w].remaining <= 0
    THEN "quota_exhausted"
    ELSE "reserved"

QuotaDecision(q, e, now) ==
    CASE q.kind = "unknown" -> "sync_required"
      [] q.kind = "sync_in_progress" -> "sync_in_progress"
      [] q.kind = "rate_limited" ->
            IF ~q.immediateSyncRequired /\ now < q.retryAt
            THEN "quota_limited" ELSE "sync_required"
      [] q.kind = "sync_backoff" ->
            IF now >= q.retryAt THEN "sync_required"
            ELSE IF q.prior = Null THEN "sync_unavailable"
            ELSE WindowDecision(q.prior, e)
      [] q.kind = "confirmed" ->
            IF now >= q.value.confirmedAt + SyncInterval THEN "sync_required"
            ELSE WindowDecision(q.value, e)

\* Variant: a half-open circuit admits more requests.
AdmissionDecisionManyProbes(s, e, token, now) ==
    LET c == s.circuits[e] IN
    IF \E r \in s.pendingReservations : r.token = token THEN "reservation_conflict"
    ELSE IF Cardinality(s.pendingReservations) >= MaxPending
         THEN "reservation_capacity_exhausted"
    ELSE IF c.kind = "open" /\ now < c.retryAt THEN "circuit_open"
    ELSE QuotaDecision(s.quota, e, now)

\* The decision of admitCourtListenerRequest on a recovered budget.
AdmissionDecision(s, e, token, now) ==
    LET c == s.circuits[e] IN
    IF \E r \in s.pendingReservations : r.token = token THEN "reservation_conflict"
    ELSE IF Cardinality(s.pendingReservations) >= MaxPending
         THEN "reservation_capacity_exhausted"
    ELSE IF c.kind = "open" /\ now < c.retryAt THEN "circuit_open"
    ELSE IF c.kind = "half_open" THEN "probe_in_flight"
    ELSE QuotaDecision(s.quota, e, now)

DebitWindows(windows, ws) ==
    [w \in Window |-> IF w \in ws THEN [windows[w] EXCEPT !.remaining = @ - 1]
                                  ELSE windows[w]]
DebitQuota(q, ws) == [q EXCEPT !.windows = DebitWindows(@, ws)]

DecrementQuota(q, e) ==
    CASE q.kind = "confirmed" -> [q EXCEPT !.value = DebitQuota(@, WindowsFor(e))]
      [] q.kind = "sync_backoff" ->
            [q EXCEPT !.prior = IF @ = Null THEN Null ELSE DebitQuota(@, WindowsFor(e))]
      [] q.kind \in {"unknown", "sync_in_progress", "rate_limited"} -> q

DataLease(e, token, now) ==
    [kind |-> "data", endpoint |-> e, leaseExpiresAt |-> now + Lease, token |-> token]

ProbeCircuit(c) ==
    IF c.kind = "open" THEN [kind |-> "half_open", openFor |-> c.openFor] ELSE c

Reserve(s, e, token, now) ==
    [circuits |-> [s.circuits EXCEPT ![e] = ProbeCircuit(@)],
     pendingReservations |-> s.pendingReservations \cup {DataLease(e, token, now)},
     quota |-> DecrementQuota(s.quota, e)]

-----------------------------------------------------------------------------
(* Quota synchronization (budget-sync.ts, budget-sync-reconcile.ts)        *)

ApiUsage == {w \in Window : ScopeOf[w] = "api_usage"}

\* Variant: a window without a reset is taken to be full again.
NormalizeWindowWithoutReset(w, state, now) ==
    IF state.resetAt = Null \/ state.resetAt <= now
    THEN [remaining |-> Limit[w], resetAt |-> Null]
    ELSE state

\* api_usage windows whose reset has passed are full again, with no known
\* next reset.
NormalizeWindow(w, state, now) ==
    IF state.resetAt # Null /\ state.resetAt <= now
    THEN [remaining |-> Limit[w], resetAt |-> Null]
    ELSE state

NormalizeApiUsage(windows, now) ==
    [w \in Window |-> IF w \in ApiUsage THEN NormalizeWindow(w, windows[w], now)
                                        ELSE windows[w]]

ApiUsageExhausted(prior, now) ==
    /\ prior # Null
    /\ \/ ApiUsage = {}
       \/ \E w \in ApiUsage : NormalizeApiUsage(prior.windows, now)[w].remaining <= 0

ChargedPrior(prior, now) ==
    IF prior = Null THEN Null
    ELSE [prior EXCEPT !.windows = DebitWindows(NormalizeApiUsage(@, now), ApiUsage)]

PriorQuota(q) ==
    CASE q.kind = "confirmed" -> q.value
      [] q.kind \in {"sync_backoff", "sync_in_progress", "rate_limited"} -> q.prior
      [] q.kind = "unknown" -> Null

SyncDue(q, now) ==
    CASE q.kind = "unknown" -> TRUE
      [] q.kind = "confirmed" -> now >= q.value.confirmedAt + SyncInterval
      [] q.kind = "sync_backoff" -> now >= q.retryAt
      [] q.kind = "rate_limited" -> q.immediateSyncRequired \/ now >= q.retryAt
      [] q.kind = "sync_in_progress" -> FALSE

\* The decision of beginQuotaSync on a recovered budget.
SyncDecision(s, now) ==
    IF s.quota.kind = "sync_in_progress" THEN "already_in_progress"
    ELSE IF ~SyncDue(s.quota, now) THEN "not_due"
    ELSE IF Cardinality(s.pendingReservations) >= MaxPending
         THEN "reservation_capacity_exhausted"
    ELSE IF ApiUsageExhausted(PriorQuota(s.quota), now) THEN "quota_sync_quota_exhausted"
    ELSE "started"

\* Only the synchronization that a 429 asked for at once keeps its deadline.
CarriedRateLimit(q, charged) ==
    IF q.kind = "rate_limited" /\ q.immediateSyncRequired
    THEN [prior |-> charged, retryAt |-> q.retryAt]
    ELSE Null

\* Variant: the requests in flight are not captured.
StartSyncBlind(s, token, now) ==
    LET charged == ChargedPrior(PriorQuota(s.quota), now)
        lease == [kind |-> "quota_sync", leaseExpiresAt |-> now + Lease, token |-> token]
    IN [circuits |-> s.circuits,
        pendingReservations |-> s.pendingReservations \cup {lease},
        quota |->
            [kind |-> "sync_in_progress", captured |-> {},
             leaseExpiresAt |-> now + Lease, prior |-> charged,
             rateLimit |-> CarriedRateLimit(s.quota, charged), token |-> token]]

StartSync(s, token, now) ==
    LET charged == ChargedPrior(PriorQuota(s.quota), now)
        lease == [kind |-> "quota_sync", leaseExpiresAt |-> now + Lease, token |-> token]
    IN [circuits |-> s.circuits,
        pendingReservations |-> s.pendingReservations \cup {lease},
        quota |->
            [kind |-> "sync_in_progress", captured |-> DataOf(s.pendingReservations),
             leaseExpiresAt |-> now + Lease, prior |-> charged,
             rateLimit |-> CarriedRateLimit(s.quota, charged), token |-> token]]

AppliesTo(w, e) == ScopeOf[w] = "user" \/ (ScopeOf[w] = "citations" /\ e = "citation")

\* The captured data requests that a report may not have counted yet.
CapturedDebit(captured, w) == Cardinality({r \in captured : AppliesTo(w, r.endpoint)})

\* Variant: a debit that the report has counted may take a window below zero.
ReapplyWithoutFloor(windows, captured) ==
    [w \in Window |-> [windows[w] EXCEPT !.remaining = @ - CapturedDebit(captured, w)]]

ReapplyCapturedDataDebits(windows, captured) ==
    [w \in Window |->
        [windows[w] EXCEPT !.remaining = Larger(0, @ - CapturedDebit(captured, w))]]

-----------------------------------------------------------------------------
(* Outcomes (budget-outcomes.ts)                                           *)

\* Whether the token still owns the synchronization of a recovered budget.
OwnsSync(s, token) ==
    /\ s.quota.kind = "sync_in_progress"
    /\ s.quota.token = token
    /\ SyncReservationOf(s.pendingReservations, token) # {}

EndSync(s, token, quota) ==
    [circuits |-> s.circuits,
     pendingReservations |->
        s.pendingReservations \ SyncReservationOf(s.pendingReservations, token),
     quota |-> quota]

SyncRecorded(s, token, windows, now) ==
    LET value == [confirmedAt |-> now,
                  windows |-> ReapplyCapturedDataDebits(windows, s.quota.captured)]
    IN EndSync(s, token,
               IF s.quota.rateLimit = Null
               THEN [kind |-> "confirmed", value |-> value]
               ELSE Limited(FALSE, value, s.quota.rateLimit.retryAt))

SyncFailed(s, token, now) ==
    EndSync(s, token,
            IF s.quota.rateLimit = Null
            THEN Backoff(s.quota.prior, now)
            ELSE Limited(FALSE, s.quota.prior, s.quota.rateLimit.retryAt))

SyncRateLimited(s, token, retryAt) ==
    EndSync(s, token, Limited(FALSE, s.quota.prior, retryAt))

ReservationOf(s, e, token) ==
    {r \in OfEndpoint(s.pendingReservations, e) : r.token = token}

Complete(s, e, token, circuit, quota) ==
    [circuits |-> [s.circuits EXCEPT ![e] = circuit],
     pendingReservations |-> s.pendingReservations \ ReservationOf(s, e, token),
     quota |-> quota]

\* recordRateLimit: a 429 during a synchronization is remembered by it; any
\* other asks for a synchronization at once.
RateLimitedQuota(q, retryAt) ==
    IF q.kind = "sync_in_progress"
    THEN [q EXCEPT !.rateLimit = [prior |-> q.prior, retryAt |-> retryAt]]
    ELSE Limited(TRUE, PriorQuota(q), retryAt)

NeutralOutcome == {"transport_error", "malformed_response"}
FailureOutcome == {"timeout", "server_error"}

\* recordCourtListenerOutcome on a recovered budget that holds the reservation.
OutcomeRecorded(s, e, token, outcome, retryAt, now) ==
    CASE outcome = "success" -> Complete(s, e, token, ClosedCircuit, s.quota)
      [] outcome \in FailureOutcome ->
            Complete(s, e, token, FailedCircuit(s.circuits[e], now), s.quota)
      [] outcome \in NeutralOutcome ->
            Complete(s, e, token, NonFailureCircuit(s.circuits[e]), s.quota)
      [] outcome = "rate_limited" ->
            Complete(s, e, token, NonFailureCircuit(s.circuits[e]),
                     RateLimitedQuota(s.quota, retryAt))
=============================================================================
