---------------------- MODULE CourtListenerClientsProofs ----------------------
(***************************************************************************)
(* The lookups and CourtListener together, for any number of workers and   *)
(* any limits: the coordinator never grants more than CourtListener has    *)
(* left, and no lookup sends more requests than it may.                    *)
(*                                                                         *)
(* First what the calls of a lookup do to the prior allowance and to the   *)
(* reservations; then the counting of requests that have not left; then    *)
(* one lemma per action.                                                   *)
(***************************************************************************)
EXTENDS CourtListenerClients, CourtListenerCoordinatorProofs

-----------------------------------------------------------------------------
(* What the calls do to the allowance                                      *)

DataWindow == Window \ ApiUsage

\* The allowance of the data windows that a quota stands for is left alone.
KeepsAllowance(q, p) ==
    PriorQuota(p) # Null =>
        /\ PriorQuota(q) # Null
        /\ \A w \in DataWindow : PriorQuota(p).windows[w].remaining = PriorQuota(q).windows[w].remaining

RemembersPrior(q) ==
    q.kind = "sync_in_progress" /\ q.rateLimit # Null => q.rateLimit.prior = q.prior

\* A synchronization in progress is the one that was in progress before.
KeepsSync(q, p) ==
    p.kind = "sync_in_progress" =>
        q.kind = "sync_in_progress" /\ p.token = q.token /\ p.captured = q.captured

LEMMA DataWindows ==
    ASSUME NEW w \in DataWindow, NEW e \in DataEndpoint
    PROVE  /\ w \in Window
           /\ w \in WindowsFor(e) <=> AppliesTo(w, e)
<1>1. w \in Window /\ ScopeOf[w] \in {"user", "citations"}
    BY BudgetAssumption DEF DataWindow, ApiUsage, Scope
<1> QED BY <1>1 DEF WindowsFor, ScopesFor, AppliesTo

\* Lease recovery loses no allowance.
LEMMA RecoverKeeps ==
    ASSUME NEW s, NEW now, RemembersPrior(s.quota)
    PROVE  LET t == RecoverExpiredLeases(s, now) IN
           /\ KeepsAllowance(s.quota, t.quota)
           /\ RemembersPrior(t.quota)
           /\ KeepsSync(s.quota, t.quota)
           /\ t.pendingReservations = {r \in s.pendingReservations : now < r.leaseExpiresAt}
<1> DEFINE t == RecoverExpiredLeases(s, now)
<1>1. /\ t.quota = RecoveredQuota(s, now)
      /\ t.pendingReservations = {r \in s.pendingReservations : now < r.leaseExpiresAt}
    BY DEF RecoverExpiredLeases, Retained
<1>2. CASE ~SyncLapsed(s, now)
    BY <1>1, <1>2 DEF RecoveredQuota, KeepsAllowance, KeepsSync
<1>3. CASE SyncLapsed(s, now)
  <2>1. s.quota.kind = "sync_in_progress" /\ PriorQuota(s.quota) = s.quota.prior
      BY <1>3 DEF SyncLapsed, PriorQuota
  <2>2. t.quota.kind \in {"sync_backoff", "rate_limited"} /\ t.quota.prior = s.quota.prior
      BY <1>1, <1>3, <2>1 DEF RecoveredQuota, Backoff, Limited, RemembersPrior
  <2>3. PriorQuota(t.quota) = s.quota.prior
      BY <2>2 DEF PriorQuota
  <2> QED BY <1>1, <2>1, <2>2, <2>3 DEF KeepsAllowance, RemembersPrior, KeepsSync
<1> QED BY <1>2, <1>3

\* A synchronization charges the usage windows and no other.
LEMMA StartKeeps ==
    ASSUME NEW s, Readable(s), NEW token, NEW now
    PROVE  LET t == StartSync(s, token, now) IN
           /\ KeepsAllowance(s.quota, t.quota)
           /\ RemembersPrior(t.quota)
           /\ t.quota.kind = "sync_in_progress" /\ t.quota.token = token
           /\ s.pendingReservations \subseteq t.pendingReservations
<1> DEFINE t == StartSync(s, token, now)
           prior == PriorQuota(s.quota)
           charged == ChargedPrior(prior, now)
<1>1. /\ t.quota.kind = "sync_in_progress" /\ t.quota.token = token
      /\ t.quota.prior = charged
      /\ t.quota.rateLimit = CarriedRateLimit(s.quota, charged)
      /\ s.pendingReservations \subseteq t.pendingReservations
    BY DEF StartSync
<1>2. PriorQuota(t.quota) = charged
    BY <1>1 DEF PriorQuota
<1>3. RemembersPrior(t.quota)
    BY <1>1 DEF RemembersPrior, CarriedRateLimit
<1>4. ASSUME prior # Null
      PROVE  \A w \in DataWindow : charged.windows[w].remaining = prior.windows[w].remaining
  <2>1. prior \in ConfirmedQuota
      BY <1>4, PriorQuotaType DEF Readable, BudgetState
  <2>2. charged.windows = DebitWindows(NormalizeApiUsage(prior.windows, now), ApiUsage)
      BY <1>4, <2>1 DEF ChargedPrior, ConfirmedQuota
  <2> QED BY <2>2 DEF DebitWindows, NormalizeApiUsage, DataWindow
<1>5. prior = Null => charged = Null
    BY DEF ChargedPrior
<1> HIDE DEF t, prior, charged
<1>6. KeepsAllowance(s.quota, t.quota)
    BY <1>2, <1>4, <1>5 DEF KeepsAllowance, prior
<1> QED BY <1>1, <1>3, <1>6 DEF t

\* A synchronization that fails leaves the allowance it started from.
LEMMA FailKeeps ==
    ASSUME NEW s, NEW token, OwnsSync(s, token), NEW quota, NEW now, NEW retryAt, RemembersPrior(s.quota),
           \/ quota = SyncFailed(s, token, now).quota
           \/ quota = SyncRateLimited(s, token, retryAt).quota
    PROVE  /\ KeepsAllowance(s.quota, quota)
           /\ quota.kind # "sync_in_progress"
<1>1. PriorQuota(s.quota) = s.quota.prior
    BY DEF OwnsSync, PriorQuota
<1>2. quota.kind \in {"sync_backoff", "rate_limited"} /\ quota.prior = s.quota.prior
    BY DEF SyncFailed, SyncRateLimited, EndSync, Backoff, Limited
<1>3. PriorQuota(quota) = s.quota.prior
    BY <1>2 DEF PriorQuota
<1> QED BY <1>1, <1>2, <1>3 DEF KeepsAllowance

\* What ending a synchronization removes is no data reservation.
LEMMA EndKeepsData ==
    ASSUME NEW s, NEW token, NEW quota, NEW r \in s.pendingReservations, r.kind = "data"
    PROVE  r \in EndSync(s, token, quota).pendingReservations
BY DEF EndSync, SyncReservationOf

\* An outcome takes one reservation and, when it is a 429, keeps the prior.
LEMMA OutcomeKeeps ==
    ASSUME NEW s, Readable(s), NEW e \in DataEndpoint, NEW token, NEW now, NEW retryAt,
           NEW outcome \in {"success", "rate_limited"} \cup FailureOutcome \cup NeutralOutcome,
           RemembersPrior(s.quota)
    PROVE  LET t == OutcomeRecorded(s, e, token, outcome, retryAt, now) IN
           /\ KeepsAllowance(s.quota, t.quota)
           /\ RemembersPrior(t.quota)
           /\ KeepsSync(s.quota, t.quota)
           /\ \A r \in s.pendingReservations : r.token # token => r \in t.pendingReservations
<1> DEFINE t == OutcomeRecorded(s, e, token, outcome, retryAt, now)
           limited == RateLimitedQuota(s.quota, retryAt)
<1>1. /\ t.quota = s.quota \/ t.quota = limited
      /\ t.pendingReservations = s.pendingReservations \ ReservationOf(s, e, token)
    BY DEF OutcomeRecorded, Complete, FailureOutcome, NeutralOutcome
<1>2. \A r \in s.pendingReservations : r.token # token => r \in t.pendingReservations
    BY <1>1 DEF ReservationOf
<1>3. /\ KeepsAllowance(s.quota, limited)
      /\ RemembersPrior(limited)
      /\ KeepsSync(s.quota, limited)
  <2>1. CASE s.quota.kind = "sync_in_progress"
    <3>1. s.quota \in SyncState
        BY <2>1, QuotaByKind DEF Readable, BudgetState
    <3>2. limited = [s.quota EXCEPT !.rateLimit = [prior |-> s.quota.prior, retryAt |-> retryAt]]
        BY <2>1 DEF RateLimitedQuota
    <3>3. /\ limited.kind = s.quota.kind /\ limited.prior = s.quota.prior
          /\ limited.token = s.quota.token /\ limited.captured = s.quota.captured
          /\ limited.rateLimit.prior = s.quota.prior
        BY <3>1, <3>2 DEF SyncState
    <3>4. PriorQuota(limited) = PriorQuota(s.quota)
        BY <2>1, <3>3 DEF PriorQuota
    <3> HIDE DEF limited
    <3> QED BY <2>1, <3>3, <3>4 DEF KeepsAllowance, RemembersPrior, KeepsSync
  <2>2. CASE s.quota.kind # "sync_in_progress"
    <3>1. limited.kind = "rate_limited" /\ limited.prior = PriorQuota(s.quota)
        BY <2>2 DEF RateLimitedQuota, Limited
    <3>2. PriorQuota(limited) = PriorQuota(s.quota)
        BY <3>1 DEF PriorQuota
    <3> HIDE DEF limited
    <3> QED BY <3>1, <3>2 DEF KeepsAllowance, RemembersPrior, KeepsSync
  <2> QED BY <2>1, <2>2
<1>4. KeepsAllowance(s.quota, s.quota) /\ KeepsSync(s.quota, s.quota)
    BY DEF KeepsAllowance, KeepsSync
<1> HIDE DEF t, limited
<1>5. /\ KeepsAllowance(s.quota, t.quota)
      /\ RemembersPrior(t.quota)
      /\ KeepsSync(s.quota, t.quota)
    BY <1>1, <1>3, <1>4
<1> QED BY <1>2, <1>5 DEF t

\* A grant takes one from every data window the request counts in.
LEMMA GrantTakes ==
    ASSUME NEW s, Readable(s), NEW e \in DataEndpoint, NEW token, NEW now \in Int,
           AdmissionDecision(s, e, token, now) = "reserved"
    PROVE  LET t == Reserve(s, e, token, now) IN
           /\ t.quota.kind # "sync_in_progress"
           /\ PriorQuota(s.quota) # Null /\ PriorQuota(t.quota) # Null
           /\ \A w \in DataWindow :
                 PriorQuota(t.quota).windows[w].remaining =
                     IF AppliesTo(w, e) THEN PriorQuota(s.quota).windows[w].remaining - 1
                     ELSE PriorQuota(s.quota).windows[w].remaining
           /\ \A w \in DataWindow : PriorQuota(s.quota).windows[w].remaining \in Nat
           /\ \A w \in DataWindow : PriorQuota(t.quota).windows[w].remaining \in Nat
           /\ s.pendingReservations \subseteq t.pendingReservations
           /\ DataLease(e, token, now) \in t.pendingReservations
<1> DEFINE t == Reserve(s, e, token, now)
           p == PriorQuota(s.quota)
<1>1. /\ s.quota.kind \in {"confirmed", "sync_backoff"} /\ t.quota.kind = s.quota.kind
      /\ p # Null /\ p \in ConfirmedQuota
      /\ WindowDecision(p, e) = "reserved"
      /\ PriorQuota(t.quota) = DebitQuota(p, WindowsFor(e))
    BY GrantDebits
<1>2. t.pendingReservations = s.pendingReservations \cup {DataLease(e, token, now)}
    BY DEF Reserve
<1>3. p.windows \in [Window -> WindowState]
    BY <1>1 DEF ConfirmedQuota
<1>4. PriorQuota(t.quota).windows = DebitWindows(p.windows, WindowsFor(e))
    BY <1>1 DEF DebitQuota, ConfirmedQuota
<1>5. PriorQuota(t.quota) \in ConfirmedQuota
  <2>1. PriorQuota(t.quota) = [confirmedAt |-> p.confirmedAt, windows |-> DebitWindows(p.windows, WindowsFor(e))]
      BY <1>1 DEF DebitQuota, ConfirmedQuota
  <2>2. \A w \in WindowsFor(e) : p.windows[w].remaining > 0
    <3>1. \A w \in WindowsFor(e) : p.windows[w].remaining \in Nat /\ ~(p.windows[w].remaining <= 0)
        BY <1>1, <1>3 DEF WindowDecision, WindowState, WindowsFor
    <3> QED BY <3>1
  <2>3. DebitWindows(p.windows, WindowsFor(e)) \in [Window -> WindowState]
    <3>1. WindowsFor(e) \in SUBSET Window
        BY DEF WindowsFor
    <3> QED BY <1>3, <2>2, <3>1, DebitWindowsType
  <2> QED BY <1>1, <2>1, <2>3 DEF ConfirmedQuota
<1>6. \A w \in DataWindow :
        /\ p.windows[w].remaining \in Nat
        /\ PriorQuota(t.quota).windows[w].remaining \in Nat
    BY <1>3, <1>5 DEF ConfirmedQuota, WindowState, DataWindow
<1>7. \A w \in DataWindow :
        PriorQuota(t.quota).windows[w].remaining =
            IF AppliesTo(w, e) THEN p.windows[w].remaining - 1 ELSE p.windows[w].remaining
  <2> SUFFICES ASSUME NEW w \in DataWindow
               PROVE  PriorQuota(t.quota).windows[w].remaining =
                        IF AppliesTo(w, e) THEN p.windows[w].remaining - 1 ELSE p.windows[w].remaining
      OBVIOUS
  <2>1. w \in Window /\ (w \in WindowsFor(e) <=> AppliesTo(w, e)) /\ p.windows[w] \in WindowState
      BY <1>3, DataWindows
  <2> HIDE DEF t, p
  <2> QED BY <1>4, <2>1 DEF DebitWindows, WindowState
<1>8. PriorQuota(t.quota) # Null
    BY <1>5, BudgetAssumption
<1> QED BY <1>2, <1>3, <1>1, <1>6, <1>7, <1>8

LEMMA KeepsAllowanceTransitive ==
    ASSUME NEW p, NEW q, NEW r, KeepsAllowance(p, q), KeepsAllowance(q, r)
    PROVE  KeepsAllowance(p, r)
BY DEF KeepsAllowance

-----------------------------------------------------------------------------
(* The lookups                                                             *)

LookupOK(k) ==
    /\ DOMAIN k = DOMAIN Idle
    /\ k.at \in Step
    /\ k.endpoint \in DataEndpoint
    /\ k.at \in HoldsToken => k.token \in Token
    /\ k.at \in HoldsReservation => k.leaseEnds \in Int
    /\ k.at = "report" => k.answer \in [Window -> WindowState]
    /\ k.at \in {"usage_limited", "limited"} => k.answer \in RetryAfters
    /\ k.at = "answered" => k.answer \in Outcomes

CountsOK(k) ==
    /\ k.dataRequests \in 0 .. 1 /\ k.usageRequests \in 0 .. 2
    /\ k.at \in {"idle", "readmit", "reserved"} => k.dataRequests = 0
    /\ k.at \in {"answered", "limited"} => k.dataRequests = 1
    /\ k.at \in {"sync", "usage"} => k.usageRequests <= k.dataRequests
    /\ k.at = "report" => k.usageRequests <= k.dataRequests + 1
    /\ k.at \in {"idle", "readmit"} \cup HoldsReservation => k.usageRequests <= 1

UpstreamOK(u) == u \in [Window -> WindowState] /\ \A w \in Window : u[w].remaining <= Limit[w]

LEMMA TypesOfClients ==
    /\ ClientsTypeOK <=> TypeOK /\ UpstreamOK(upstream) /\ DOMAIN client = Client
                         /\ \A c \in Client : LookupOK(client[c])
    /\ ClientsTypeOK' <=> TypeOK' /\ UpstreamOK(upstream') /\ DOMAIN client' = Client
                          /\ \A c \in Client : LookupOK(client'[c])
    /\ RequestsCounted <=> \A c \in Client : CountsOK(client[c])
    /\ RequestsCounted' <=> \A c \in Client : CountsOK(client'[c])
BY DEF ClientsTypeOK, UpstreamOK, LookupOK, RequestsCounted, CountsOK

LEMMA IdleIsOK == LookupOK(Idle) /\ CountsOK(Idle) /\ Idle.at = "idle"
BY DEF LookupOK, CountsOK, Idle, Step, HoldsToken, HoldsReservation, DataEndpoint

\* A step of one lookup.
LEMMA OneBecomes ==
    ASSUME DOMAIN client = Client, NEW c \in Client, NEW k, Becomes(c, k)
    PROVE  /\ DOMAIN client' = Client
           /\ client'[c] = k
           /\ \A d \in Client : d # c => client'[d] = client[d]
BY DEF Becomes

LEMMA OneStepOfClient ==
    ASSUME ClientsTypeOK, RequestsCounted, ReservationsDiffer, TypeOK', UpstreamOK(upstream'),
           NEW c \in Client, NEW k, Becomes(c, k), LookupOK(k), CountsOK(k),
           k.at \in HoldsReservation =>
               \/ client[c].at \in HoldsReservation /\ k.token = client[c].token
               \/ \A d \in Client : client[d].token # k.token
    PROVE  ClientsTypeOK' /\ RequestsCounted' /\ ReservationsDiffer'
<1>1. /\ DOMAIN client' = Client
      /\ client'[c] = k
      /\ \A d \in Client : d # c => client'[d] = client[d]
    BY TypesOfClients, OneBecomes
<1>2. ClientsTypeOK' /\ RequestsCounted'
    BY <1>1, TypesOfClients
<1>3. ReservationsDiffer'
    BY <1>1 DEF ReservationsDiffer
<1> QED BY <1>2, <1>3

-----------------------------------------------------------------------------
(* Requests that have not left                                             *)

\* There are no more of them than reservations, window by window.
LEMMA UnsentAreReserved ==
    ASSUME ReservationsDiffer, ReservedPending, ClientsTypeOK, NEW T, IsFiniteSet(T),
           DataOf(Pending) \subseteq T, NEW w
    PROVE  /\ IsFiniteSet(Unsent(w))
           /\ Cardinality(Unsent(w)) \in Nat
           /\ Cardinality(Unsent(w)) <= CapturedDebit(T, w)
<1> DEFINE D == {r \in T : AppliesTo(w, r.endpoint)}
           f == [c \in Unsent(w) |-> ReservationOfClient(c)]
<1>1. IsFiniteSet(D)
    BY FS_Subset
<1>2. \A c \in Unsent(w) : ReservationOfClient(c) \in D
  <2> SUFFICES ASSUME NEW c \in Unsent(w) PROVE ReservationOfClient(c) \in D
      OBVIOUS
  <2>1. c \in Client /\ client[c].at = "reserved" /\ AppliesTo(w, client[c].endpoint)
      BY DEF Unsent
  <2>2. ReservationOfClient(c) \in Pending
      BY <2>1 DEF ReservedPending
  <2>3. /\ ReservationOfClient(c).kind = "data"
        /\ ReservationOfClient(c).endpoint = client[c].endpoint
      BY DEF ReservationOfClient
  <2> QED BY <2>1, <2>2, <2>3 DEF DataOf
<1>3. \A c, d \in Unsent(w) : ReservationOfClient(c) = ReservationOfClient(d) => c = d
  <2> SUFFICES ASSUME NEW c \in Unsent(w), NEW d \in Unsent(w),
                      ReservationOfClient(c) = ReservationOfClient(d)
               PROVE  c = d
      OBVIOUS
  <2>1. /\ c \in Client /\ client[c].at = "reserved"
        /\ d \in Client /\ client[d].at = "reserved"
      BY DEF Unsent
  <2>2. client[c].token = client[d].token
      BY DEF ReservationOfClient
  <2> QED BY <2>1, <2>2 DEF ReservationsDiffer, HoldsReservation
<1>4. f \in Injection(Unsent(w), D)
  <2> HIDE DEF D
  <2> QED BY <1>2, <1>3 DEF Injection, IsInjective
<1> HIDE DEF D, f
<1>5. IsFiniteSet(Unsent(w)) /\ Cardinality(Unsent(w)) <= Cardinality(D)
    BY <1>1, <1>4, FS_Injection
<1> QED BY <1>5, FS_CardinalityType DEF CapturedDebit, D

LEMMA UnsentIsFinite ==
    ASSUME ClientsIInv, NEW w
    PROVE  IsFiniteSet(Unsent(w)) /\ Cardinality(Unsent(w)) \in Nat
<1>1. IsFiniteSet(Pending) /\ DataOf(Pending) \subseteq Pending
    BY DEF ClientsIInv, IInv, TypeOK, Readable, Pending, DataOf
<1> QED BY <1>1, UnsentAreReserved DEF ClientsIInv

\* How the step of one lookup changes their number.
LEMMA UnsentCounted ==
    ASSUME ClientsIInv, NEW c \in Client, NEW k, Becomes(c, k), NEW w,
           k.endpoint = client[c].endpoint \/ client[c].at # "reserved"
    PROVE  LET counts(l) == l.at = "reserved" /\ AppliesTo(w, l.endpoint)
               n == Cardinality(Unsent(w))
               m == Cardinality(Unsent(w)')
           IN /\ n \in Nat /\ m \in Nat
              /\ m = IF counts(client[c]) /\ ~counts(k) THEN n - 1
                     ELSE IF ~counts(client[c]) /\ counts(k) THEN n + 1 ELSE n
<1> DEFINE counts(l) == l.at = "reserved" /\ AppliesTo(w, l.endpoint)
<1>1. /\ DOMAIN client' = Client
      /\ client'[c] = k
      /\ \A d \in Client : d # c => client'[d] = client[d]
    BY TypesOfClients, OneBecomes DEF ClientsIInv
<1>2. IsFiniteSet(Unsent(w)) /\ Cardinality(Unsent(w)) \in Nat
    BY UnsentIsFinite
<1>3. c \in Unsent(w) <=> counts(client[c])
    BY DEF Unsent
<1>4. Unsent(w)' = IF counts(k) THEN Unsent(w) \cup {c} ELSE Unsent(w) \ {c}
  <2>1. \A d \in Client : d \in Unsent(w)' <=> (IF d = c THEN counts(k) ELSE d \in Unsent(w))
      BY <1>1 DEF Unsent
  <2>2. Unsent(w)' \subseteq Client /\ Unsent(w) \subseteq Client
      BY DEF Unsent
  <2> HIDE DEF counts
  <2> QED BY <2>1, <2>2
<1> HIDE DEF counts
<1>5. CASE counts(k)
  <2>1. Cardinality(Unsent(w)') =
            IF c \in Unsent(w) THEN Cardinality(Unsent(w)) ELSE Cardinality(Unsent(w)) + 1
      BY <1>2, <1>4, <1>5, FS_AddElement
  <2> QED BY <1>2, <1>3, <1>5, <2>1 DEF counts
<1>6. CASE ~counts(k)
  <2>1. /\ Cardinality(Unsent(w)') =
            IF c \in Unsent(w) THEN Cardinality(Unsent(w)) - 1 ELSE Cardinality(Unsent(w))
        /\ IsFiniteSet(Unsent(w)')
      BY <1>2, <1>4, <1>6, FS_RemoveElement
  <2>2. Cardinality(Unsent(w)') \in Nat
      BY <2>1, FS_CardinalityType
  <2> QED BY <1>2, <1>3, <1>6, <2>1, <2>2 DEF counts
<1> QED BY <1>5, <1>6

\* What a step must leave room for, where no usage report is recorded and
\* nothing is granted.
LEMMA RoomSuffices ==
    ASSUME ClientsIInv, UpstreamOK(upstream'), TypeOK',
           \A w \in DataWindow :
               /\ Cardinality(Unsent(w)') \in Nat
               /\ upstream[w].remaining - Cardinality(Unsent(w))
                    <= upstream'[w].remaining - Cardinality(Unsent(w)'),
           KeepsAllowance(budget.quota, budget'.quota),
           \A d \in Client :
               /\ client'[d].at = "report"
               /\ budget'.quota.kind = "sync_in_progress"
               /\ budget'.quota.token = client'[d].token
               => \/ client'[d] = client[d] /\ KeepsSync(budget.quota, budget'.quota)
                  \/ \A w \in DataWindow :
                        client'[d].answer[w].remaining - CapturedDebit(budget'.quota.captured, w)
                          + Cardinality(Unsent(w)') <= upstream'[w].remaining
    PROVE  UnsentCovered' /\ AllowanceCovered' /\ ReportsCovered'
<1>1. \A w \in DataWindow :
        /\ w \in Window /\ w \in Window \ ApiUsage
        /\ upstream[w].remaining \in Nat /\ upstream'[w].remaining \in Nat
        /\ Cardinality(Unsent(w)) \in Nat
    BY UnsentIsFinite, TypesOfClients DEF ClientsIInv, UpstreamOK, WindowState, DataWindow
<1>2. UnsentCovered'
  <2> SUFFICES ASSUME NEW w \in DataWindow
               PROVE  Cardinality(Unsent(w)') <= upstream'[w].remaining
      BY DEF UnsentCovered, DataWindow, ApiUsage
  <2>1. Cardinality(Unsent(w)) <= upstream[w].remaining
      BY <1>1 DEF ClientsIInv, UnsentCovered
  <2> QED BY <1>1, <2>1
<1>3. AllowanceCovered'
  <2> DEFINE p == PriorQuota(budget'.quota)
             q == PriorQuota(budget.quota)
  <2> SUFFICES ASSUME p # Null, NEW w \in DataWindow
               PROVE  p.windows[w].remaining + Cardinality(Unsent(w)') <= upstream'[w].remaining
      BY DEF AllowanceCovered, DataWindow, ApiUsage
  <2>1. q # Null /\ p.windows[w].remaining = q.windows[w].remaining
      BY DEF KeepsAllowance
  <2>2. q.windows[w].remaining + Cardinality(Unsent(w)) <= upstream[w].remaining
      BY <1>1, <2>1 DEF ClientsIInv, AllowanceCovered
  <2>3. q.windows[w].remaining \in Nat
    <3>1. q \in ConfirmedQuota
        BY <2>1, PriorQuotaType DEF ClientsIInv, IInv, TypeOK, Readable, BudgetState
    <3> QED BY <1>1, <3>1 DEF ConfirmedQuota, WindowState
  <2> HIDE DEF p, q
  <2> QED BY <1>1, <2>1, <2>2, <2>3
<1>4. ReportsCovered'
  <2> SUFFICES ASSUME NEW d \in Client, client'[d].at = "report",
                      budget'.quota.kind = "sync_in_progress",
                      budget'.quota.token = client'[d].token,
                      NEW w \in DataWindow
               PROVE  client'[d].answer[w].remaining - CapturedDebit(budget'.quota.captured, w)
                        + Cardinality(Unsent(w)') <= upstream'[w].remaining
      BY DEF ReportsCovered, DataWindow, ApiUsage
  <2> DEFINE debit == CapturedDebit(budget.quota.captured, w)
             left == client[d].answer[w].remaining
  <2>1. SUFFICES ASSUME client'[d] = client[d] /\ KeepsSync(budget.quota, budget'.quota)
                 PROVE  client'[d].answer[w].remaining - CapturedDebit(budget'.quota.captured, w)
                          + Cardinality(Unsent(w)') <= upstream'[w].remaining
      OBVIOUS
  <2>2. /\ budget.quota.kind = "sync_in_progress"
        /\ budget.quota.token = client[d].token
        /\ budget'.quota.captured = budget.quota.captured
      BY <2>1 DEF KeepsSync
  <2>3. left - debit + Cardinality(Unsent(w)) <= upstream[w].remaining
      BY <1>1, <2>1, <2>2 DEF ClientsIInv, ReportsCovered
  <2>4. left \in Nat
    <3>1. client[d].answer \in [Window -> WindowState]
        BY <2>1, TypesOfClients DEF ClientsIInv, LookupOK
    <3> QED BY <1>1, <3>1 DEF WindowState
  <2>5. debit \in Nat
    <3>1. IsFiniteSet(budget.quota.captured)
        BY <2>2 DEF ClientsIInv, IInv, TypeOK, Readable
    <3>2. IsFiniteSet({r \in budget.quota.captured : AppliesTo(w, r.endpoint)})
        BY <3>1, FS_Subset
    <3> QED BY <3>2, FS_CardinalityType DEF CapturedDebit
  <2> HIDE DEF debit, left
  <2>6. left - debit + Cardinality(Unsent(w)') <= upstream'[w].remaining
      BY <1>1, <2>3, <2>4, <2>5
  <2> QED BY <2>1, <2>2, <2>6 DEF debit, left
<1> QED BY <1>2, <1>3, <1>4

\* The usage report recorded by its owner.
LEMMA RecordQuotaSyncKeepsInvariant ==
    ASSUME IInv, NEW now \in Stamps, NEW token \in Token, NEW windows \in [Window -> WindowState],
           RecordQuotaSync(token, windows, now)
    PROVE  IInv'
<1> DEFINE s == RecoverExpiredLeases(budget, now)
           bound == clock + Ahead + Lease
           t == SyncRecorded(s, token, windows, now)
<1>1. /\ now \in Int
      /\ Readable(s) /\ LeasesUpTo(s, bound) /\ CircuitsSafe(s) /\ SyncOwned(s)
      /\ DeadlineKept(s.quota, lastRetryAt, clock + Ahead)
    BY RecoveredSafe
<1>2. /\ budget' = IF OwnsSync(s, token) THEN t ELSE s
      /\ clock' = clock /\ lastRetryAt' = lastRetryAt
      /\ clock \in Nat /\ lastRetryAt \in Int
    BY DEF RecordQuotaSync, IInv, TypeOK
<1> HIDE DEF s, t, bound
<1>3. CASE OwnsSync(s, token)
  <2>1. Readable(t) /\ DeadlineKept(t.quota, lastRetryAt, clock + Ahead)
      BY <1>1, <1>3, SyncEndsType, SyncEndsDeadline DEF t
  <2>2. PICK quota : t = EndSync(s, token, quota) /\ quota.kind # "sync_in_progress"
      BY DEF t, SyncRecorded, Limited
  <2>3. /\ SyncOwned(t)
        /\ DataOf(t.pendingReservations) = DataOf(s.pendingReservations)
        /\ t.circuits = s.circuits
        /\ t.pendingReservations \subseteq s.pendingReservations
      BY <1>1, <1>3, <2>2, EndReleases
  <2>4. CircuitsSafe(t) /\ LeasesUpTo(t, bound)
      BY <1>1, <2>3, SyncKeepsCircuits DEF LeasesUpTo
  <2> QED BY <1>2, <1>3, <2>1, <2>3, <2>4, InvariantOfBudgetNext DEF TypeOK, bound
<1>4. CASE ~OwnsSync(s, token)
    BY <1>1, <1>2, <1>4, InvariantOfBudgetNext DEF TypeOK, bound
<1> QED BY <1>3, <1>4

\* What a call of the coordinator starts from.
LEMMA ClientsRecovered ==
    ASSUME ClientsIInv
    PROVE  /\ clock \in Stamps /\ clock \in Int
           /\ Readable(Recovered)
           /\ KeepsAllowance(budget.quota, Recovered.quota)
           /\ RemembersPrior(Recovered.quota)
           /\ KeepsSync(budget.quota, Recovered.quota)
           /\ \A d \in Client :
                 client[d].at = "reserved" =>
                    /\ clock < client[d].leaseEnds
                    /\ ReservationOfClient(d) \in Recovered.pendingReservations
<1>1. clock \in Stamps /\ clock \in Int /\ Readable(budget)
    BY TimingAssumption DEF Stamps, ClientsIInv, IInv, TypeOK
<1>2. RemembersPrior(budget.quota)
    BY DEF ClientsIInv, RateLimitKeepsPrior, RemembersPrior
<1>3. /\ KeepsAllowance(budget.quota, Recovered.quota)
      /\ RemembersPrior(Recovered.quota)
      /\ KeepsSync(budget.quota, Recovered.quota)
      /\ Recovered.pendingReservations = {r \in Pending : clock < r.leaseExpiresAt}
    BY <1>2, RecoverKeeps DEF Recovered, Pending
<1>4. \A d \in Client :
        client[d].at = "reserved" =>
            /\ clock < client[d].leaseEnds
            /\ ReservationOfClient(d) \in Recovered.pendingReservations
    BY <1>3 DEF ClientsIInv, ReservedPending, ReservationOfClient
<1> QED BY <1>1, <1>3, <1>4, RecoverType DEF Recovered

\* A call that grants nothing and records no report, by a lookup that holds no
\* reservation still to be used.
LEMMA QuietCall ==
    ASSUME ClientsIInv, NEW c \in Client, NEW k, Becomes(c, k), UNCHANGED <<clock, upstream>>,
           IInv', LookupOK(k), CountsOK(k),
           client[c].at # "reserved", k.at \notin HoldsReservation \cup {"report"},
           KeepsAllowance(Recovered.quota, budget'.quota), RemembersPrior(budget'.quota),
           \/ KeepsSync(Recovered.quota, budget'.quota)
           \/ \A d \in Client : client[d].token # budget'.quota.token,
           \A d \in Client :
               /\ d # c /\ client[d].at = "reserved"
               /\ ReservationOfClient(d) \in Recovered.pendingReservations
               => ReservationOfClient(d) \in budget'.pendingReservations
    PROVE  ClientsIInv'
<1>1. /\ DOMAIN client' = Client
      /\ client'[c] = k
      /\ \A d \in Client : d # c => client'[d] = client[d]
    BY TypesOfClients, OneBecomes DEF ClientsIInv
<1>2. UpstreamOK(upstream') /\ TypeOK'
    BY TypesOfClients DEF ClientsIInv, IInv
<1>3. ClientsTypeOK' /\ RequestsCounted' /\ ReservationsDiffer'
    BY <1>2, OneStepOfClient DEF ClientsIInv
<1>4. ReservedPending'
  <2> SUFFICES ASSUME NEW d \in Client, client'[d].at = "reserved"
               PROVE  /\ clock' < client'[d].leaseEnds
                      /\ ReservationOfClient(d)' \in budget'.pendingReservations
      BY DEF ReservedPending, Pending
  <2>1. d # c /\ client'[d] = client[d]
      BY <1>1 DEF HoldsReservation
  <2>2. ReservationOfClient(d)' = ReservationOfClient(d)
      BY <2>1 DEF ReservationOfClient
  <2> QED BY <2>1, <2>2, ClientsRecovered
<1>5. RateLimitKeepsPrior'
    BY DEF RateLimitKeepsPrior, RemembersPrior
<1>6. \A w \in DataWindow :
        /\ Cardinality(Unsent(w)') \in Nat
        /\ upstream[w].remaining - Cardinality(Unsent(w))
             <= upstream'[w].remaining - Cardinality(Unsent(w)')
  <2> SUFFICES ASSUME NEW w \in DataWindow
               PROVE  /\ Cardinality(Unsent(w)') \in Nat
                      /\ upstream[w].remaining - Cardinality(Unsent(w))
                           <= upstream'[w].remaining - Cardinality(Unsent(w)')
      OBVIOUS
  <2>1. k.at # "reserved"
      BY DEF HoldsReservation
  <2>2. Cardinality(Unsent(w)') = Cardinality(Unsent(w)) /\ Cardinality(Unsent(w)) \in Nat
      BY <2>1, UnsentCounted
  <2>3. upstream[w].remaining \in Nat
      BY <1>2 DEF UpstreamOK, WindowState, DataWindow
  <2> QED BY <2>2, <2>3
<1>7. KeepsAllowance(budget.quota, budget'.quota)
    BY ClientsRecovered, KeepsAllowanceTransitive
<1>8. ASSUME NEW d \in Client, client'[d].at = "report",
             budget'.quota.kind = "sync_in_progress",
             budget'.quota.token = client'[d].token
      PROVE  client'[d] = client[d] /\ KeepsSync(budget.quota, budget'.quota)
  <2>1. client'[d] = client[d]
      BY <1>1, <1>8
  <2>2. KeepsSync(Recovered.quota, budget'.quota)
      BY <1>8, <2>1
  <2> QED BY <2>1, <2>2, ClientsRecovered DEF KeepsSync
<1>9. UnsentCovered' /\ AllowanceCovered' /\ ReportsCovered'
    BY <1>2, <1>6, <1>7, <1>8, RoomSuffices
<1> QED BY <1>3, <1>4, <1>5, <1>9 DEF ClientsIInv

LEMMA SyncUnchanged ==
    ASSUME NEW q
    PROVE  KeepsAllowance(q, q) /\ KeepsSync(q, q)
BY DEF KeepsAllowance, KeepsSync

-----------------------------------------------------------------------------
(* Admission                                                               *)

LEMMA AdmitKeepsClients ==
    ASSUME ClientsIInv, NEW c \in Client, NEW token \in Token, NEW e \in DataEndpoint,
           NEW maySynchronize \in BOOLEAN, NEW k, LookupOK(k), CountsOK(k),
           client[c].at \in {"idle", "readmit"}, k.at \in {"idle", "readmit"}, k.endpoint = e,
           maySynchronize => k.usageRequests = 0,
           Fresh(token), Admit(e, token, clock), UNCHANGED upstream,
           Becomes(c, AfterDecision(k, AdmissionDecision(Recovered, e, token, clock), token,
                                    maySynchronize))
    PROVE  ClientsIInv'
<1> DEFINE decision == AdmissionDecision(Recovered, e, token, clock)
           l == AfterDecision(k, decision, token, maySynchronize)
<1>1. /\ clock \in Stamps /\ clock \in Int
      /\ Readable(Recovered)
      /\ KeepsAllowance(budget.quota, Recovered.quota)
      /\ RemembersPrior(Recovered.quota)
      /\ \A d \in Client :
            client[d].at = "reserved" =>
               /\ clock < client[d].leaseEnds
               /\ ReservationOfClient(d) \in Recovered.pendingReservations
    BY ClientsRecovered
<1>2. /\ budget' = IF decision = "reserved" THEN Reserve(Recovered, e, token, clock) ELSE Recovered
      /\ UNCHANGED <<clock, lastRetryAt>>
    BY DEF Admit, Recovered
<1>3. IInv'
  <2>1. Call(clock)
      BY DEF Call
  <2> QED BY <1>1, <2>1, CallKeepsInvariant DEF ClientsIInv
<1>4. DOMAIN k = DOMAIN Idle /\ client[c].at # "reserved"
    BY DEF LookupOK
<1>5. CASE decision # "reserved"
  <2>1. l \in {Idle, [k EXCEPT !.at = "sync"]}
      BY <1>5 DEF AfterDecision
  <2>2. l # Idle => maySynchronize
      BY <1>5 DEF AfterDecision
  <2>3. LookupOK(l) /\ CountsOK(l) /\ l.at \notin HoldsReservation \cup {"report"}
    <3>1. CASE l = Idle
        BY <3>1, IdleIsOK DEF HoldsReservation
    <3>2. CASE l # Idle
      <4>1. /\ DOMAIN l = DOMAIN Idle /\ l.at = "sync" /\ l.endpoint = k.endpoint
            /\ l.usageRequests = k.usageRequests /\ l.dataRequests = k.dataRequests
          BY <1>4, <2>1, <3>2 DEF Idle
      <4> HIDE DEF l
      <4> QED BY <2>2, <3>2, <4>1 DEF LookupOK, CountsOK, Step, HoldsToken, HoldsReservation
    <3> QED BY <2>1, <3>1, <3>2
  <2> HIDE DEF l
  <2>4. budget' = Recovered
      BY <1>2, <1>5
  <2> QED BY <1>1, <1>2, <1>3, <1>4, <2>3, <2>4, SyncUnchanged, QuietCall DEF l
<1>6. CASE decision = "reserved"
  <2>1. l = [k EXCEPT !.at = "reserved", !.token = token, !.leaseEnds = clock + Lease]
      BY <1>6 DEF AfterDecision
  <2>2. /\ DOMAIN l = DOMAIN Idle /\ l.at = "reserved" /\ l.endpoint = e
        /\ l.token = token /\ l.leaseEnds = clock + Lease
        /\ l.usageRequests = k.usageRequests /\ l.dataRequests = k.dataRequests
      BY <1>4, <2>1 DEF Idle
  <2> HIDE DEF l
  <2>3. LookupOK(l) /\ CountsOK(l)
      BY <1>1, <2>2, BudgetAssumption
      DEF LookupOK, CountsOK, Step, HoldsToken, HoldsReservation
  <2>4. Becomes(c, l)
      BY DEF l
  <2>5. /\ DOMAIN client' = Client
        /\ client'[c] = l
        /\ \A d \in Client : d # c => client'[d] = client[d]
      BY <2>4, TypesOfClients, OneBecomes DEF ClientsIInv
  <2>6. UpstreamOK(upstream') /\ TypeOK'
      BY <1>3, TypesOfClients DEF ClientsIInv, IInv
  <2>7. ClientsTypeOK' /\ RequestsCounted' /\ ReservationsDiffer'
      BY <2>2, <2>3, <2>4, <2>6, OneStepOfClient DEF ClientsIInv, Fresh
  <2> DEFINE t == Reserve(Recovered, e, token, clock)
             p == PriorQuota(t.quota)
             q == PriorQuota(Recovered.quota)
  <2>8. /\ t.quota.kind # "sync_in_progress"
        /\ q # Null /\ p # Null
        /\ \A w \in DataWindow :
              p.windows[w].remaining = IF AppliesTo(w, e) THEN q.windows[w].remaining - 1
                                       ELSE q.windows[w].remaining
        /\ \A w \in DataWindow : q.windows[w].remaining \in Nat /\ p.windows[w].remaining \in Nat
        /\ Recovered.pendingReservations \subseteq t.pendingReservations
        /\ DataLease(e, token, clock) \in t.pendingReservations
      BY <1>1, <1>6, GrantTakes
  <2>9. budget' = t
      BY <1>2, <1>6
  <2>10. PriorQuota(budget.quota) # Null
         /\ \A w \in DataWindow :
               q.windows[w].remaining = PriorQuota(budget.quota).windows[w].remaining
      BY <1>1, <2>8 DEF KeepsAllowance
  <2> HIDE DEF t, p, q
  <2>11. ReservedPending'
    <3> SUFFICES ASSUME NEW d \in Client, client'[d].at = "reserved"
                 PROVE  /\ clock' < client'[d].leaseEnds
                        /\ ReservationOfClient(d)' \in budget'.pendingReservations
        BY DEF ReservedPending, Pending
    <3>1. CASE d = c
      <4>1. ReservationOfClient(d)' = DataLease(e, token, clock)
          BY <2>2, <2>5, <3>1 DEF ReservationOfClient, DataLease
      <4>2. clock' < client'[d].leaseEnds
          BY <1>1, <1>2, <2>2, <2>5, <3>1, BudgetAssumption
      <4> QED BY <2>8, <2>9, <4>1, <4>2
    <3>2. CASE d # c
      <4>1. client'[d] = client[d] /\ ReservationOfClient(d)' = ReservationOfClient(d)
          BY <2>5, <3>2 DEF ReservationOfClient
      <4> QED BY <1>1, <1>2, <2>8, <2>9, <4>1
    <3> QED BY <3>1, <3>2
  <2>12. \A w \in DataWindow :
            /\ Cardinality(Unsent(w)) \in Nat /\ upstream[w].remaining \in Nat
            /\ Cardinality(Unsent(w)') = IF AppliesTo(w, e) THEN Cardinality(Unsent(w)) + 1
                                         ELSE Cardinality(Unsent(w))
            /\ PriorQuota(budget.quota).windows[w].remaining + Cardinality(Unsent(w))
                 <= upstream[w].remaining
    <3> SUFFICES ASSUME NEW w \in DataWindow
                 PROVE  /\ Cardinality(Unsent(w)) \in Nat /\ upstream[w].remaining \in Nat
                        /\ Cardinality(Unsent(w)') = IF AppliesTo(w, e) THEN Cardinality(Unsent(w)) + 1
                                                     ELSE Cardinality(Unsent(w))
                        /\ PriorQuota(budget.quota).windows[w].remaining + Cardinality(Unsent(w))
                             <= upstream[w].remaining
        OBVIOUS
    <3>1. w \in Window \ ApiUsage
        BY DEF DataWindow
    <3>2. upstream[w].remaining \in Nat
        BY <2>6, <3>1 DEF UpstreamOK, WindowState
    <3>3. PriorQuota(budget.quota).windows[w].remaining + Cardinality(Unsent(w)) <= upstream[w].remaining
        BY <2>10, <3>1 DEF ClientsIInv, AllowanceCovered
    <3>4. /\ Cardinality(Unsent(w)) \in Nat
          /\ Cardinality(Unsent(w)') = IF AppliesTo(w, e) THEN Cardinality(Unsent(w)) + 1
                                       ELSE Cardinality(Unsent(w))
        BY <1>4, <2>2, <2>4, UnsentCounted
    <3> QED BY <3>2, <3>3, <3>4
  <2>13. \A w \in DataWindow :
            p.windows[w].remaining + Cardinality(Unsent(w)') <= upstream'[w].remaining
      BY <2>8, <2>10, <2>12
  <2>14. AllowanceCovered'
      BY <2>9, <2>13 DEF AllowanceCovered, DataWindow, ApiUsage, p
  <2>15. UnsentCovered'
    <3>1. \A w \in DataWindow : Cardinality(Unsent(w)') <= upstream'[w].remaining
        BY <2>8, <2>12, <2>13
    <3> QED BY <3>1 DEF UnsentCovered, DataWindow, ApiUsage
  <2>16. RateLimitKeepsPrior' /\ ReportsCovered'
      BY <2>8, <2>9 DEF RateLimitKeepsPrior, ReportsCovered
  <2> QED BY <1>3, <2>7, <2>11, <2>14, <2>15, <2>16 DEF ClientsIInv
<1> QED BY <1>5, <1>6

LEMMA LookupKeepsClients ==
    ASSUME ClientsIInv, NEW c \in Client, NEW token \in Token, NEW e \in DataEndpoint,
           Lookup(c, e, token)
    PROVE  ClientsIInv'
<1> DEFINE k == [Idle EXCEPT !.endpoint = e]
<1>1. /\ DOMAIN k = DOMAIN Idle /\ k.at = "idle" /\ k.endpoint = e
      /\ k.usageRequests = 0 /\ k.dataRequests = 0
    BY DEF Idle
<1>2. Becomes(c, AfterDecision(k, AdmissionDecision(Recovered, e, token, clock), token, TRUE))
    BY DEF Lookup
<1> HIDE DEF k
<1>3. LookupOK(k) /\ CountsOK(k)
    BY <1>1 DEF LookupOK, CountsOK, Step, HoldsToken, HoldsReservation
<1> QED BY <1>1, <1>2, <1>3, AdmitKeepsClients DEF Lookup

LEMMA ReadmitKeepsClients ==
    ASSUME ClientsIInv, NEW c \in Client, NEW token \in Token, Readmit(c, token)
    PROVE  ClientsIInv'
<1>1. LookupOK(client[c]) /\ CountsOK(client[c])
    BY TypesOfClients DEF ClientsIInv
<1>2. client[c].endpoint \in DataEndpoint
    BY <1>1 DEF LookupOK
<1> QED BY <1>1, <1>2, AdmitKeepsClients DEF Readmit

-----------------------------------------------------------------------------
(* Synchronization                                                         *)

LEMMA StartQuotaSyncKeepsClients ==
    ASSUME ClientsIInv, NEW c \in Client, NEW token \in Token, StartQuotaSync(c, token)
    PROVE  ClientsIInv'
<1> DEFINE started == SyncDecision(Recovered, clock) = "started"
           k == IF started THEN [client[c] EXCEPT !.at = "usage", !.token = token] ELSE Idle
<1>1. /\ client[c].at = "sync" /\ Fresh(token)
      /\ BeginQuotaSync(token, clock)
      /\ Becomes(c, k) /\ UNCHANGED upstream
    BY DEF StartQuotaSync
<1>2. /\ clock \in Stamps /\ clock \in Int
      /\ Readable(Recovered) /\ RemembersPrior(Recovered.quota)
    BY ClientsRecovered
<1>3. /\ budget' = IF started THEN StartSync(Recovered, token, clock) ELSE Recovered
      /\ UNCHANGED <<clock, lastRetryAt>>
    BY <1>1 DEF BeginQuotaSync, Recovered
<1>4. IInv'
  <2>1. Call(clock)
      BY <1>1 DEF Call
  <2> QED BY <1>2, <2>1, CallKeepsInvariant DEF ClientsIInv
<1>5. LookupOK(k) /\ CountsOK(k) /\ k.at \notin HoldsReservation \cup {"report"}
  <2>1. LookupOK(client[c]) /\ CountsOK(client[c])
      BY TypesOfClients DEF ClientsIInv
  <2>2. CASE started
    <3>1. /\ DOMAIN k = DOMAIN Idle /\ k.at = "usage" /\ k.token = token
          /\ k.endpoint = client[c].endpoint
          /\ k.usageRequests = client[c].usageRequests /\ k.dataRequests = client[c].dataRequests
        BY <2>1, <2>2 DEF LookupOK, Idle
    <3> HIDE DEF k
    <3> QED BY <1>1, <2>1, <3>1 DEF LookupOK, CountsOK, Step, HoldsToken, HoldsReservation
  <2>3. CASE ~started
      BY <2>3, IdleIsOK DEF HoldsReservation
  <2> QED BY <2>2, <2>3
<1> HIDE DEF k
<1>6. CASE started
  <2> DEFINE t == StartSync(Recovered, token, clock)
  <2>1. /\ KeepsAllowance(Recovered.quota, t.quota)
        /\ RemembersPrior(t.quota)
        /\ t.quota.token = token
        /\ Recovered.pendingReservations \subseteq t.pendingReservations
      BY <1>2, StartKeeps
  <2>2. budget' = t
      BY <1>3, <1>6
  <2> HIDE DEF t
  <2>3. \A d \in Client : client[d].token # budget'.quota.token
      BY <1>1, <2>1, <2>2 DEF Fresh
  <2> QED BY <1>1, <1>3, <1>4, <1>5, <2>1, <2>2, <2>3, QuietCall
<1>7. CASE ~started
    BY <1>1, <1>2, <1>3, <1>4, <1>5, <1>7, SyncUnchanged, QuietCall
<1> QED BY <1>6, <1>7

\* A report that its owner records leaves room for what has not left.
LEMMA ReportUsageKeepsClients ==
    ASSUME ClientsIInv, NEW c \in Client, ReportUsage(c)
    PROVE  ClientsIInv'
<1> DEFINE token == client[c].token
           windows == client[c].answer
           owns == OwnsSync(Recovered, token)
           ready == owns /\ client[c].dataRequests = 0
           k == IF ready THEN [client[c] EXCEPT !.at = "readmit", !.token = Null, !.answer = Null]
                ELSE Idle
           t == SyncRecorded(Recovered, token, windows, clock)
<1>1. /\ client[c].at = "report" /\ RecordQuotaSync(token, windows, clock)
      /\ Becomes(c, k) /\ UNCHANGED upstream
    BY DEF ReportUsage
<1>2. LookupOK(client[c]) /\ CountsOK(client[c])
    BY TypesOfClients DEF ClientsIInv
<1>3. token \in Token /\ windows \in [Window -> WindowState]
    BY <1>1, <1>2 DEF LookupOK, HoldsToken
<1>4. /\ clock \in Stamps /\ clock \in Int
      /\ Readable(Recovered) /\ RemembersPrior(Recovered.quota)
      /\ KeepsSync(budget.quota, Recovered.quota)
      /\ \A d \in Client :
            client[d].at = "reserved" =>
               /\ clock < client[d].leaseEnds
               /\ ReservationOfClient(d) \in Recovered.pendingReservations
    BY ClientsRecovered
<1>5. budget' = (IF owns THEN t ELSE Recovered) /\ UNCHANGED <<clock, lastRetryAt>>
    BY <1>1 DEF RecordQuotaSync, Recovered
<1>6. IInv'
    BY <1>1, <1>3, <1>4, RecordQuotaSyncKeepsInvariant DEF ClientsIInv
<1>7. LookupOK(k) /\ CountsOK(k) /\ k.at \notin HoldsReservation \cup {"report"}
  <2>1. CASE ready
    <3>1. /\ DOMAIN k = DOMAIN Idle /\ k.at = "readmit"
          /\ k.endpoint = client[c].endpoint
          /\ k.usageRequests = client[c].usageRequests /\ k.dataRequests = client[c].dataRequests
        BY <1>2, <2>1 DEF LookupOK, Idle
    <3>2. k.usageRequests <= 1
        BY <1>1, <1>2, <2>1, <3>1 DEF CountsOK
    <3> HIDE DEF k
    <3> QED BY <1>2, <2>1, <3>1, <3>2 DEF LookupOK, CountsOK, Step, HoldsToken, HoldsReservation
  <2>2. CASE ~ready
      BY <2>2, IdleIsOK DEF HoldsReservation
  <2> QED BY <2>1, <2>2
<1> HIDE DEF k
<1>8. CASE ~owns
    BY <1>1, <1>4, <1>5, <1>6, <1>7, <1>8, SyncUnchanged, QuietCall
<1>9. CASE owns
  <2>1. /\ Recovered.quota.kind = "sync_in_progress" /\ Recovered.quota.token = token
        /\ budget.quota.kind = "sync_in_progress" /\ budget.quota.token = token
        /\ budget.quota.captured = Recovered.quota.captured
        /\ IsFiniteSet(Recovered.quota.captured)
      BY <1>4, <1>9 DEF OwnsSync, KeepsSync, Readable
  <2> DEFINE captured == Recovered.quota.captured
             value == [confirmedAt |-> clock, windows |-> ReapplyCapturedDataDebits(windows, captured)]
  <2>2. budget' = t
      BY <1>5, <1>9
  <2>3. PICK quota : /\ t = EndSync(Recovered, token, quota)
                     /\ \/ quota = [kind |-> "confirmed", value |-> value]
                        \/ \E retryAt : quota = Limited(FALSE, value, retryAt)
      BY DEF SyncRecorded
  <2>4. /\ budget'.quota.kind # "sync_in_progress"
        /\ PriorQuota(budget'.quota) = value
    <3>1. budget'.quota = quota
        BY <2>2, <2>3 DEF EndSync
    <3> HIDE DEF value
    <3> QED BY <2>3, <3>1 DEF PriorQuota, Limited
  <2>5. /\ DOMAIN client' = Client
        /\ client'[c] = k
        /\ \A d \in Client : d # c => client'[d] = client[d]
      BY <1>1, TypesOfClients, OneBecomes DEF ClientsIInv
  <2>6. UpstreamOK(upstream') /\ TypeOK'
      BY <1>1, <1>6, TypesOfClients DEF ClientsIInv, IInv
  <2>7. ClientsTypeOK' /\ RequestsCounted' /\ ReservationsDiffer'
      BY <1>1, <1>7, <2>6, OneStepOfClient DEF ClientsIInv
  <2>8. ReservedPending'
    <3> SUFFICES ASSUME NEW d \in Client, client'[d].at = "reserved"
                 PROVE  /\ clock' < client'[d].leaseEnds
                        /\ ReservationOfClient(d)' \in budget'.pendingReservations
        BY DEF ReservedPending, Pending
    <3>1. d # c
        BY <1>7, <2>5 DEF HoldsReservation
    <3>2. client'[d] = client[d] /\ ReservationOfClient(d)' = ReservationOfClient(d)
        BY <2>5, <3>1 DEF ReservationOfClient
    <3>3. /\ ReservationOfClient(d) \in Recovered.pendingReservations
          /\ ReservationOfClient(d).kind = "data"
          /\ clock < client[d].leaseEnds
        BY <1>4, <3>2 DEF ReservationOfClient
    <3>4. ReservationOfClient(d) \in budget'.pendingReservations
        BY <2>2, <2>3, <3>3, EndKeepsData
    <3> QED BY <1>5, <3>2, <3>3, <3>4
  <2>9. \A w \in DataWindow :
            /\ Cardinality(Unsent(w)) \in Nat
            /\ Cardinality(Unsent(w)') = Cardinality(Unsent(w))
      BY <1>1, <1>7, UnsentCounted DEF HoldsReservation
  <2>10. UnsentCovered'
      BY <1>1, <2>9 DEF ClientsIInv, UnsentCovered, DataWindow, ApiUsage
  <2>11. AllowanceCovered'
    <3> SUFFICES ASSUME NEW w \in DataWindow
                 PROVE  value.windows[w].remaining + Cardinality(Unsent(w)') <= upstream'[w].remaining
        BY <2>4 DEF AllowanceCovered, DataWindow, ApiUsage
    <3> DEFINE debit == CapturedDebit(captured, w)
               n == Cardinality(Unsent(w))
               left == windows[w].remaining
               room == upstream[w].remaining
    <3>1. w \in Window /\ w \in Window \ ApiUsage
        BY DEF DataWindow
    <3>2. left \in Nat /\ room \in Nat /\ n \in Nat
        BY <1>1, <1>3, <2>6, <2>9, <3>1 DEF UpstreamOK, WindowState
    <3>3. debit \in Nat
      <4>1. IsFiniteSet({r \in captured : AppliesTo(w, r.endpoint)})
          BY <2>1, FS_Subset
      <4> QED BY <4>1, FS_CardinalityType DEF CapturedDebit
    <3>4. left - debit + n <= room
        BY <1>1, <2>1, <3>1 DEF ClientsIInv, ReportsCovered
    <3>5. n <= room
        BY <3>1 DEF ClientsIInv, UnsentCovered
    <3>6. value.windows[w].remaining = Larger(0, left - debit)
        BY <1>3, <3>1 DEF ReapplyCapturedDataDebits, WindowState
    <3> HIDE DEF value, debit, left
    <3>7. Larger(0, left - debit) + n <= room
        BY <3>2, <3>3, <3>4, <3>5 DEF Larger
    <3> QED BY <1>1, <2>9, <3>6, <3>7
  <2>12. RateLimitKeepsPrior' /\ ReportsCovered'
      BY <2>4 DEF RateLimitKeepsPrior, ReportsCovered
  <2> QED BY <1>6, <2>7, <2>8, <2>10, <2>11, <2>12 DEF ClientsIInv
<1> QED BY <1>8, <1>9

LEMMA ReportUsageLimitedKeepsClients ==
    ASSUME ClientsIInv, NEW c \in Client, ReportUsageLimited(c)
    PROVE  ClientsIInv'
<1> DEFINE token == client[c].token
           delay == client[c].answer
           t == SyncRateLimited(Recovered, token, clock + delay)
<1>1. /\ client[c].at = "usage_limited"
      /\ RecordQuotaSyncRateLimited(token, delay, clock)
      /\ Becomes(c, Idle) /\ UNCHANGED upstream
    BY DEF ReportUsageLimited
<1>2. token \in Token /\ delay \in RetryAfters
    BY <1>1, TypesOfClients DEF ClientsIInv, LookupOK, HoldsToken
<1>3. clock \in Stamps /\ RemembersPrior(Recovered.quota)
    BY ClientsRecovered
<1>4. /\ budget' = IF OwnsSync(Recovered, token) THEN t ELSE Recovered
      /\ clock' = clock
    BY <1>1 DEF RecordQuotaSyncRateLimited, Recovered
<1>5. IInv'
  <2>1. Call(clock)
      BY <1>1, <1>2 DEF Call
  <2> QED BY <1>3, <2>1, CallKeepsInvariant DEF ClientsIInv
<1>6. LookupOK(Idle) /\ CountsOK(Idle) /\ Idle.at \notin HoldsReservation \cup {"report"}
    BY IdleIsOK DEF HoldsReservation
<1>7. CASE OwnsSync(Recovered, token)
  <2>1. KeepsAllowance(Recovered.quota, t.quota) /\ t.quota.kind # "sync_in_progress"
      BY <1>3, <1>7, FailKeeps
  <2>2. RemembersPrior(t.quota) /\ KeepsSync(Recovered.quota, t.quota)
      BY <2>1 DEF RemembersPrior, KeepsSync
  <2>3. \A r \in Recovered.pendingReservations : r.kind = "data" => r \in t.pendingReservations
      BY EndKeepsData DEF SyncRateLimited
  <2>4. \A d \in Client : ReservationOfClient(d).kind = "data"
      BY DEF ReservationOfClient
  <2>5. budget' = t
      BY <1>4, <1>7
  <2> HIDE DEF t
  <2> QED BY <1>1, <1>4, <1>5, <1>6, <2>1, <2>2, <2>3, <2>4, <2>5, QuietCall
<1>8. CASE ~OwnsSync(Recovered, token)
    BY <1>1, <1>3, <1>4, <1>5, <1>6, <1>8, SyncUnchanged, QuietCall
<1> QED BY <1>7, <1>8

LEMMA ReportUsageFailedKeepsClients ==
    ASSUME ClientsIInv, NEW c \in Client, ReportUsageFailed(c)
    PROVE  ClientsIInv'
<1> DEFINE token == client[c].token
           t == SyncFailed(Recovered, token, clock)
<1>1. /\ client[c].at = "usage_failed"
      /\ FailQuotaSync(token, clock)
      /\ Becomes(c, Idle) /\ UNCHANGED upstream
    BY DEF ReportUsageFailed
<1>2. token \in Token
    BY <1>1, TypesOfClients DEF ClientsIInv, LookupOK, HoldsToken
<1>3. clock \in Stamps /\ RemembersPrior(Recovered.quota)
    BY ClientsRecovered
<1>4. /\ budget' = IF OwnsSync(Recovered, token) THEN t ELSE Recovered
      /\ clock' = clock
    BY <1>1 DEF FailQuotaSync, Recovered
<1>5. IInv'
  <2>1. Call(clock)
      BY <1>1, <1>2 DEF Call
  <2> QED BY <1>3, <2>1, CallKeepsInvariant DEF ClientsIInv
<1>6. LookupOK(Idle) /\ CountsOK(Idle) /\ Idle.at \notin HoldsReservation \cup {"report"}
    BY IdleIsOK DEF HoldsReservation
<1>7. CASE OwnsSync(Recovered, token)
  <2>1. KeepsAllowance(Recovered.quota, t.quota) /\ t.quota.kind # "sync_in_progress"
      BY <1>3, <1>7, FailKeeps
  <2>2. RemembersPrior(t.quota) /\ KeepsSync(Recovered.quota, t.quota)
      BY <2>1 DEF RemembersPrior, KeepsSync
  <2>3. \A r \in Recovered.pendingReservations : r.kind = "data" => r \in t.pendingReservations
      BY EndKeepsData DEF SyncFailed
  <2>4. \A d \in Client : ReservationOfClient(d).kind = "data"
      BY DEF ReservationOfClient
  <2>5. budget' = t
      BY <1>4, <1>7
  <2> HIDE DEF t
  <2> QED BY <1>1, <1>4, <1>5, <1>6, <2>1, <2>2, <2>3, <2>4, <2>5, QuietCall
<1>8. CASE ~OwnsSync(Recovered, token)
    BY <1>1, <1>3, <1>4, <1>5, <1>6, <1>8, SyncUnchanged, QuietCall
<1> QED BY <1>7, <1>8

-----------------------------------------------------------------------------
(* Outcomes                                                                *)

\* An outcome takes the reservation of its own request and of no other.
LEMMA OutcomeIsQuiet ==
    ASSUME ClientsIInv, NEW c \in Client, NEW k, LookupOK(k), CountsOK(k),
           k.at \notin HoldsReservation \cup {"report"}, client[c].at \in {"answered", "limited"},
           Becomes(c, k), UNCHANGED <<clock, upstream>>, IInv', NEW retryAt,
           NEW outcome \in {"success", "rate_limited"} \cup FailureOutcome \cup NeutralOutcome,
           \/ budget' = OutcomeRecorded(Recovered, client[c].endpoint, client[c].token,
                                        outcome, retryAt, clock)
           \/ budget' = Recovered
    PROVE  ClientsIInv'
<1> DEFINE t == OutcomeRecorded(Recovered, client[c].endpoint, client[c].token,
                                outcome, retryAt, clock)
<1>1. Readable(Recovered) /\ RemembersPrior(Recovered.quota)
    BY ClientsRecovered
<1>2. client[c].endpoint \in DataEndpoint
    BY TypesOfClients DEF ClientsIInv, LookupOK
<1>3. /\ KeepsAllowance(Recovered.quota, t.quota)
      /\ RemembersPrior(t.quota)
      /\ KeepsSync(Recovered.quota, t.quota)
      /\ \A r \in Recovered.pendingReservations :
            r.token # client[c].token => r \in t.pendingReservations
    BY <1>1, <1>2, OutcomeKeeps
<1> HIDE DEF t
<1>4. \A d \in Client :
        d # c /\ client[d].at = "reserved" => ReservationOfClient(d).token # client[c].token
    BY DEF ClientsIInv, ReservationsDiffer, HoldsReservation, ReservationOfClient
<1>5. client[c].at # "reserved"
    OBVIOUS
<1>6. CASE budget' = t
    BY <1>3, <1>4, <1>5, <1>6, QuietCall
<1>7. CASE budget' = Recovered
    BY <1>1, <1>5, <1>7, SyncUnchanged, QuietCall
<1> QED BY <1>6, <1>7 DEF t

LEMMA RecordAnswerKeepsClients ==
    ASSUME ClientsIInv, NEW c \in Client, RecordAnswer(c)
    PROVE  ClientsIInv'
<1> DEFINE e == client[c].endpoint
           token == client[c].token
           outcome == client[c].answer
<1>1. /\ client[c].at = "answered" /\ RecordOutcome(e, token, outcome, clock)
      /\ Becomes(c, Idle) /\ UNCHANGED upstream
    BY DEF RecordAnswer
<1>2. token \in Token /\ e \in DataEndpoint /\ outcome \in Outcomes
    BY <1>1, TypesOfClients DEF ClientsIInv, LookupOK, HoldsToken, HoldsReservation
<1>3. IInv'
  <2>1. Call(clock)
      BY <1>1, <1>2 DEF Call
  <2> QED BY <2>1, ClientsRecovered, CallKeepsInvariant DEF ClientsIInv
<1>4. /\ clock' = clock
      /\ \/ budget' = OutcomeRecorded(Recovered, e, token, outcome, clock, clock)
         \/ budget' = Recovered
    BY <1>1 DEF RecordOutcome, Recovered
<1>5. outcome \in {"success", "rate_limited"} \cup FailureOutcome \cup NeutralOutcome
    BY <1>2, TimingAssumption
<1>6. LookupOK(Idle) /\ CountsOK(Idle) /\ Idle.at \notin HoldsReservation \cup {"report"}
    BY IdleIsOK DEF HoldsReservation
<1> QED BY <1>1, <1>3, <1>4, <1>5, <1>6, OutcomeIsQuiet

LEMMA RecordLimitedKeepsClients ==
    ASSUME ClientsIInv, NEW c \in Client, RecordLimited(c)
    PROVE  ClientsIInv'
<1> DEFINE e == client[c].endpoint
           token == client[c].token
           delay == client[c].answer
           again == ReservationOf(Recovered, e, token) # {} /\ e = "citation"
           k == IF again THEN [client[c] EXCEPT !.at = "sync", !.token = Null, !.answer = Null]
                ELSE Idle
<1>1. /\ client[c].at = "limited" /\ RecordRateLimit(e, token, delay, clock)
      /\ Becomes(c, k) /\ UNCHANGED upstream
    BY DEF RecordLimited
<1>2. LookupOK(client[c]) /\ CountsOK(client[c])
    BY TypesOfClients DEF ClientsIInv
<1>3. token \in Token /\ e \in DataEndpoint /\ delay \in RetryAfters
    BY <1>1, <1>2 DEF LookupOK, HoldsToken, HoldsReservation
<1>4. IInv'
  <2>1. Call(clock)
      BY <1>1, <1>3 DEF Call
  <2> QED BY <2>1, ClientsRecovered, CallKeepsInvariant DEF ClientsIInv
<1>5. /\ clock' = clock
      /\ \/ budget' = OutcomeRecorded(Recovered, e, token, "rate_limited", clock + delay, clock)
         \/ budget' = Recovered
    BY <1>1 DEF RecordRateLimit, Recovered
<1>6. LookupOK(k) /\ CountsOK(k) /\ k.at \notin HoldsReservation \cup {"report"}
  <2>1. CASE again
    <3>1. /\ DOMAIN k = DOMAIN Idle /\ k.at = "sync" /\ k.endpoint = e
          /\ k.usageRequests = client[c].usageRequests /\ k.dataRequests = client[c].dataRequests
        BY <1>2, <2>1 DEF LookupOK, Idle
    <3>2. k.usageRequests <= k.dataRequests
        BY <1>1, <1>2, <3>1 DEF CountsOK, HoldsReservation
    <3> HIDE DEF k
    <3> QED BY <1>2, <1>3, <3>1, <3>2 DEF LookupOK, CountsOK, Step, HoldsToken, HoldsReservation
  <2>2. CASE ~again
      BY <2>2, IdleIsOK DEF HoldsReservation
  <2> QED BY <2>1, <2>2
<1> HIDE DEF k
<1> QED BY <1>1, <1>4, <1>5, <1>6, OutcomeIsQuiet

-----------------------------------------------------------------------------
(* Requests to CourtListener, and ends                                     *)

\* A step of a lookup that makes no call of the coordinator.
LEMMA StillStep ==
    ASSUME ClientsIInv, NEW c \in Client, NEW k, Becomes(c, k), UNCHANGED vars,
           UpstreamOK(upstream'), LookupOK(k), CountsOK(k), k.at # "reserved",
           k.endpoint = client[c].endpoint \/ k = Idle,
           k.at \in HoldsReservation =>
               client[c].at \in HoldsReservation /\ k.token = client[c].token,
           \A w \in DataWindow :
               upstream[w].remaining - Cardinality(Unsent(w))
                 <= upstream'[w].remaining - Cardinality(Unsent(w)'),
           k.at = "report" /\ budget.quota.kind = "sync_in_progress" /\ budget.quota.token = k.token =>
               \A w \in DataWindow :
                   k.answer[w].remaining - CapturedDebit(budget.quota.captured, w)
                     + Cardinality(Unsent(w)') <= upstream'[w].remaining
    PROVE  ClientsIInv'
<1>1. /\ DOMAIN client' = Client
      /\ client'[c] = k
      /\ \A d \in Client : d # c => client'[d] = client[d]
    BY TypesOfClients, OneBecomes DEF ClientsIInv
<1>2. budget' = budget /\ clock' = clock /\ lastRetryAt' = lastRetryAt
    BY DEF vars
<1>3. IInv'
    BY <1>2 DEF ClientsIInv, IInv, TypeOK, LeasesBounded, OpenDrains, SingleProbe, SyncExclusive,
                RateLimitTracked, Pending, SyncReservations
<1>4. ClientsTypeOK' /\ RequestsCounted' /\ ReservationsDiffer'
    BY <1>3, OneStepOfClient DEF ClientsIInv, IInv
<1>5. ReservedPending'
  <2> SUFFICES ASSUME NEW d \in Client, client'[d].at = "reserved"
               PROVE  /\ clock' < client'[d].leaseEnds
                      /\ ReservationOfClient(d)' \in budget'.pendingReservations
      BY DEF ReservedPending, Pending
  <2>1. client'[d] = client[d] /\ ReservationOfClient(d)' = ReservationOfClient(d)
      BY <1>1 DEF ReservationOfClient
  <2> QED BY <1>2, <2>1 DEF ClientsIInv, ReservedPending, Pending
<1>6. RateLimitKeepsPrior'
    BY <1>2 DEF ClientsIInv, RateLimitKeepsPrior
<1>7. \A w \in DataWindow : Cardinality(Unsent(w)') \in Nat
  <2> SUFFICES ASSUME NEW w \in DataWindow PROVE Cardinality(Unsent(w)') \in Nat
      OBVIOUS
  <2>1. IsFiniteSet(Unsent(w)) /\ Unsent(w)' \subseteq Unsent(w)
      BY <1>1, UnsentIsFinite DEF Unsent
  <2> QED BY <2>1, FS_Subset, FS_CardinalityType
<1>8. KeepsAllowance(budget.quota, budget'.quota) /\ KeepsSync(budget.quota, budget'.quota)
    BY <1>2, SyncUnchanged
<1>9. UnsentCovered' /\ AllowanceCovered' /\ ReportsCovered'
    BY <1>1, <1>2, <1>3, <1>7, <1>8, RoomSuffices DEF IInv
<1> QED BY <1>3, <1>4, <1>5, <1>6, <1>9 DEF ClientsIInv

\* What CourtListener counts for a request it serves.
LEMMA CountedType ==
    ASSUME ClientsIInv, NEW ws \in SUBSET Window, Serves(ws)
    PROVE  /\ UpstreamOK(Counted(ws))
           /\ Counted(ws) \in [Window -> WindowState]
           /\ \A w \in Window :
                 /\ upstream[w].remaining \in Nat
                 /\ Counted(ws)[w].remaining =
                       IF w \in ws THEN upstream[w].remaining - 1 ELSE upstream[w].remaining
<1>1. UpstreamOK(upstream) /\ clock \in Int
    BY TypesOfClients DEF ClientsIInv, IInv, TypeOK
<1> SUFFICES ASSUME NEW w \in Window
             PROVE  /\ Counted(ws)[w] \in WindowState
                    /\ upstream[w].remaining \in Nat
                    /\ Counted(ws)[w].remaining =
                          IF w \in ws THEN upstream[w].remaining - 1 ELSE upstream[w].remaining
                    /\ Counted(ws)[w].remaining <= Limit[w]
    BY DEF UpstreamOK, Counted
<1>2. upstream[w] \in WindowState /\ upstream[w].remaining <= Limit[w] /\ Limit[w] \in Nat
    BY <1>1, BudgetAssumption DEF UpstreamOK
<1>3. CASE w \in ws
  <2>1. upstream[w].remaining > 0
      BY <1>3 DEF Serves
  <2> QED BY <1>1, <1>2, <1>3, <2>1, ClientAssumption DEF Counted, WindowState
<1>4. CASE w \notin ws
    BY <1>2, <1>4 DEF Counted, WindowState
<1> QED BY <1>3, <1>4

LEMMA DieKeepsClients ==
    ASSUME ClientsIInv, NEW c \in Client, Becomes(c, Idle), UNCHANGED <<vars, upstream>>
    PROVE  ClientsIInv'
<1>1. UpstreamOK(upstream) /\ UpstreamOK(upstream')
    BY TypesOfClients DEF ClientsIInv
<1>2. \A w \in DataWindow :
        upstream[w].remaining - Cardinality(Unsent(w))
          <= upstream'[w].remaining - Cardinality(Unsent(w)')
  <2> SUFFICES ASSUME NEW w \in DataWindow
               PROVE  upstream[w].remaining - Cardinality(Unsent(w))
                        <= upstream'[w].remaining - Cardinality(Unsent(w)')
      OBVIOUS
  <2>1. Unsent(w)' \subseteq Unsent(w)
      BY IdleIsOK, TypesOfClients, OneBecomes DEF Unsent, ClientsIInv
  <2>2. /\ IsFiniteSet(Unsent(w)) /\ Cardinality(Unsent(w)) \in Nat
        /\ Cardinality(Unsent(w)') <= Cardinality(Unsent(w))
        /\ Cardinality(Unsent(w)') \in Nat
      BY <2>1, UnsentIsFinite, FS_Subset, FS_CardinalityType
  <2>3. upstream[w].remaining \in Nat
      BY <1>1 DEF UpstreamOK, WindowState, DataWindow
  <2> QED BY <2>2, <2>3
<1> QED BY <1>1, <1>2, IdleIsOK, StillStep DEF HoldsReservation

\* A usage request touches no data window, and what its report says of them is
\* what CourtListener has: the captured requests cover those not yet sent.
LEMMA AskUsageKeepsClients ==
    ASSUME ClientsIInv, NEW c \in Client, AskUsage(c)
    PROVE  ClientsIInv'
<1> DEFINE k0 == [client[c] EXCEPT !.usageRequests = @ + 1]
           served == Counted(ApiUsage)
<1>1. client[c].at = "usage" /\ UNCHANGED vars
    BY DEF AskUsage
<1>2. PICK k :
        /\ Becomes(c, k)
        /\ \/ /\ Serves(ApiUsage) /\ upstream' = served
              /\ k = [k0 EXCEPT !.at = "report", !.answer = served]
           \/ /\ \E delay \in RetryAfters : k = [k0 EXCEPT !.at = "usage_limited", !.answer = delay]
              /\ UNCHANGED upstream
           \/ /\ k = [k0 EXCEPT !.at = "usage_failed"]
              /\ UNCHANGED upstream \/ (Serves(ApiUsage) /\ upstream' = served)
    BY DEF AskUsage
<1>3. LookupOK(client[c]) /\ CountsOK(client[c]) /\ UpstreamOK(upstream)
    BY TypesOfClients DEF ClientsIInv
<1>4. DOMAIN client[c] = DOMAIN Idle
    BY <1>3 DEF LookupOK
<1>5. /\ DOMAIN k = DOMAIN Idle
      /\ k.at \in {"report", "usage_limited", "usage_failed"}
      /\ k.at = "usage_limited" => k.answer \in RetryAfters
      /\ k.at = "report" => k.answer = served /\ upstream' = served /\ Serves(ApiUsage)
      /\ k.endpoint = client[c].endpoint /\ k.token = client[c].token
      /\ k.usageRequests = client[c].usageRequests + 1
      /\ k.dataRequests = client[c].dataRequests
    BY <1>2, <1>4 DEF Idle
<1>6. ApiUsage \in SUBSET Window
    BY DEF ApiUsage
<1>7. UNCHANGED upstream \/ (Serves(ApiUsage) /\ upstream' = served)
    BY <1>2
<1>8. Serves(ApiUsage) =>
        /\ UpstreamOK(served) /\ served \in [Window -> WindowState]
        /\ \A w \in DataWindow : served[w].remaining = upstream[w].remaining
    BY <1>6, CountedType DEF DataWindow
<1> HIDE DEF k0, served
<1>9. UpstreamOK(upstream') /\ \A w \in DataWindow : upstream'[w].remaining = upstream[w].remaining
    BY <1>3, <1>7, <1>8
<1>10. LookupOK(k)
    BY <1>1, <1>3, <1>5, <1>8 DEF LookupOK, Step, HoldsToken, HoldsReservation
<1>11. CountsOK(k)
    BY <1>1, <1>3, <1>5 DEF CountsOK, HoldsReservation
<1>12. \A w \in DataWindow :
        /\ upstream[w].remaining \in Nat
        /\ Cardinality(Unsent(w)) \in Nat
        /\ Cardinality(Unsent(w)') = Cardinality(Unsent(w))
  <2> SUFFICES ASSUME NEW w \in DataWindow
               PROVE  /\ upstream[w].remaining \in Nat
                      /\ Cardinality(Unsent(w)) \in Nat
                      /\ Cardinality(Unsent(w)') = Cardinality(Unsent(w))
      OBVIOUS
  <2>1. upstream[w].remaining \in Nat
      BY <1>3 DEF UpstreamOK, WindowState, DataWindow
  <2>2. client[c].at # "reserved" /\ k.at # "reserved"
      BY <1>1, <1>5
  <2>3. Cardinality(Unsent(w)) \in Nat /\ Cardinality(Unsent(w)') = Cardinality(Unsent(w))
      BY <1>2, <2>2, UnsentCounted
  <2> QED BY <2>1, <2>3
<1>13. \A w \in DataWindow :
        upstream[w].remaining - Cardinality(Unsent(w))
          <= upstream'[w].remaining - Cardinality(Unsent(w)')
    BY <1>9, <1>12
<1>14. ASSUME k.at = "report", budget.quota.kind = "sync_in_progress", NEW w \in DataWindow
       PROVE  k.answer[w].remaining - CapturedDebit(budget.quota.captured, w)
                + Cardinality(Unsent(w)') <= upstream'[w].remaining
  <2>1. IsFiniteSet(budget.quota.captured) /\ DataOf(Pending) \subseteq budget.quota.captured
      BY <1>14 DEF ClientsIInv, IInv, TypeOK, Readable, SyncExclusive
  <2>2. Cardinality(Unsent(w)) <= CapturedDebit(budget.quota.captured, w)
      BY <2>1, UnsentAreReserved DEF ClientsIInv
  <2>3. CapturedDebit(budget.quota.captured, w) \in Nat
    <3>1. IsFiniteSet({r \in budget.quota.captured : AppliesTo(w, r.endpoint)})
        BY <2>1, FS_Subset
    <3> QED BY <3>1, FS_CardinalityType DEF CapturedDebit
  <2>4. k.answer[w].remaining = upstream'[w].remaining
      BY <1>5, <1>14
  <2>5. /\ upstream'[w].remaining = upstream[w].remaining /\ upstream[w].remaining \in Nat
        /\ Cardinality(Unsent(w)) \in Nat
        /\ Cardinality(Unsent(w)') = Cardinality(Unsent(w))
      BY <1>9, <1>12
  <2> QED BY <2>2, <2>3, <2>4, <2>5
<1>15. k.at # "reserved" /\ k.at \notin HoldsReservation
    BY <1>5 DEF HoldsReservation
<1> QED BY <1>1, <1>2, <1>5, <1>9, <1>10, <1>11, <1>13, <1>14, <1>15, StillStep

\* A request that CourtListener counts is one that has now left.
LEMMA SendRequestKeepsClients ==
    ASSUME ClientsIInv, NEW c \in Client, SendRequest(c)
    PROVE  ClientsIInv'
<1> DEFINE e == client[c].endpoint
           served == Counted(WindowsFor(e))
<1>1. client[c].at = "reserved" /\ UNCHANGED vars
    BY DEF SendRequest
<1>2. PICK k :
        /\ Becomes(c, k)
        /\ \/ \E outcome \in Outcomes :
                 k = [client[c] EXCEPT !.at = "answered", !.answer = outcome, !.dataRequests = @ + 1]
           \/ \E delay \in RetryAfters :
                 k = [client[c] EXCEPT !.at = "limited", !.answer = delay, !.dataRequests = @ + 1]
        /\ UNCHANGED upstream \/ (Serves(WindowsFor(e)) /\ upstream' = served)
    BY DEF SendRequest
<1>3. LookupOK(client[c]) /\ CountsOK(client[c]) /\ UpstreamOK(upstream)
    BY TypesOfClients DEF ClientsIInv
<1>4. DOMAIN client[c] = DOMAIN Idle /\ e \in DataEndpoint
    BY <1>3 DEF LookupOK
<1>5. /\ DOMAIN k = DOMAIN Idle
      /\ k.at \in {"answered", "limited"}
      /\ k.at = "limited" => k.answer \in RetryAfters
      /\ k.at = "answered" => k.answer \in Outcomes
      /\ k.endpoint = e /\ k.token = client[c].token /\ k.leaseEnds = client[c].leaseEnds
      /\ k.usageRequests = client[c].usageRequests
      /\ k.dataRequests = client[c].dataRequests + 1
    BY <1>2, <1>4 DEF Idle
<1>6. WindowsFor(e) \in SUBSET Window
    BY DEF WindowsFor
<1>7. Serves(WindowsFor(e)) =>
        /\ UpstreamOK(served)
        /\ \A w \in DataWindow :
              served[w].remaining = IF AppliesTo(w, e) THEN upstream[w].remaining - 1
                                    ELSE upstream[w].remaining
    BY <1>4, <1>6, CountedType, DataWindows
<1> HIDE DEF served
<1>8. UpstreamOK(upstream')
    BY <1>2, <1>3, <1>7
<1>9. LookupOK(k)
    BY <1>1, <1>3, <1>4, <1>5 DEF LookupOK, Step, HoldsToken, HoldsReservation
<1>10. CountsOK(k)
    BY <1>1, <1>3, <1>5 DEF CountsOK, HoldsReservation
<1>11. \A w \in DataWindow :
        upstream[w].remaining - Cardinality(Unsent(w))
          <= upstream'[w].remaining - Cardinality(Unsent(w)')
  <2> SUFFICES ASSUME NEW w \in DataWindow
               PROVE  upstream[w].remaining - Cardinality(Unsent(w))
                        <= upstream'[w].remaining - Cardinality(Unsent(w)')
      OBVIOUS
  <2>1. upstream[w].remaining \in Nat
      BY <1>3 DEF UpstreamOK, WindowState, DataWindow
  <2>2. /\ Cardinality(Unsent(w)) \in Nat
        /\ Cardinality(Unsent(w)') = IF AppliesTo(w, e) THEN Cardinality(Unsent(w)) - 1
                                     ELSE Cardinality(Unsent(w))
      BY <1>1, <1>2, <1>5, UnsentCounted
  <2>3. \/ upstream'[w].remaining = upstream[w].remaining
        \/ upstream'[w].remaining = IF AppliesTo(w, e) THEN upstream[w].remaining - 1
                                    ELSE upstream[w].remaining
      BY <1>2, <1>7
  <2> QED BY <2>1, <2>2, <2>3
<1>12. k.at \notin {"reserved", "report"} /\ client[c].at \in HoldsReservation
    BY <1>1, <1>5 DEF HoldsReservation
<1> QED BY <1>1, <1>2, <1>5, <1>8, <1>9, <1>10, <1>11, <1>12, StillStep

\* A window that is full again has at least what it had.
LEMMA PassTimeKeepsClients ==
    ASSUME ClientsIInv, PassTime
    PROVE  ClientsIInv'
<1>1. /\ Tick /\ client' = client /\ upstream' = Renewed(clock + 1)
      /\ \A c \in Client : client[c].at = "reserved" => clock + 1 < client[c].leaseEnds
      /\ budget' = budget /\ clock' = clock + 1
    BY DEF PassTime, Tick
<1>2. IInv'
    BY <1>1, TickKeepsInvariant DEF ClientsIInv
<1>3. UpstreamOK(upstream)
    BY TypesOfClients DEF ClientsIInv
<1>4. /\ UpstreamOK(upstream')
      /\ \A w \in Window :
            /\ upstream[w].remaining \in Nat /\ upstream'[w].remaining \in Nat
            /\ upstream[w].remaining <= upstream'[w].remaining
  <2> SUFFICES ASSUME NEW w \in Window
               PROVE  /\ upstream'[w] \in WindowState
                      /\ upstream[w].remaining \in Nat /\ upstream'[w].remaining \in Nat
                      /\ upstream[w].remaining <= upstream'[w].remaining
                      /\ upstream'[w].remaining <= Limit[w]
      BY <1>1 DEF UpstreamOK, Renewed
  <2>1. upstream[w] \in WindowState /\ upstream[w].remaining <= Limit[w] /\ Limit[w] \in Nat
      BY <1>3, BudgetAssumption DEF UpstreamOK
  <2>2. \/ upstream'[w] = upstream[w]
        \/ upstream'[w] = [remaining |-> Limit[w], resetAt |-> Null]
      BY <1>1 DEF Renewed
  <2> QED BY <2>1, <2>2 DEF WindowState
<1>5. ClientsTypeOK' /\ RequestsCounted' /\ ReservationsDiffer'
    BY <1>1, <1>2, <1>4, TypesOfClients DEF ClientsIInv, IInv, ReservationsDiffer
<1>6. ReservedPending'
  <2> SUFFICES ASSUME NEW d \in Client, client[d].at = "reserved"
               PROVE  /\ clock' < client[d].leaseEnds
                      /\ ReservationOfClient(d)' \in budget'.pendingReservations
      BY <1>1 DEF ReservedPending, Pending
  <2>1. ReservationOfClient(d)' = ReservationOfClient(d)
      BY <1>1 DEF ReservationOfClient
  <2> QED BY <1>1, <2>1 DEF ClientsIInv, ReservedPending, Pending
<1>7. RateLimitKeepsPrior'
    BY <1>1 DEF ClientsIInv, RateLimitKeepsPrior
<1>8. \A w \in DataWindow :
        /\ Cardinality(Unsent(w)') \in Nat
        /\ upstream[w].remaining - Cardinality(Unsent(w))
             <= upstream'[w].remaining - Cardinality(Unsent(w)')
  <2> SUFFICES ASSUME NEW w \in DataWindow
               PROVE  /\ Cardinality(Unsent(w)') \in Nat
                      /\ upstream[w].remaining - Cardinality(Unsent(w))
                           <= upstream'[w].remaining - Cardinality(Unsent(w)')
      OBVIOUS
  <2>1. Unsent(w)' = Unsent(w)
      BY <1>1 DEF Unsent
  <2>2. Cardinality(Unsent(w)) \in Nat
      BY UnsentIsFinite
  <2>3. w \in Window
      BY DEF DataWindow
  <2> QED BY <1>4, <2>1, <2>2, <2>3
<1>9. KeepsAllowance(budget.quota, budget'.quota) /\ KeepsSync(budget.quota, budget'.quota)
    BY <1>1, SyncUnchanged
<1>10. UnsentCovered' /\ AllowanceCovered' /\ ReportsCovered'
    BY <1>1, <1>2, <1>4, <1>8, <1>9, RoomSuffices DEF IInv
<1> QED BY <1>2, <1>5, <1>6, <1>7, <1>10 DEF ClientsIInv

-----------------------------------------------------------------------------
(* The theorems                                                            *)

LEMMA ClientsInitInvariant == ClientsInit => ClientsIInv
<1> SUFFICES ASSUME ClientsInit PROVE ClientsIInv
    OBVIOUS
<1>1. /\ Init /\ client = [c \in Client |-> Idle]
      /\ upstream = [w \in Window |-> [remaining |-> Limit[w], resetAt |-> Null]]
    BY DEF ClientsInit
<1>2. IInv /\ budget.quota.kind = "unknown"
    BY <1>1, InitInvariant DEF Init, InitialBudget
<1>3. UpstreamOK(upstream) /\ \A w \in Window : upstream[w].remaining \in Nat
    BY <1>1, BudgetAssumption DEF UpstreamOK, WindowState
<1>4. \A c \in Client : client[c] = Idle
    BY <1>1
<1>5. \A c \in Client : client[c].at = "idle"
    BY <1>4, IdleIsOK
<1>6. ClientsTypeOK /\ RequestsCounted
    BY <1>1, <1>2, <1>3, IdleIsOK, TypesOfClients DEF IInv
<1>7. ReservationsDiffer /\ ReservedPending
    BY <1>5 DEF ReservationsDiffer, ReservedPending, HoldsReservation
<1>8. UnsentCovered
  <2>1. \A w \in Window : Unsent(w) = {}
      BY <1>5 DEF Unsent
  <2>2. \A w \in Window : Cardinality(Unsent(w)) = 0
      BY <2>1, FS_EmptySet
  <2> QED BY <1>3, <2>2 DEF UnsentCovered
<1>9. RateLimitKeepsPrior /\ ReportsCovered /\ AllowanceCovered
    BY <1>2 DEF RateLimitKeepsPrior, ReportsCovered, AllowanceCovered, PriorQuota
<1> QED BY <1>2, <1>6, <1>7, <1>8, <1>9 DEF ClientsIInv

LEMMA ClientsStepKeepsInvariant == ClientsIInv /\ [ClientsNext]_clientVars => ClientsIInv'
<1> SUFFICES ASSUME ClientsIInv, [ClientsNext]_clientVars PROVE ClientsIInv'
    OBVIOUS
<1>1. CASE PassTime
    BY <1>1, PassTimeKeepsClients
<1>2. ASSUME NEW c \in Client,
             \/ AskUsage(c) \/ ReportUsage(c) \/ ReportUsageLimited(c) \/ ReportUsageFailed(c)
             \/ SendRequest(c) \/ RecordAnswer(c) \/ RecordLimited(c) \/ Die(c)
      PROVE  ClientsIInv'
    BY <1>2, AskUsageKeepsClients, ReportUsageKeepsClients, ReportUsageLimitedKeepsClients,
       ReportUsageFailedKeepsClients, SendRequestKeepsClients, RecordAnswerKeepsClients,
       RecordLimitedKeepsClients, DieKeepsClients DEF Die
<1>3. ASSUME NEW c \in Client, NEW token \in Token,
             \/ Readmit(c, token) \/ StartQuotaSync(c, token)
             \/ \E e \in DataEndpoint : Lookup(c, e, token)
      PROVE  ClientsIInv'
    BY <1>3, ReadmitKeepsClients, StartQuotaSyncKeepsClients, LookupKeepsClients
<1>4. CASE UNCHANGED clientVars
  <2>1. budget' = budget /\ clock' = clock /\ lastRetryAt' = lastRetryAt
        /\ client' = client /\ upstream' = upstream
      BY <1>4 DEF clientVars, vars
  <2>2. IInv'
      BY <2>1 DEF ClientsIInv, IInv, TypeOK, LeasesBounded, OpenDrains, SingleProbe, SyncExclusive,
                  RateLimitTracked, Pending, SyncReservations
  <2>3. ClientsTypeOK' /\ RequestsCounted' /\ ReservationsDiffer' /\ ReservedPending'
      BY <2>1, <2>2, TypesOfClients
      DEF ClientsIInv, IInv, ReservationsDiffer, ReservedPending, ReservationOfClient, Pending
  <2>4. \A w : Unsent(w)' = Unsent(w)
      BY <2>1 DEF Unsent
  <2>5. UnsentCovered' /\ AllowanceCovered' /\ ReportsCovered' /\ RateLimitKeepsPrior'
      BY <2>1, <2>4 DEF ClientsIInv, UnsentCovered, AllowanceCovered, ReportsCovered,
                        RateLimitKeepsPrior
  <2> QED BY <2>2, <2>3, <2>5 DEF ClientsIInv
<1> QED BY <1>1, <1>2, <1>3, <1>4 DEF ClientsNext

\* The invariant of the lookups and the coordinator together, with the
\* coordinator's own invariant kept by calls whose reports come from
\* CourtListener and not from a given set.
THEOREM ClientsInvariant == ClientsSpec => []ClientsIInv
BY ClientsInitInvariant, ClientsStepKeepsInvariant, PTL DEF ClientsSpec

\* What the coordinator believes is left, with what it has granted and
\* CourtListener has not counted yet, is there: no order of grants, reports,
\* failures, deaths and resets makes it overdraw a window.
THEOREM AllowanceIsCovered == ClientsSpec => []AllowanceCovered
<1>1. ClientsIInv => AllowanceCovered
    BY DEF ClientsIInv
<1> QED BY <1>1, ClientsInvariant, PTL

\* A lookup sends one data request and asks for usage twice at most.
THEOREM NoStorms == ClientsSpec => []NoRequestStorm
<1>1. ClientsIInv => NoRequestStorm
    BY DEF ClientsIInv, RequestsCounted, NoRequestStorm
<1> QED BY <1>1, ClientsInvariant, PTL

\* However the lookups interleave, one of them at a time asks for usage, and
\* the row stays readable.
THEOREM LookupsSynchronizeAlone == ClientsSpec => [](SyncExclusive /\ TypeOK)
<1>1. ClientsIInv => SyncExclusive /\ TypeOK
    BY DEF ClientsIInv, IInv
<1> QED BY <1>1, ClientsInvariant, PTL

-----------------------------------------------------------------------------
(* The coordinator under the lookups                                       *)

\* A report of the coordinator's environment that says what CourtListener said.
LEMMA AnyReport ==
    ASSUME NEW windows \in [Window -> WindowState], clock \in Int
    PROVE  \E report \in UsageReport : ReportedWindows(report) = windows
<1> DEFINE report ==
        [w \in Window |->
            [remaining |-> windows[w].remaining,
             resetIn |-> IF windows[w].resetAt = Null THEN Null ELSE windows[w].resetAt - clock]]
<1>1. \A w \in Window :
        /\ windows[w] = [remaining |-> windows[w].remaining, resetAt |-> windows[w].resetAt]
        /\ windows[w].remaining \in Nat
        /\ windows[w].resetAt \in Int \cup {Null}
    BY DEF WindowState
<1>2. Null \notin Int
    BY BudgetAssumption
<1>3. report \in UsageReport
    BY <1>1 DEF UsageReport
<1>4. ASSUME NEW w \in Window
      PROVE  ReportedWindows(report)[w] = windows[w]
  <2>1. ReportedWindows(report)[w] =
            [remaining |-> windows[w].remaining,
             resetAt |-> IF report[w].resetIn = Null THEN Null ELSE clock + report[w].resetIn]
      BY DEF ReportedWindows
  <2>2. (IF report[w].resetIn = Null THEN Null ELSE clock + report[w].resetIn) = windows[w].resetAt
    <3>1. CASE windows[w].resetAt = Null
        BY <3>1
    <3>2. CASE windows[w].resetAt # Null
      <4>1. windows[w].resetAt \in Int /\ windows[w].resetAt - clock \in Int
          BY <1>1, <3>2
      <4>2. report[w].resetIn = windows[w].resetAt - clock /\ report[w].resetIn # Null
          BY <1>2, <3>2, <4>1
      <4> QED BY <4>1, <4>2
    <3> QED BY <3>1, <3>2
  <2> QED BY <1>1, <2>1, <2>2
<1>5. ReportedWindows(report) = windows
    BY <1>4 DEF ReportedWindows
<1> QED BY <1>3, <1>5

\* A step of the lookups is a call of the coordinator, time, or neither.
LEMMA ClientsStepIsCall ==
    ASSUME UsageReports = UsageReport, ClientsIInv, [ClientsNext]_clientVars
    PROVE  [Next]_vars
<1>1. clock \in Stamps /\ clock \in Int
    BY ClientsRecovered
<1>2. SUFFICES ASSUME ClientsNext PROVE [Next]_vars
    BY DEF clientVars, vars
<1>3. CASE PassTime
    BY <1>3 DEF PassTime, Next
<1>4. SUFFICES ASSUME ~PassTime PROVE Call(clock) \/ UNCHANGED vars
    BY <1>1, <1>3 DEF Next
<1>5. ASSUME NEW c \in Client, AskUsage(c) \/ SendRequest(c) \/ Die(c)
      PROVE  UNCHANGED vars
    BY <1>5 DEF AskUsage, SendRequest, Die
<1>6. \A c \in Client : LookupOK(client[c])
    BY TypesOfClients DEF ClientsIInv
<1>7. ASSUME NEW c \in Client, ReportUsage(c)
      PROVE  Call(clock)
  <2>1. /\ client[c].at = "report"
        /\ RecordQuotaSync(client[c].token, client[c].answer, clock)
      BY <1>7 DEF ReportUsage
  <2>2. client[c].token \in Token /\ client[c].answer \in [Window -> WindowState]
      BY <1>6, <2>1 DEF LookupOK, HoldsToken
  <2>3. PICK report \in UsageReports : ReportedWindows(report) = client[c].answer
      BY <1>1, <2>2, AnyReport
  <2> QED BY <2>1, <2>2, <2>3 DEF Call
<1>8. ASSUME NEW c \in Client, ReportUsageLimited(c)
      PROVE  Call(clock)
    BY <1>6, <1>8 DEF ReportUsageLimited, LookupOK, HoldsToken, Call
<1>9. ASSUME NEW c \in Client, ReportUsageFailed(c)
      PROVE  Call(clock)
    BY <1>6, <1>9 DEF ReportUsageFailed, LookupOK, HoldsToken, Call
<1>10. ASSUME NEW c \in Client, RecordAnswer(c)
       PROVE  Call(clock)
    BY <1>6, <1>10 DEF RecordAnswer, LookupOK, HoldsToken, HoldsReservation, Call
<1>11. ASSUME NEW c \in Client, RecordLimited(c)
       PROVE  Call(clock)
    BY <1>6, <1>11 DEF RecordLimited, LookupOK, HoldsToken, HoldsReservation, Call
<1>12. ASSUME NEW c \in Client, NEW token \in Token,
              \/ Readmit(c, token) \/ StartQuotaSync(c, token)
              \/ \E e \in DataEndpoint : Lookup(c, e, token)
       PROVE  Call(clock)
  <2>1. client[c].endpoint \in DataEndpoint
      BY <1>6 DEF LookupOK
  <2> QED BY <1>12, <2>1 DEF Readmit, StartQuotaSync, Lookup, Call
<1> QED BY <1>2, <1>4, <1>5, <1>7, <1>8, <1>9, <1>10, <1>11, <1>12 DEF ClientsNext

\* The lookups use the coordinator as its own specification lets any worker use
\* it, when that lets CourtListener report anything: what holds of the
\* coordinator alone holds of it under the lookups.
THEOREM LookupsImplementCoordinator ==
    ASSUME UsageReports = UsageReport
    PROVE  ClientsSpec => Spec
<1>1. ClientsInit => Init
    BY DEF ClientsInit
<1>2. ClientsIInv /\ [ClientsNext]_clientVars => [Next]_vars
    BY ClientsStepIsCall
<1> QED BY <1>1, <1>2, ClientsInvariant, PTL DEF ClientsSpec, Spec
=============================================================================
