------------------- MODULE CourtListenerCoordinatorProofs -------------------
(***************************************************************************)
(* The coordinator's invariants for every number of tokens and windows,    *)
(* every duration that satisfies TimingAssumption, and every usage report. *)
(*                                                                         *)
(* The functions of CourtListenerBudget come first: what lease recovery,   *)
(* admission, synchronization and outcomes do to a well-typed budget.      *)
(* Each invariant is then proved over the actions with these lemmas.       *)
(***************************************************************************)
EXTENDS CourtListenerCoordinator, FiniteSetTheorems, TLAPS

USE DEF DataEndpoint

-----------------------------------------------------------------------------
(* Circuits                                                                *)

\* One failure leaves a circuit well typed: a third failure opens it, a
\* failed probe doubles the open period up to MaxOpen.
LEMMA FailedCircuitType ==
    ASSUME NEW c \in CircuitState, NEW now \in Int
    PROVE  FailedCircuit(c, now) \in CircuitState
<1> USE BudgetAssumption
    DEF FailedCircuit, OpenCircuit, Smaller, CircuitState, ClosedState, OpenState, HalfOpenState
<1>1. CASE c \in ClosedState
    BY <1>1
<1>2. CASE c \in OpenState
    BY <1>2
<1>3. CASE c \in HalfOpenState
    BY <1>3
<1> QED BY <1>1, <1>2, <1>3

\* FailedTimes is the reduce of recoverExpiredLeases: no failure changes
\* nothing, and one failure more is FailedCircuit once more.
THEOREM FailedTimesIsReduce ==
    ASSUME NEW c \in CircuitState, NEW now \in Int, NEW n \in Nat
    PROVE  /\ FailedTimes(c, 0, now) = c
           /\ FailedTimes(c, n + 1, now) = FailedCircuit(FailedTimes(c, n, now), now)
<1>1. FailedTimes(c, 0, now) = c
    BY DEF FailedTimes
<1>2. CASE c.kind # "closed"
  <2>1. FailedTimes(c, n + 1, now) = FailedCircuit(c, now)
    <3>1. n + 1 # 0
        OBVIOUS
    <3> QED BY <1>2, <3>1 DEF FailedTimes
  <2>2. CASE n = 0
      BY <2>1, <2>2, <1>1
  <2>3. CASE n # 0
    <3>1. FailedTimes(c, n, now) = FailedCircuit(c, now)
        BY <1>2, <2>3 DEF FailedTimes
    <3>2. FailedCircuit(c, now).kind = "open"
        BY <1>2 DEF FailedCircuit, OpenCircuit, CircuitState, ClosedState, OpenState, HalfOpenState
    <3>3. FailedCircuit(FailedCircuit(c, now), now) = FailedCircuit(c, now)
        BY <3>2 DEF FailedCircuit
    <3> QED BY <1>1, <2>1, <3>1, <3>3
  <2> QED BY <2>2, <2>3
<1>3. CASE c.kind = "closed"
  <2>1. PICK k \in 0 .. 2 : c = [kind |-> "closed", consecutiveFailures |-> k]
      BY <1>3 DEF CircuitState, ClosedState, OpenState, HalfOpenState
  <2> DEFINE Closed(i) == [kind |-> "closed", consecutiveFailures |-> i]
  <2>2. \A m \in Nat : k + m < 3 => FailedTimes(c, m, now) = Closed(k + m)
      BY <2>1 DEF FailedTimes
  <2>3. \A m \in Nat : k + m >= 3 => FailedTimes(c, m, now) = OpenCircuit(FirstOpen, now)
      BY <2>1 DEF FailedTimes
  <2>4. CASE k + n < 2
    <3>1. FailedCircuit(Closed(k + n), now) = Closed(k + n + 1)
        BY <2>4 DEF FailedCircuit
    <3> QED BY <1>1, <2>2, <2>4, <3>1
  <2>5. CASE k + n = 2
    <3>1. FailedCircuit(Closed(2), now) = OpenCircuit(FirstOpen, now)
        BY DEF FailedCircuit
    <3>2. FailedTimes(c, n, now) = Closed(2)
        BY <2>2, <2>5
    <3>3. FailedTimes(c, n + 1, now) = OpenCircuit(FirstOpen, now)
        BY <2>3, <2>5
    <3> QED BY <1>1, <3>1, <3>2, <3>3
  <2>6. CASE k + n >= 3
    <3>1. FailedCircuit(OpenCircuit(FirstOpen, now), now) = OpenCircuit(FirstOpen, now)
        BY DEF FailedCircuit, OpenCircuit
    <3>2. FailedTimes(c, n, now) = OpenCircuit(FirstOpen, now)
        BY <2>3, <2>6
    <3>3. FailedTimes(c, n + 1, now) = OpenCircuit(FirstOpen, now)
        BY <2>3, <2>6
    <3> QED BY <1>1, <3>1, <3>2, <3>3
  <2> QED BY <2>4, <2>5, <2>6
<1> QED BY <1>2, <1>3

LEMMA FailedTimesType ==
    ASSUME NEW c \in CircuitState, NEW now \in Int, NEW n \in Nat
    PROVE  FailedTimes(c, n, now) \in CircuitState
<1> USE BudgetAssumption DEF CircuitState, ClosedState, OpenState, HalfOpenState
<1>1. CASE c \in ClosedState
    BY <1>1 DEF FailedTimes, OpenCircuit
<1>2. CASE c.kind # "closed"
    BY <1>2, FailedCircuitType DEF FailedTimes
<1> QED BY <1>1, <1>2

-----------------------------------------------------------------------------
(* Lease recovery                                                          *)

\* What every operation may assume of the budget it starts from: the
\* well-typed budget with the expired leases taken out.
LEMMA RecoverType ==
    ASSUME NEW s, Readable(s), NEW now \in Int
    PROVE  Readable(RecoverExpiredLeases(s, now))
<1> USE DEF Readable
<1> DEFINE r == RecoverExpiredLeases(s, now)
<1>1. r.circuits \in [DataEndpoint -> CircuitState]
  <2> SUFFICES ASSUME NEW e \in DataEndpoint
               PROVE  RecoveredCircuit(s, e, now) \in CircuitState
      BY DEF RecoverExpiredLeases
  <2>1. OfEndpoint(Expired(s.pendingReservations, now), e) \subseteq s.pendingReservations
      BY DEF OfEndpoint, Expired
  <2>2. Cardinality(OfEndpoint(Expired(s.pendingReservations, now), e)) \in Nat
      BY <2>1, FS_Subset, FS_CardinalityType
  <2>3. s.circuits[e] \in CircuitState
      BY DEF BudgetState
  <2> QED BY <2>2, <2>3, FailedTimesType DEF RecoveredCircuit
<1>2. r.pendingReservations = Retained(s.pendingReservations, now)
    BY DEF RecoverExpiredLeases
<1>3. Retained(s.pendingReservations, now) \subseteq s.pendingReservations
    BY DEF Retained
<1>4. /\ IsFiniteSet(r.pendingReservations)
      /\ Cardinality(r.pendingReservations) <= MaxPending
  <2>1. /\ IsFiniteSet(r.pendingReservations)
        /\ Cardinality(r.pendingReservations) <= Cardinality(s.pendingReservations)
      BY <1>2, <1>3, FS_Subset
  <2>2. Cardinality(r.pendingReservations) \in Nat /\ Cardinality(s.pendingReservations) \in Nat
      BY <2>1, FS_CardinalityType
  <2> QED BY <2>1, <2>2, BudgetAssumption
<1>5. r.quota \in QuotaState
  <2>1. s.quota \in QuotaState /\ r.quota = RecoveredQuota(s, now)
      BY DEF BudgetState, RecoverExpiredLeases
  <2>2. CASE ~SyncLapsed(s, now)
      BY <2>1, <2>2 DEF RecoveredQuota
  <2>3. CASE SyncLapsed(s, now)
    <3>1. s.quota \in SyncState
        BY <2>1, <2>3
        DEF SyncLapsed, QuotaState, UnknownQuota, ConfirmedState, BackoffState, LimitedState, SyncState
    <3>2. CASE s.quota.rateLimit = Null
      <4>1. r.quota = Backoff(s.quota.prior, now)
          BY <2>1, <2>3, <3>2 DEF RecoveredQuota
      <4>2. r.quota \in BackoffState
          BY <4>1, <3>1, BudgetAssumption DEF Backoff, BackoffState, SyncState
      <4> QED BY <4>2 DEF QuotaState
    <3>3. CASE s.quota.rateLimit # Null
      <4>1. r.quota = Limited(FALSE, s.quota.rateLimit.prior, s.quota.rateLimit.retryAt)
          BY <2>1, <2>3, <3>3 DEF RecoveredQuota
      <4>2. s.quota.rateLimit \in RateLimit
          BY <3>1, <3>3 DEF SyncState
      <4>3. r.quota \in LimitedState
          BY <4>1, <4>2 DEF Limited, LimitedState, RateLimit
      <4> QED BY <4>3 DEF QuotaState
    <3> QED BY <3>2, <3>3
  <2> QED BY <2>2, <2>3
<1>6. r.pendingReservations \in SUBSET Reservation
    BY <1>2, <1>3 DEF BudgetState
<1>7. r \in BudgetState
    BY <1>1, <1>5, <1>6 DEF BudgetState, RecoverExpiredLeases
<1>8. r.quota.kind = "sync_in_progress" => r.quota = s.quota
    BY DEF RecoverExpiredLeases, RecoveredQuota, Backoff, Limited
<1> QED BY <1>4, <1>7, <1>8

-----------------------------------------------------------------------------
(* Operations keep the row readable                                        *)

\* The kind of a quota tells which fields it has.
LEMMA QuotaByKind ==
    ASSUME NEW q \in QuotaState
    PROVE  /\ q.kind \in {"unknown", "confirmed", "sync_in_progress", "sync_backoff", "rate_limited"}
           /\ q.kind = "confirmed" => q \in ConfirmedState
           /\ q.kind = "sync_in_progress" => q \in SyncState
           /\ q.kind = "sync_backoff" => q \in BackoffState
           /\ q.kind = "rate_limited" => q \in LimitedState
BY DEF QuotaState, UnknownQuota, ConfirmedState, SyncState, BackoffState, LimitedState

LEMMA CircuitByKind ==
    ASSUME NEW c \in CircuitState
    PROVE  /\ c.kind \in {"closed", "open", "half_open"}
           /\ c.kind = "closed" => c \in ClosedState
           /\ c.kind = "open" => c \in OpenState
           /\ c.kind = "half_open" => c \in HalfOpenState
BY DEF CircuitState, ClosedState, OpenState, HalfOpenState

LEMMA PriorQuotaType ==
    ASSUME NEW q \in QuotaState
    PROVE  PriorQuota(q) \in ConfirmedQuota \cup {Null}
BY QuotaByKind DEF PriorQuota, ConfirmedState, SyncState, BackoffState, LimitedState

\* Debiting windows that have allowance left keeps every allowance natural.
LEMMA DebitWindowsType ==
    ASSUME NEW windows \in [Window -> WindowState], NEW ws \in SUBSET Window,
           \A w \in ws : windows[w].remaining > 0
    PROVE  DebitWindows(windows, ws) \in [Window -> WindowState]
<1> SUFFICES ASSUME NEW w \in Window
             PROVE  DebitWindows(windows, ws)[w] \in WindowState
    BY DEF DebitWindows
<1>1. windows[w] \in WindowState
    OBVIOUS
<1>2. CASE w \in ws
    BY <1>1, <1>2 DEF DebitWindows, WindowState
<1>3. CASE w \notin ws
    BY <1>1, <1>3 DEF DebitWindows
<1> QED BY <1>2, <1>3

LEMMA DebitQuotaType ==
    ASSUME NEW q \in ConfirmedQuota, NEW ws \in SUBSET Window,
           \A w \in ws : q.windows[w].remaining > 0
    PROVE  DebitQuota(q, ws) \in ConfirmedQuota
BY DebitWindowsType DEF DebitQuota, ConfirmedQuota

\* One reservation more.
LEMMA AddOne ==
    ASSUME NEW S, IsFiniteSet(S), NEW x
    PROVE  /\ IsFiniteSet(S \cup {x})
           /\ Cardinality(S \cup {x}) <= Cardinality(S) + 1
<1>1. Cardinality(S) \in Nat
    BY FS_CardinalityType
<1>2. /\ IsFiniteSet(S \cup {x})
      /\ \/ Cardinality(S \cup {x}) = Cardinality(S)
         \/ Cardinality(S \cup {x}) = Cardinality(S) + 1
    BY FS_AddElement
<1> QED BY <1>1, <1>2

\* A granted request has allowance in every window it is debited from.
LEMMA GrantedType ==
    ASSUME NEW q \in QuotaState, NEW e \in DataEndpoint, NEW now \in Int,
           QuotaDecision(q, e, now) = "reserved"
    PROVE  /\ q.kind \in {"confirmed", "sync_backoff"}
           /\ DecrementQuota(q, e) \in QuotaState
           /\ DecrementQuota(q, e).kind = q.kind
<1>1. WindowsFor(e) \in SUBSET Window
    BY DEF WindowsFor
<1>2. ASSUME NEW p \in ConfirmedQuota, WindowDecision(p, e) = "reserved"
      PROVE  DebitQuota(p, WindowsFor(e)) \in ConfirmedQuota
  <2>1. \A w \in WindowsFor(e) : p.windows[w].remaining \in Nat /\ ~(p.windows[w].remaining <= 0)
      BY <1>1, <1>2 DEF WindowDecision, ConfirmedQuota, WindowState
  <2>2. \A w \in WindowsFor(e) : p.windows[w].remaining > 0
      BY <2>1
  <2> QED BY <1>1, <2>2, DebitQuotaType
<1>3. q.kind \in {"confirmed", "sync_backoff"}
    BY QuotaByKind DEF QuotaDecision
<1>4. CASE q.kind = "confirmed"
  <2>1. WindowDecision(q.value, e) = "reserved"
      BY <1>4 DEF QuotaDecision
  <2>2. q \in ConfirmedState
      BY <1>4, QuotaByKind
  <2>3. DecrementQuota(q, e) = [q EXCEPT !.value = DebitQuota(@, WindowsFor(e))]
      BY <1>4 DEF DecrementQuota
  <2>4. DecrementQuota(q, e) \in ConfirmedState
      BY <2>1, <2>2, <2>3, <1>2 DEF ConfirmedState
  <2> QED BY <2>4, <1>4 DEF QuotaState, ConfirmedState
<1>5. CASE q.kind = "sync_backoff"
  <2>1. q.prior # Null /\ WindowDecision(q.prior, e) = "reserved"
      BY <1>5 DEF QuotaDecision
  <2>2. q \in BackoffState
      BY <1>5, QuotaByKind
  <2>3. DecrementQuota(q, e) = [q EXCEPT !.prior = DebitQuota(@, WindowsFor(e))]
      BY <1>5, <2>1, <2>2 DEF DecrementQuota, BackoffState
  <2>4. DecrementQuota(q, e) \in BackoffState
      BY <2>1, <2>2, <2>3, <1>2 DEF BackoffState
  <2> QED BY <2>4, <1>5 DEF QuotaState, BackoffState
<1> QED BY <1>3, <1>4, <1>5

LEMMA ReserveType ==
    ASSUME NEW s, Readable(s), NEW e \in DataEndpoint, NEW token \in Token, NEW now \in Int,
           AdmissionDecision(s, e, token, now) = "reserved"
    PROVE  Readable(Reserve(s, e, token, now))
<1> DEFINE r == Reserve(s, e, token, now)
<1> USE DEF Readable
<1>1. /\ Cardinality(s.pendingReservations) < MaxPending
      /\ QuotaDecision(s.quota, e, now) = "reserved"
    BY FS_CardinalityType, BudgetAssumption DEF AdmissionDecision
<1>2. r.quota \in QuotaState
    BY <1>1, GrantedType DEF Reserve, BudgetState
<1>3. r.circuits \in [DataEndpoint -> CircuitState]
  <2>1. ProbeCircuit(s.circuits[e]) \in CircuitState
      BY CircuitByKind DEF ProbeCircuit, BudgetState, CircuitState, OpenState, HalfOpenState
  <2> QED BY <2>1 DEF Reserve, BudgetState
<1>4. DataLease(e, token, now) \in Reservation
    BY BudgetAssumption DEF DataLease, Reservation, DataReservation
<1>5. r.pendingReservations = s.pendingReservations \cup {DataLease(e, token, now)}
    BY DEF Reserve
<1>6. /\ IsFiniteSet(r.pendingReservations)
      /\ Cardinality(r.pendingReservations) <= Cardinality(s.pendingReservations) + 1
    BY <1>5, AddOne
<1>7. Cardinality(r.pendingReservations) <= MaxPending
    BY <1>1, <1>6, FS_CardinalityType, BudgetAssumption
<1>8. r.quota.kind # "sync_in_progress"
    BY <1>1, GrantedType DEF Reserve, BudgetState
<1> QED BY <1>2, <1>3, <1>4, <1>5, <1>6, <1>7, <1>8 DEF Reserve, BudgetState

\* The usage request a synchronization is about to make is paid for in advance.
LEMMA ChargedType ==
    ASSUME NEW q \in QuotaState, NEW now \in Int, ~ApiUsageExhausted(PriorQuota(q), now)
    PROVE  ChargedPrior(PriorQuota(q), now) \in ConfirmedQuota \cup {Null}
<1> DEFINE prior == PriorQuota(q)
           full == NormalizeApiUsage(prior.windows, now)
<1>1. CASE prior = Null
    BY <1>1 DEF ChargedPrior
<1>2. CASE prior # Null
  <2>1. prior \in ConfirmedQuota
      BY <1>2, PriorQuotaType
  <2>2. full \in [Window -> WindowState]
    <3> SUFFICES ASSUME NEW w \in Window PROVE full[w] \in WindowState
        BY DEF NormalizeApiUsage
    <3>1. prior.windows[w] \in WindowState
        BY <2>1 DEF ConfirmedQuota
    <3> QED BY <3>1, BudgetAssumption DEF NormalizeApiUsage, NormalizeWindow, WindowState
  <2>3. \A w \in ApiUsage : full[w].remaining > 0
    <3>1. \A w \in ApiUsage : ~(full[w].remaining <= 0)
        BY <1>2 DEF ApiUsageExhausted
    <3>2. \A w \in ApiUsage : full[w].remaining \in Nat
        BY <2>2 DEF WindowState, ApiUsage
    <3> QED BY <3>1, <3>2
  <2>4. ApiUsage \in SUBSET Window
      BY DEF ApiUsage
  <2>5. DebitWindows(full, ApiUsage) \in [Window -> WindowState]
      BY <2>2, <2>3, <2>4, DebitWindowsType
  <2> QED BY <1>2, <2>1, <2>5 DEF ChargedPrior, ConfirmedQuota
<1> QED BY <1>1, <1>2

LEMMA StartSyncType ==
    ASSUME NEW s, Readable(s), NEW token \in Token, NEW now \in Int,
           SyncDecision(s, now) = "started"
    PROVE  /\ Readable(StartSync(s, token, now))
           /\ StartSync(s, token, now).quota \in SyncState
<1> DEFINE r == StartSync(s, token, now)
           prior == PriorQuota(s.quota)
           lease == [kind |-> "quota_sync", leaseExpiresAt |-> now + Lease, token |-> token]
<1> USE DEF Readable
<1>1. /\ Cardinality(s.pendingReservations) < MaxPending
      /\ ~ApiUsageExhausted(prior, now)
    BY FS_CardinalityType, BudgetAssumption DEF SyncDecision
<1>2. prior \in ConfirmedQuota \cup {Null}
    BY PriorQuotaType DEF BudgetState
<1>3. ChargedPrior(prior, now) \in ConfirmedQuota \cup {Null}
    BY <1>1, ChargedType DEF BudgetState
<1>4. CarriedRateLimit(s.quota, ChargedPrior(prior, now)) \in RateLimit \cup {Null}
    BY <1>3, QuotaByKind DEF CarriedRateLimit, RateLimit, BudgetState, LimitedState
<1>5. DataOf(s.pendingReservations) \in SUBSET DataReservation
    BY DEF DataOf, BudgetState, Reservation, DataReservation, SyncReservation
<1>6. r.quota \in SyncState
    BY <1>3, <1>4, <1>5, BudgetAssumption DEF StartSync, SyncState, BudgetState
<1>7. lease \in Reservation
    BY BudgetAssumption DEF Reservation, SyncReservation
<1>8. r.pendingReservations = s.pendingReservations \cup {lease} /\ r.circuits = s.circuits
    BY DEF StartSync, BudgetState
<1>9. /\ IsFiniteSet(r.pendingReservations)
      /\ Cardinality(r.pendingReservations) <= Cardinality(s.pendingReservations) + 1
    BY <1>8, AddOne
<1>10. Cardinality(r.pendingReservations) <= MaxPending
    BY <1>1, <1>9, FS_CardinalityType, BudgetAssumption
<1>11. r.quota \in QuotaState
    BY <1>6 DEF QuotaState
<1>12. r \in BudgetState
  <2>1. s.pendingReservations \cup {lease} \in SUBSET Reservation
      BY <1>7 DEF BudgetState
  <2> QED BY <1>8, <1>11, <2>1 DEF StartSync, BudgetState
<1>13. /\ IsFiniteSet(r.quota.captured)
       /\ Cardinality(r.quota.captured) <= MaxPending
  <2>1. r.quota.captured = DataOf(s.pendingReservations)
      BY DEF StartSync, BudgetState
  <2>2. DataOf(s.pendingReservations) \subseteq s.pendingReservations
      BY DEF DataOf
  <2>3. /\ IsFiniteSet(DataOf(s.pendingReservations))
        /\ Cardinality(DataOf(s.pendingReservations)) <= Cardinality(s.pendingReservations)
      BY <2>2, FS_Subset
  <2> QED BY <2>1, <2>3, FS_CardinalityType, BudgetAssumption
<1> QED BY <1>6, <1>9, <1>10, <1>12, <1>13

\* Removing reservations never makes a budget unreadable.
LEMMA RemoveType ==
    ASSUME NEW s, Readable(s), NEW gone,
           NEW circuits \in [DataEndpoint -> CircuitState], NEW quota \in QuotaState,
           \/ quota.kind # "sync_in_progress"
           \/ /\ s.quota.kind = "sync_in_progress"
              /\ quota.captured = s.quota.captured
    PROVE  Readable([circuits |-> circuits,
                     pendingReservations |-> s.pendingReservations \ gone,
                     quota |-> quota])
<1> DEFINE left == s.pendingReservations \ gone
<1> USE DEF Readable
<1>1. IsFiniteSet(left) /\ Cardinality(left) <= Cardinality(s.pendingReservations)
    BY FS_Subset
<1>2. Cardinality(left) <= MaxPending
    BY <1>1, FS_CardinalityType, BudgetAssumption
<1> QED BY <1>1, <1>2 DEF BudgetState

LEMMA EndSyncType ==
    ASSUME NEW s, Readable(s), NEW token, NEW quota \in QuotaState,
           quota.kind # "sync_in_progress"
    PROVE  Readable(EndSync(s, token, quota))
<1>1. s.circuits \in [DataEndpoint -> CircuitState]
    BY DEF Readable, BudgetState
<1> QED BY <1>1, RemoveType DEF EndSync

\* A report corrected by the captured debits has no negative allowance.
LEMMA ReapplyType ==
    ASSUME NEW windows \in [Window -> WindowState], NEW captured, IsFiniteSet(captured)
    PROVE  ReapplyCapturedDataDebits(windows, captured) \in [Window -> WindowState]
<1> SUFFICES ASSUME NEW w \in Window
             PROVE  ReapplyCapturedDataDebits(windows, captured)[w] \in WindowState
    BY DEF ReapplyCapturedDataDebits
<1>1. {r \in captured : AppliesTo(w, r.endpoint)} \subseteq captured
    OBVIOUS
<1>2. CapturedDebit(captured, w) \in Nat
    BY <1>1, FS_Subset, FS_CardinalityType DEF CapturedDebit
<1>3. windows[w] \in WindowState
    OBVIOUS
<1> QED BY <1>2, <1>3 DEF ReapplyCapturedDataDebits, WindowState, Larger

\* However the owner ends a synchronization, the row stays readable.
LEMMA SyncEndsType ==
    ASSUME NEW s, Readable(s), NEW token \in Token, NEW now \in Int, NEW retryAt \in Int,
           NEW windows \in [Window -> WindowState],
           OwnsSync(s, token)
    PROVE  /\ Readable(SyncRecorded(s, token, windows, now))
           /\ Readable(SyncFailed(s, token, now))
           /\ Readable(SyncRateLimited(s, token, retryAt))
<1>1. s.quota \in SyncState /\ IsFiniteSet(s.quota.captured)
    BY QuotaByKind DEF OwnsSync, Readable, BudgetState
<1>2. /\ s.quota.prior \in ConfirmedQuota \cup {Null}
      /\ s.quota.rateLimit # Null => s.quota.rateLimit.retryAt \in Int
    BY <1>1 DEF SyncState, RateLimit
<1>3. ASSUME NEW p \in ConfirmedQuota \cup {Null}, NEW t \in Int
      PROVE  /\ Limited(FALSE, p, t) \in QuotaState
             /\ Limited(FALSE, p, t).kind # "sync_in_progress"
    BY DEF Limited, QuotaState, LimitedState
<1>4. Readable(SyncRecorded(s, token, windows, now))
  <2> DEFINE value == [confirmedAt |-> now,
                       windows |-> ReapplyCapturedDataDebits(windows, s.quota.captured)]
  <2>1. value \in ConfirmedQuota
      BY <1>1, ReapplyType DEF ConfirmedQuota
  <2> HIDE DEF value
  <2>2. /\ [kind |-> "confirmed", value |-> value] \in QuotaState
        /\ [kind |-> "confirmed", value |-> value].kind # "sync_in_progress"
      BY <2>1 DEF QuotaState, ConfirmedState
  <2>3. CASE s.quota.rateLimit = Null
    <3>1. SyncRecorded(s, token, windows, now) =
            EndSync(s, token, [kind |-> "confirmed", value |-> value])
        BY <2>3 DEF SyncRecorded, value
    <3> QED BY <2>2, <3>1, EndSyncType
  <2>4. CASE s.quota.rateLimit # Null
    <3>1. SyncRecorded(s, token, windows, now) =
            EndSync(s, token, Limited(FALSE, value, s.quota.rateLimit.retryAt))
        BY <2>4 DEF SyncRecorded, value
    <3> QED BY <2>1, <2>4, <1>2, <1>3, <3>1, EndSyncType
  <2> QED BY <2>3, <2>4
<1>5. Readable(SyncFailed(s, token, now))
  <2>1. CASE s.quota.rateLimit = Null
    <3>1. SyncFailed(s, token, now) = EndSync(s, token, Backoff(s.quota.prior, now))
        BY <2>1 DEF SyncFailed
    <3>2. /\ Backoff(s.quota.prior, now) \in QuotaState
          /\ Backoff(s.quota.prior, now).kind # "sync_in_progress"
        BY <1>2, BudgetAssumption DEF Backoff, QuotaState, BackoffState
    <3> QED BY <3>1, <3>2, EndSyncType
  <2>2. CASE s.quota.rateLimit # Null
    <3>1. SyncFailed(s, token, now) =
            EndSync(s, token, Limited(FALSE, s.quota.prior, s.quota.rateLimit.retryAt))
        BY <2>2 DEF SyncFailed
    <3> QED BY <2>2, <1>2, <1>3, <3>1, EndSyncType
  <2> QED BY <2>1, <2>2
<1>6. Readable(SyncRateLimited(s, token, retryAt))
    BY <1>2, <1>3, EndSyncType DEF SyncRateLimited
<1> QED BY <1>4, <1>5, <1>6

\* A recorded outcome leaves the row readable.
LEMMA OutcomeType ==
    ASSUME NEW s, Readable(s), NEW e \in DataEndpoint, NEW token \in Token,
           NEW outcome \in {"success", "rate_limited"} \cup FailureOutcome \cup NeutralOutcome,
           NEW retryAt \in Int, NEW now \in Int
    PROVE  Readable(OutcomeRecorded(s, e, token, outcome, retryAt, now))
<1>1. s.circuits[e] \in CircuitState /\ s.quota \in QuotaState
    BY DEF Readable, BudgetState
<1>2. ASSUME NEW circuit \in CircuitState, NEW quota \in QuotaState,
             \/ quota = s.quota
             \/ quota.kind # "sync_in_progress"
             \/ s.quota.kind = "sync_in_progress" /\ quota.captured = s.quota.captured
      PROVE  Readable(Complete(s, e, token, circuit, quota))
  <2>1. [s.circuits EXCEPT ![e] = circuit] \in [DataEndpoint -> CircuitState]
      BY DEF Readable, BudgetState
  <2> QED BY <1>2, <2>1, RemoveType DEF Complete
<1>3. ClosedCircuit \in CircuitState /\ NonFailureCircuit(s.circuits[e]) \in CircuitState
    BY <1>1 DEF NonFailureCircuit, ClosedCircuit, CircuitState, ClosedState
<1>4. FailedCircuit(s.circuits[e], now) \in CircuitState
    BY <1>1, FailedCircuitType
<1>5. CASE outcome = "rate_limited"
  <2> DEFINE quota == RateLimitedQuota(s.quota, retryAt)
  <2>1. OutcomeRecorded(s, e, token, outcome, retryAt, now) =
          Complete(s, e, token, NonFailureCircuit(s.circuits[e]), quota)
      BY <1>5 DEF OutcomeRecorded, FailureOutcome, NeutralOutcome
  <2>2. CASE s.quota.kind = "sync_in_progress"
    <3>1. s.quota \in SyncState
        BY <1>1, <2>2, QuotaByKind
    <3>2. [prior |-> s.quota.prior, retryAt |-> retryAt] \in RateLimit
        BY <3>1 DEF SyncState, RateLimit
    <3>3. quota \in SyncState /\ quota.captured = s.quota.captured
        BY <2>2, <3>1, <3>2 DEF RateLimitedQuota, SyncState
    <3>4. quota \in QuotaState
        BY <3>3 DEF QuotaState
    <3> HIDE DEF quota
    <3> QED BY <1>2, <1>3, <2>1, <2>2, <3>3, <3>4
  <2>3. CASE s.quota.kind # "sync_in_progress"
    <3>1. quota = Limited(TRUE, PriorQuota(s.quota), retryAt)
        BY <2>3 DEF RateLimitedQuota
    <3>2. PriorQuota(s.quota) \in ConfirmedQuota \cup {Null}
        BY <1>1, PriorQuotaType
    <3>3. quota \in QuotaState /\ quota.kind # "sync_in_progress"
        BY <3>1, <3>2 DEF Limited, QuotaState, LimitedState
    <3> HIDE DEF quota
    <3> QED BY <1>2, <1>3, <2>1, <3>3
  <2> QED BY <2>2, <2>3
<1>6. CASE outcome # "rate_limited"
    BY <1>1, <1>2, <1>3, <1>4, <1>6 DEF OutcomeRecorded, FailureOutcome, NeutralOutcome
<1> QED BY <1>5, <1>6

-----------------------------------------------------------------------------
(* Type correctness                                                        *)

\* A stamp is an integer within the spread of the clocks.
LEMMA StampsAreTimes ==
    ASSUME clock \in Nat, NEW now \in Stamps
    PROVE  now \in Int /\ clock - Behind <= now /\ now <= clock + Ahead
BY TimingAssumption DEF Stamps

\* Every call leaves a readable row.
LEMMA CallKeepsType ==
    ASSUME TypeOK, NEW now \in Stamps, Call(now)
    PROVE  TypeOK'
<1> DEFINE s == RecoverExpiredLeases(budget, now)
<1>1. now \in Int
    BY StampsAreTimes DEF TypeOK
<1>2. Readable(s)
    BY <1>1, RecoverType DEF TypeOK
<1> HIDE DEF s
<1>3. PICK token \in Token :
        \/ BeginQuotaSync(token, now)
        \/ FailQuotaSync(token, now)
        \/ \E report \in UsageReports : RecordQuotaSync(token, ReportedWindows(report), now)
        \/ \E delay \in RetryAfters : RecordQuotaSyncRateLimited(token, delay, now)
        \/ \E e \in DataEndpoint :
              \/ Admit(e, token, now)
              \/ \E outcome \in Outcomes : RecordOutcome(e, token, outcome, now)
              \/ \E delay \in RetryAfters : RecordRateLimit(e, token, delay, now)
    BY DEF Call
<1>4. CASE BeginQuotaSync(token, now)
  <2>1. budget' = IF SyncDecision(s, now) = "started" THEN StartSync(s, token, now) ELSE s
      BY <1>4 DEF BeginQuotaSync, s
  <2>2. Readable(budget')
      BY <1>1, <1>2, <2>1, StartSyncType
  <2> QED BY <1>4, <2>2 DEF TypeOK, BeginQuotaSync
<1>5. CASE FailQuotaSync(token, now)
  <2>1. budget' = IF OwnsSync(s, token) THEN SyncFailed(s, token, now) ELSE s
      BY <1>5 DEF FailQuotaSync, s
  <2>2. [w \in Window |-> [remaining |-> 0, resetAt |-> Null]] \in [Window -> WindowState]
      BY DEF WindowState
  <2>3. Readable(budget')
      BY <1>1, <1>2, <2>1, <2>2, SyncEndsType
  <2> QED BY <1>5, <2>3 DEF TypeOK, FailQuotaSync
<1>6. ASSUME NEW report \in UsageReports, RecordQuotaSync(token, ReportedWindows(report), now)
      PROVE  TypeOK'
  <2>1. budget' = IF OwnsSync(s, token)
                  THEN SyncRecorded(s, token, ReportedWindows(report), now) ELSE s
      BY <1>6 DEF RecordQuotaSync, s
  <2>2. ReportedWindows(report) \in [Window -> WindowState]
    <3>1. report \in UsageReport
        BY TimingAssumption
    <3>2. \A w \in Window : report[w].remaining \in Nat /\ report[w].resetIn \in Int \cup {Null}
        BY <3>1 DEF UsageReport
    <3> QED BY <3>2 DEF ReportedWindows, WindowState, TypeOK
  <2>3. Readable(budget')
      BY <1>1, <1>2, <2>1, <2>2, SyncEndsType
  <2> QED BY <1>6, <2>3 DEF TypeOK, RecordQuotaSync
<1>7. ASSUME NEW delay \in RetryAfters, RecordQuotaSyncRateLimited(token, delay, now)
      PROVE  TypeOK'
  <2>1. budget' = IF OwnsSync(s, token) THEN SyncRateLimited(s, token, now + delay) ELSE s
      BY <1>7 DEF RecordQuotaSyncRateLimited, s
  <2>2. [w \in Window |-> [remaining |-> 0, resetAt |-> Null]] \in [Window -> WindowState]
      BY DEF WindowState
  <2>3. now + delay \in Int
      BY <1>1, TimingAssumption
  <2>4. Readable(budget')
      BY <1>1, <1>2, <2>1, <2>2, <2>3, SyncEndsType
  <2> QED BY <1>7, <2>3, <2>4 DEF TypeOK, RecordQuotaSyncRateLimited
<1>8. ASSUME NEW e \in DataEndpoint, Admit(e, token, now)
      PROVE  TypeOK'
  <2>1. budget' = IF AdmissionDecision(s, e, token, now) = "reserved"
                  THEN Reserve(s, e, token, now) ELSE s
      BY <1>8 DEF Admit, s
  <2>2. Readable(budget')
      BY <1>1, <1>2, <2>1, ReserveType
  <2> QED BY <1>8, <2>2 DEF TypeOK, Admit
<1>9. ASSUME NEW e \in DataEndpoint, NEW outcome \in Outcomes, RecordOutcome(e, token, outcome, now)
      PROVE  TypeOK'
  <2>1. budget' = IF ReservationOf(s, e, token) # {}
                  THEN OutcomeRecorded(s, e, token, outcome, now, now) ELSE s
      BY <1>9 DEF RecordOutcome, s
  <2>2. outcome \in {"success", "rate_limited"} \cup FailureOutcome \cup NeutralOutcome
      BY TimingAssumption
  <2>3. Readable(budget')
      BY <1>1, <1>2, <2>1, <2>2, OutcomeType
  <2> QED BY <1>9, <2>3 DEF TypeOK, RecordOutcome
<1>10. ASSUME NEW e \in DataEndpoint, NEW delay \in RetryAfters, RecordRateLimit(e, token, delay, now)
       PROVE  TypeOK'
  <2>1. budget' = IF ReservationOf(s, e, token) # {}
                  THEN OutcomeRecorded(s, e, token, "rate_limited", now + delay, now) ELSE s
      BY <1>10 DEF RecordRateLimit, s
  <2>2. now + delay \in Int
      BY <1>1, TimingAssumption
  <2>3. Readable(budget')
      BY <1>1, <1>2, <2>1, <2>2, OutcomeType
  <2> QED BY <1>10, <2>2, <2>3 DEF TypeOK, RecordRateLimit
<1> QED BY <1>3, <1>4, <1>5, <1>6, <1>7, <1>8, <1>9, <1>10

LEMMA InitType == Init => TypeOK
<1> SUFFICES ASSUME Init PROVE TypeOK
    OBVIOUS
<1>1. InitialBudget \in BudgetState
    BY DEF InitialBudget, BudgetState, CircuitState, ClosedState, QuotaState, UnknownQuota
<1>2. IsFiniteSet({}) /\ Cardinality({}) = 0
    BY FS_EmptySet
<1>3. Readable(InitialBudget)
  <2>1. InitialBudget.pendingReservations = {} /\ InitialBudget.quota.kind = "unknown"
      BY DEF InitialBudget
  <2> QED BY <1>1, <1>2, <2>1, BudgetAssumption DEF Readable
<1> QED BY <1>3 DEF Init, TypeOK

LEMMA TickKeepsType == TypeOK /\ Tick => TypeOK'
BY DEF TypeOK, Tick

\* The persisted row stays readable whatever calls arrive, in whatever order,
\* however late, and whatever CourtListener reports: no operation of
\* coordinator.ts can store a row that its own stateSchema refuses.
THEOREM CoordinatorTypeCorrect == Spec => []TypeOK
<1>1. Init => TypeOK
    BY InitType
<1>2. TypeOK /\ [Next]_vars => TypeOK'
  <2> SUFFICES ASSUME TypeOK, [Next]_vars PROVE TypeOK'
      OBVIOUS
  <2>1. CASE Next
      BY <2>1, CallKeepsType, TickKeepsType DEF Next
  <2>2. CASE UNCHANGED vars
      BY <2>2 DEF vars, TypeOK
  <2> QED BY <2>1, <2>2
<1> QED BY <1>1, <1>2, PTL DEF Spec

-----------------------------------------------------------------------------
(* Circuits and the requests in flight.  The invariants as predicates of a *)
(* budget s, so that the lemmas apply to the recovered budget, too.        *)

CircuitsSafe(s) ==
    \A e \in DataEndpoint :
        /\ s.circuits[e].kind = "half_open" =>
              \E r \in s.pendingReservations : OfEndpoint(s.pendingReservations, e) = {r}
        /\ s.circuits[e].kind = "open" =>
              \A r \in OfEndpoint(s.pendingReservations, e) :
                  r.leaseExpiresAt <= s.circuits[e].retryAt

LeasesUpTo(s, bound) == \A r \in s.pendingReservations : r.leaseExpiresAt <= bound

\* A failure at now opens a circuit for at least FirstOpen, or leaves an open
\* one as it is, or leaves it closed.
LEMMA FailureOpens ==
    ASSUME NEW c \in CircuitState, NEW now \in Int
    PROVE  LET f == FailedCircuit(c, now) IN
           \/ f.kind = "closed"
           \/ f.kind = "open" /\ f.retryAt >= now + FirstOpen
           \/ c.kind = "open" /\ f = c
<1> USE BudgetAssumption
    DEF FailedCircuit, OpenCircuit, Smaller, ClosedState, OpenState, HalfOpenState
<1>1. CASE c \in ClosedState
    BY <1>1
<1>2. CASE c \in OpenState
    BY <1>2
<1>3. CASE c \in HalfOpenState
    BY <1>3
<1> QED BY <1>1, <1>2, <1>3 DEF CircuitState

\* The same of any number of failures at once but none.
LEMMA FailuresOpen ==
    ASSUME NEW c \in CircuitState, NEW now \in Int, NEW n \in Nat, n # 0
    PROVE  LET f == FailedTimes(c, n, now) IN
           \/ f.kind = "closed"
           \/ f.kind = "open" /\ f.retryAt >= now + FirstOpen
           \/ c.kind = "open" /\ f = c
<1>1. CASE c.kind = "closed"
    BY <1>1, CircuitByKind, BudgetAssumption DEF FailedTimes, OpenCircuit, ClosedState
<1>2. CASE c.kind # "closed"
    BY <1>2, FailureOpens DEF FailedTimes
<1> QED BY <1>1, <1>2

\* Lease recovery keeps circuits safe, and leaves only live leases.
LEMMA RecoverCircuits ==
    ASSUME NEW s, Readable(s), NEW now \in Int, CircuitsSafe(s), LeasesUpTo(s, now + FirstOpen)
    PROVE  LET t == RecoverExpiredLeases(s, now) IN
           /\ CircuitsSafe(t)
           /\ LeasesUpTo(t, now + FirstOpen)
           /\ t.pendingReservations \subseteq s.pendingReservations
           /\ \A r \in t.pendingReservations : now < r.leaseExpiresAt
<1> DEFINE t == RecoverExpiredLeases(s, now)
           lost(e) == OfEndpoint(Expired(s.pendingReservations, now), e)
<1>1. /\ t.pendingReservations = Retained(s.pendingReservations, now)
      /\ \A e \in DataEndpoint : t.circuits[e] = FailedTimes(s.circuits[e], Cardinality(lost(e)), now)
    BY DEF RecoverExpiredLeases, RecoveredCircuit
<1>2. /\ t.pendingReservations \subseteq s.pendingReservations
      /\ \A r \in t.pendingReservations : now < r.leaseExpiresAt
    BY <1>1 DEF Retained
<1>3. \A r \in s.pendingReservations : r.leaseExpiresAt \in Int
    BY DEF Readable, BudgetState, Reservation, DataReservation, SyncReservation
<1>4. ASSUME NEW e \in DataEndpoint
      PROVE  /\ t.circuits[e].kind = "half_open" =>
                  \E r \in t.pendingReservations : OfEndpoint(t.pendingReservations, e) = {r}
             /\ t.circuits[e].kind = "open" =>
                  \A r \in OfEndpoint(t.pendingReservations, e) :
                      r.leaseExpiresAt <= t.circuits[e].retryAt
  <2>1. lost(e) \subseteq s.pendingReservations
      BY DEF OfEndpoint, Expired
  <2>2. IsFiniteSet(lost(e)) /\ Cardinality(lost(e)) \in Nat
      BY <2>1, FS_Subset, FS_CardinalityType DEF Readable
  <2>3. s.circuits[e] \in CircuitState
      BY DEF Readable, BudgetState
  <2>4. CASE lost(e) = {}
    <3>1. t.circuits[e] = s.circuits[e]
        BY <1>1, <2>4, FS_EmptySet DEF FailedTimes
    <3>2. OfEndpoint(t.pendingReservations, e) = OfEndpoint(s.pendingReservations, e)
        BY <1>1, <1>3, <2>4 DEF OfEndpoint, Expired, Retained
    <3>3. OfEndpoint(t.pendingReservations, e) \subseteq t.pendingReservations
        BY DEF OfEndpoint
    <3> QED BY <3>1, <3>2, <3>3 DEF CircuitsSafe
  <2>5. CASE lost(e) # {}
    <3>1. Cardinality(lost(e)) # 0
        BY <2>2, <2>5, FS_EmptySet
    <3> HIDE DEF t, lost
    <3>2. \/ t.circuits[e].kind = "closed"
          \/ t.circuits[e].kind = "open" /\ t.circuits[e].retryAt >= now + FirstOpen
          \/ s.circuits[e].kind = "open" /\ t.circuits[e] = s.circuits[e]
        BY <1>1, <2>2, <2>3, <3>1, FailuresOpen
    <3>3. t.circuits[e] \in CircuitState
        BY <1>1, <2>2, <2>3, FailedTimesType
    <3>4. CASE t.circuits[e].kind = "open" /\ t.circuits[e].retryAt >= now + FirstOpen
      <4>1. t.circuits[e].retryAt \in Int
          BY <3>3, <3>4, CircuitByKind DEF OpenState
      <4>2. \A r \in OfEndpoint(t.pendingReservations, e) :
                r.leaseExpiresAt \in Int /\ r.leaseExpiresAt <= now + FirstOpen
          BY <1>2, <1>3 DEF OfEndpoint, LeasesUpTo
      <4> QED BY <3>4, <4>1, <4>2, BudgetAssumption
    <3>5. CASE s.circuits[e].kind = "open" /\ t.circuits[e] = s.circuits[e]
      <4>1. OfEndpoint(t.pendingReservations, e) \subseteq OfEndpoint(s.pendingReservations, e)
          BY <1>2 DEF OfEndpoint
      <4> QED BY <3>5, <4>1 DEF CircuitsSafe
    <3> QED BY <3>2, <3>4, <3>5
  <2> QED BY <2>4, <2>5
<1>5. LeasesUpTo(t, now + FirstOpen)
    BY <1>2 DEF LeasesUpTo
<1> HIDE DEF t
<1>6. CircuitsSafe(t)
    BY <1>4 DEF CircuitsSafe
<1> QED BY <1>2, <1>5, <1>6 DEF t

\* A grant makes a probe only when every earlier request of the endpoint has
\* run out.
LEMMA ReserveCircuits ==
    ASSUME NEW s, Readable(s), NEW e \in DataEndpoint, NEW token, NEW now \in Int,
           CircuitsSafe(s), \A r \in s.pendingReservations : now < r.leaseExpiresAt,
           AdmissionDecision(s, e, token, now) = "reserved"
    PROVE  CircuitsSafe(Reserve(s, e, token, now))
<1> DEFINE t == Reserve(s, e, token, now)
           lease == DataLease(e, token, now)
<1>1. /\ s.circuits \in [DataEndpoint -> CircuitState]
      /\ \A r \in s.pendingReservations : r.leaseExpiresAt \in Int
    BY DEF Readable, BudgetState, Reservation, DataReservation, SyncReservation
<1>2. /\ t.pendingReservations = s.pendingReservations \cup {lease}
      /\ t.circuits = [s.circuits EXCEPT ![e] = ProbeCircuit(@)]
    BY DEF Reserve
<1>3. lease.kind = "data" /\ lease.endpoint = e
    BY DEF DataLease
<1> HIDE DEF lease, t
<1>4. /\ s.circuits[e].kind # "half_open"
      /\ s.circuits[e].kind = "open" => ~(now < s.circuits[e].retryAt)
    BY DEF AdmissionDecision
<1>5. ASSUME NEW d \in DataEndpoint, d # e
      PROVE  /\ t.circuits[d] = s.circuits[d]
             /\ OfEndpoint(t.pendingReservations, d) = OfEndpoint(s.pendingReservations, d)
    BY <1>1, <1>2, <1>3, <1>5 DEF OfEndpoint
<1>6. t.circuits[e] = ProbeCircuit(s.circuits[e])
    BY <1>1, <1>2
<1>7. CASE s.circuits[e].kind = "open"
  <2>1. s.circuits[e].retryAt \in Int
      BY <1>1, <1>7, CircuitByKind DEF OpenState
  <2>2. OfEndpoint(s.pendingReservations, e) = {}
    <3> SUFFICES ASSUME NEW r \in OfEndpoint(s.pendingReservations, e) PROVE FALSE
        OBVIOUS
    <3>1. r \in s.pendingReservations
        BY DEF OfEndpoint
    <3>2. r.leaseExpiresAt <= s.circuits[e].retryAt
        BY <1>7 DEF CircuitsSafe
    <3> QED BY <1>1, <1>4, <1>7, <2>1, <3>1, <3>2
  <2>3. OfEndpoint(t.pendingReservations, e) = {lease}
      BY <1>2, <1>3, <2>2 DEF OfEndpoint
  <2>4. t.circuits[e].kind = "half_open"
      BY <1>6, <1>7 DEF ProbeCircuit
  <2>5. lease \in t.pendingReservations
      BY <1>2
  <2> QED BY <1>2, <1>5, <2>3, <2>4, <2>5 DEF CircuitsSafe, t, OfEndpoint
<1>8. CASE s.circuits[e].kind # "open"
  <2>1. t.circuits[e].kind = "closed"
      BY <1>1, <1>4, <1>6, <1>8, CircuitByKind DEF ProbeCircuit
  <2> QED BY <1>2, <1>5, <2>1 DEF CircuitsSafe, t
<1> QED BY <1>7, <1>8

\* Ending a request with a verdict that is closed, a fresh open period or an
\* open circuit left alone keeps circuits safe.
LEMMA CompleteCircuits ==
    ASSUME NEW s, Readable(s), NEW e \in DataEndpoint, NEW token, NEW quota, NEW now \in Int,
           NEW circuit \in CircuitState, CircuitsSafe(s), LeasesUpTo(s, now + FirstOpen),
           \/ circuit.kind = "closed"
           \/ circuit.kind = "open" /\ circuit.retryAt >= now + FirstOpen
           \/ s.circuits[e].kind = "open" /\ circuit = s.circuits[e]
    PROVE  CircuitsSafe(Complete(s, e, token, circuit, quota))
<1> DEFINE t == Complete(s, e, token, circuit, quota)
<1>1. /\ s.circuits \in [DataEndpoint -> CircuitState]
      /\ \A r \in s.pendingReservations : r.leaseExpiresAt \in Int
    BY DEF Readable, BudgetState, Reservation, DataReservation, SyncReservation
<1>2. /\ t.circuits = [s.circuits EXCEPT ![e] = circuit]
      /\ t.pendingReservations = s.pendingReservations \ ReservationOf(s, e, token)
    BY DEF Complete
<1> HIDE DEF t
<1>3. ASSUME NEW d \in DataEndpoint, d # e
      PROVE  /\ t.circuits[d] = s.circuits[d]
             /\ OfEndpoint(t.pendingReservations, d) = OfEndpoint(s.pendingReservations, d)
    BY <1>1, <1>2, <1>3 DEF OfEndpoint, ReservationOf
<1>4. t.circuits[e] = circuit
    BY <1>1, <1>2
<1>5. OfEndpoint(t.pendingReservations, e) \subseteq OfEndpoint(s.pendingReservations, e)
    BY <1>2 DEF OfEndpoint
<1>6. circuit.kind = "open" =>
        \A r \in OfEndpoint(t.pendingReservations, e) : r.leaseExpiresAt <= circuit.retryAt
  <2>1. ASSUME circuit.kind = "open", circuit.retryAt >= now + FirstOpen,
               NEW r \in OfEndpoint(s.pendingReservations, e)
        PROVE  r.leaseExpiresAt <= circuit.retryAt
    <3>1. circuit.retryAt \in Int
        BY <2>1, CircuitByKind DEF OpenState
    <3>2. r.leaseExpiresAt \in Int /\ r.leaseExpiresAt <= now + FirstOpen
        BY <1>1 DEF OfEndpoint, LeasesUpTo
    <3> QED BY <2>1, <3>1, <3>2, BudgetAssumption
  <2> QED BY <1>5, <2>1 DEF CircuitsSafe
<1>7. circuit.kind # "half_open"
    BY DEF CircuitsSafe
<1>8. \A d \in DataEndpoint : OfEndpoint(t.pendingReservations, d) \subseteq t.pendingReservations
    BY DEF OfEndpoint
<1>9. ASSUME NEW d \in DataEndpoint
      PROVE  /\ t.circuits[d].kind = "half_open" =>
                  \E r \in t.pendingReservations : OfEndpoint(t.pendingReservations, d) = {r}
             /\ t.circuits[d].kind = "open" =>
                  \A r \in OfEndpoint(t.pendingReservations, d) :
                      r.leaseExpiresAt <= t.circuits[d].retryAt
  <2>1. CASE d = e
      BY <1>4, <1>6, <1>7, <2>1
  <2>2. CASE d # e
      BY <1>3, <1>8, <2>2 DEF CircuitsSafe
  <2> QED BY <2>1, <2>2
<1>10. CircuitsSafe(t)
    BY <1>9 DEF CircuitsSafe
<1> QED BY <1>10 DEF t

\* A recorded outcome keeps circuits safe.
LEMMA OutcomeCircuits ==
    ASSUME NEW s, Readable(s), NEW e \in DataEndpoint, NEW token, NEW retryAt, NEW now \in Int,
           NEW outcome \in {"success", "rate_limited"} \cup FailureOutcome \cup NeutralOutcome,
           CircuitsSafe(s), LeasesUpTo(s, now + FirstOpen)
    PROVE  CircuitsSafe(OutcomeRecorded(s, e, token, outcome, retryAt, now))
<1>1. s.circuits[e] \in CircuitState
    BY DEF Readable, BudgetState
<1>2. ClosedCircuit \in CircuitState /\ ClosedCircuit.kind = "closed"
    BY DEF ClosedCircuit, CircuitState, ClosedState
<1>3. /\ NonFailureCircuit(s.circuits[e]) \in CircuitState
      /\ \/ NonFailureCircuit(s.circuits[e]).kind = "closed"
         \/ /\ s.circuits[e].kind = "open"
            /\ NonFailureCircuit(s.circuits[e]) = s.circuits[e]
    BY <1>1, <1>2 DEF NonFailureCircuit
<1>4. FailedCircuit(s.circuits[e], now) \in CircuitState
    BY <1>1, FailedCircuitType
<1>5. CASE outcome = "success"
    BY <1>2, <1>5, CompleteCircuits DEF OutcomeRecorded, FailureOutcome, NeutralOutcome
<1>6. CASE outcome \in FailureOutcome
  <2>1. CircuitsSafe(Complete(s, e, token, FailedCircuit(s.circuits[e], now), s.quota))
      BY <1>1, <1>4, FailureOpens, CompleteCircuits
  <2> QED BY <1>6, <2>1 DEF OutcomeRecorded, FailureOutcome, NeutralOutcome
<1>7. \A quota : CircuitsSafe(Complete(s, e, token, NonFailureCircuit(s.circuits[e]), quota))
    BY <1>3, CompleteCircuits
<1>8. CASE outcome \in NeutralOutcome
    BY <1>7, <1>8 DEF OutcomeRecorded, FailureOutcome, NeutralOutcome
<1>9. CASE outcome = "rate_limited"
    BY <1>7, <1>9 DEF OutcomeRecorded, FailureOutcome, NeutralOutcome
<1> QED BY <1>5, <1>6, <1>8, <1>9

\* Synchronizations touch neither circuits nor data requests.
LEMMA SyncKeepsCircuits ==
    ASSUME NEW s, CircuitsSafe(s), NEW t, t.circuits = s.circuits,
           DataOf(t.pendingReservations) = DataOf(s.pendingReservations)
    PROVE  CircuitsSafe(t)
<1>1. \A e \in DataEndpoint :
        OfEndpoint(t.pendingReservations, e) = OfEndpoint(s.pendingReservations, e)
    BY DEF DataOf, OfEndpoint
<1>2. \A e \in DataEndpoint : OfEndpoint(t.pendingReservations, e) \subseteq t.pendingReservations
    BY DEF OfEndpoint
<1> QED BY <1>1, <1>2 DEF CircuitsSafe

-----------------------------------------------------------------------------
(* The synchronization and its lease                                       *)

SyncsOf(s) == {r \in s.pendingReservations : r.kind = "quota_sync"}

SyncOwned(s) ==
    IF s.quota.kind = "sync_in_progress"
    THEN /\ \E r \in SyncsOf(s) :
               /\ SyncsOf(s) = {r}
               /\ r.token = s.quota.token
               /\ r.leaseExpiresAt = s.quota.leaseExpiresAt
         /\ DataOf(s.pendingReservations) \subseteq s.quota.captured
    ELSE SyncsOf(s) = {}

\* A synchronization and its reservation lapse together.
LEMMA RecoverSync ==
    ASSUME NEW s, Readable(s), NEW now \in Int, SyncOwned(s)
    PROVE  SyncOwned(RecoverExpiredLeases(s, now))
<1> DEFINE t == RecoverExpiredLeases(s, now)
<1>1. /\ t.pendingReservations = Retained(s.pendingReservations, now)
      /\ t.quota = RecoveredQuota(s, now)
    BY DEF RecoverExpiredLeases
<1>2. t.pendingReservations \subseteq s.pendingReservations
    BY <1>1 DEF Retained
<1>3. SyncsOf(t) \subseteq SyncsOf(s)
    BY <1>2 DEF SyncsOf
<1> HIDE DEF t
<1>4. CASE s.quota.kind # "sync_in_progress"
  <2>1. t.quota = s.quota
      BY <1>1, <1>4 DEF RecoveredQuota, SyncLapsed
  <2> QED BY <1>3, <1>4, <2>1 DEF SyncOwned, t
<1>5. CASE s.quota.kind = "sync_in_progress"
  <2>1. PICK r \in SyncsOf(s) :
            /\ SyncsOf(s) = {r}
            /\ r.token = s.quota.token
            /\ r.leaseExpiresAt = s.quota.leaseExpiresAt
      BY <1>5 DEF SyncOwned
  <2>2. DataOf(s.pendingReservations) \subseteq s.quota.captured
      BY <1>5 DEF SyncOwned
  <2>3. r \in s.pendingReservations /\ r.kind = "quota_sync"
      BY <2>1 DEF SyncsOf
  <2>4. r.leaseExpiresAt \in Int
      BY <2>3 DEF Readable, BudgetState, Reservation, DataReservation, SyncReservation
  <2>5. CASE SyncLapsed(s, now)
    <3>1. t.quota.kind # "sync_in_progress"
        BY <1>1, <2>5 DEF RecoveredQuota, Backoff, Limited
    <3>2. r \notin t.pendingReservations
        BY <1>1, <2>1, <2>3, <2>4, <2>5 DEF SyncLapsed, SyncReservationOf, Retained
    <3>3. SyncsOf(t) = {}
        BY <1>3, <2>1, <3>2 DEF SyncsOf
    <3> QED BY <3>1, <3>3 DEF SyncOwned, t
  <2>6. CASE ~SyncLapsed(s, now)
    <3>1. t.quota = s.quota
        BY <1>1, <2>6 DEF RecoveredQuota
    <3>2. r \in t.pendingReservations
        BY <1>1, <1>5, <2>1, <2>3, <2>4, <2>6 DEF SyncLapsed, Retained
    <3>3. r \in SyncsOf(t)
        BY <2>3, <3>2 DEF SyncsOf
    <3>4. SyncsOf(t) = {r}
        BY <1>3, <2>1, <3>3
    <3>5. DataOf(t.pendingReservations) \subseteq s.quota.captured
        BY <1>2, <2>2 DEF DataOf
    <3> QED BY <1>5, <2>1, <3>1, <3>3, <3>4, <3>5 DEF SyncOwned, t
  <2> QED BY <2>5, <2>6
<1> QED BY <1>4, <1>5

\* A data request is granted only between synchronizations.
LEMMA ReserveSync ==
    ASSUME NEW s, Readable(s), NEW e \in DataEndpoint, NEW token, NEW now \in Int, SyncOwned(s),
           AdmissionDecision(s, e, token, now) = "reserved"
    PROVE  SyncOwned(Reserve(s, e, token, now))
<1> DEFINE t == Reserve(s, e, token, now)
<1>1. QuotaDecision(s.quota, e, now) = "reserved"
    BY DEF AdmissionDecision
<1>2. /\ s.quota.kind \in {"confirmed", "sync_backoff"}
      /\ DecrementQuota(s.quota, e).kind = s.quota.kind
    BY <1>1, GrantedType DEF Readable, BudgetState
<1>3. t.quota.kind \in {"confirmed", "sync_backoff"}
    BY <1>2 DEF Reserve
<1>4. t.pendingReservations = s.pendingReservations \cup {DataLease(e, token, now)}
    BY DEF Reserve
<1>5. DataLease(e, token, now).kind = "data"
    BY DEF DataLease
<1> HIDE DEF t
<1>6. SyncsOf(t) = SyncsOf(s)
    BY <1>4, <1>5 DEF SyncsOf
<1>7. SyncsOf(s) = {}
    BY <1>2 DEF SyncOwned
<1> QED BY <1>3, <1>6, <1>7 DEF SyncOwned, t

LEMMA StartOwns ==
    ASSUME NEW s, NEW token, NEW now \in Int, SyncOwned(s), s.quota.kind # "sync_in_progress"
    PROVE  /\ SyncOwned(StartSync(s, token, now))
           /\ DataOf(StartSync(s, token, now).pendingReservations) = DataOf(s.pendingReservations)
<1> DEFINE t == StartSync(s, token, now)
           lease == [kind |-> "quota_sync", leaseExpiresAt |-> now + Lease, token |-> token]
<1>1. /\ t.pendingReservations = s.pendingReservations \cup {lease}
      /\ t.quota.kind = "sync_in_progress"
      /\ t.quota.captured = DataOf(s.pendingReservations)
      /\ t.quota.token = token
      /\ t.quota.leaseExpiresAt = now + Lease
    BY DEF StartSync
<1>2. /\ lease.kind = "quota_sync"
      /\ lease.token = token
      /\ lease.leaseExpiresAt = now + Lease
    OBVIOUS
<1> HIDE DEF t, lease
<1>3. SyncsOf(s) = {}
    BY DEF SyncOwned
<1>4. SyncsOf(t) = {lease}
    BY <1>1, <1>2, <1>3 DEF SyncsOf
<1>5. DataOf(t.pendingReservations) = DataOf(s.pendingReservations)
    BY <1>1, <1>2 DEF DataOf
<1>6. SyncOwned(t)
    BY <1>1, <1>2, <1>4, <1>5 DEF SyncOwned
<1> QED BY <1>5, <1>6 DEF t

LEMMA EndReleases ==
    ASSUME NEW s, NEW token, NEW quota, SyncOwned(s), OwnsSync(s, token),
           quota.kind # "sync_in_progress"
    PROVE  /\ SyncOwned(EndSync(s, token, quota))
           /\ DataOf(EndSync(s, token, quota).pendingReservations) = DataOf(s.pendingReservations)
           /\ EndSync(s, token, quota).circuits = s.circuits
           /\ EndSync(s, token, quota).pendingReservations \subseteq s.pendingReservations
<1> DEFINE t == EndSync(s, token, quota)
<1>1. /\ t.pendingReservations =
            s.pendingReservations \ SyncReservationOf(s.pendingReservations, token)
      /\ t.quota = quota
      /\ t.circuits = s.circuits
    BY DEF EndSync
<1> HIDE DEF t
<1>2. PICK r \in SyncsOf(s) : SyncsOf(s) = {r} /\ r.token = token
    BY DEF SyncOwned, OwnsSync
<1>3. SyncsOf(t) = {}
    BY <1>1, <1>2 DEF SyncsOf, SyncReservationOf
<1>4. DataOf(t.pendingReservations) = DataOf(s.pendingReservations)
    BY <1>1 DEF DataOf, SyncReservationOf
<1>5. SyncOwned(t)
    BY <1>1, <1>3 DEF SyncOwned
<1> QED BY <1>1, <1>4, <1>5 DEF t

LEMMA CompleteSync ==
    ASSUME NEW s, NEW e \in DataEndpoint, NEW token, NEW circuit, NEW quota, SyncOwned(s),
           \/ quota = s.quota
           \/ s.quota.kind # "sync_in_progress" /\ quota.kind # "sync_in_progress"
           \/ /\ s.quota.kind = "sync_in_progress" /\ quota.kind = "sync_in_progress"
              /\ quota.token = s.quota.token
              /\ quota.leaseExpiresAt = s.quota.leaseExpiresAt
              /\ quota.captured = s.quota.captured
    PROVE  SyncOwned(Complete(s, e, token, circuit, quota))
<1> DEFINE t == Complete(s, e, token, circuit, quota)
<1>1. /\ t.pendingReservations = s.pendingReservations \ ReservationOf(s, e, token)
      /\ t.quota = quota
    BY DEF Complete
<1> HIDE DEF t
<1>2. SyncsOf(t) = SyncsOf(s)
    BY <1>1 DEF SyncsOf, ReservationOf, OfEndpoint
<1>3. DataOf(t.pendingReservations) \subseteq DataOf(s.pendingReservations)
    BY <1>1 DEF DataOf
<1>4. SyncOwned(t)
    BY <1>1, <1>2, <1>3 DEF SyncOwned
<1> QED BY <1>4 DEF t

LEMMA OutcomeSync ==
    ASSUME NEW s, Readable(s), NEW e \in DataEndpoint, NEW token, NEW retryAt, NEW now, SyncOwned(s),
           NEW outcome \in {"success", "rate_limited"} \cup FailureOutcome \cup NeutralOutcome
    PROVE  SyncOwned(OutcomeRecorded(s, e, token, outcome, retryAt, now))
<1>1. \A circuit : SyncOwned(Complete(s, e, token, circuit, s.quota))
    BY CompleteSync
<1> DEFINE quota == RateLimitedQuota(s.quota, retryAt)
<1>2. CASE s.quota.kind = "sync_in_progress"
  <2>1. s.quota \in SyncState
      BY <1>2, QuotaByKind DEF Readable, BudgetState
  <2>2. /\ quota.kind = "sync_in_progress"
        /\ quota.token = s.quota.token
        /\ quota.leaseExpiresAt = s.quota.leaseExpiresAt
        /\ quota.captured = s.quota.captured
      BY <1>2, <2>1 DEF RateLimitedQuota, SyncState
  <2> HIDE DEF quota
  <2>3. \A circuit : SyncOwned(Complete(s, e, token, circuit, quota))
      BY <1>2, <2>2, CompleteSync
  <2> QED BY <1>1, <2>3 DEF OutcomeRecorded, FailureOutcome, NeutralOutcome, quota
<1>3. CASE s.quota.kind # "sync_in_progress"
  <2>1. quota.kind # "sync_in_progress"
      BY <1>3 DEF RateLimitedQuota, Limited
  <2> HIDE DEF quota
  <2>2. \A circuit : SyncOwned(Complete(s, e, token, circuit, quota))
      BY <1>3, <2>1, CompleteSync
  <2> QED BY <1>1, <2>2 DEF OutcomeRecorded, FailureOutcome, NeutralOutcome, quota
<1> QED BY <1>2, <1>3

-----------------------------------------------------------------------------
(* Where the deadline of the last 429 is kept                              *)

DeadlineKept(q, deadline, bound) ==
    /\ q.kind \in {"unknown", "confirmed", "sync_backoff"} => deadline <= bound
    /\ q.kind = "rate_limited" => q.retryAt = deadline
    /\ q.kind = "sync_in_progress" =>
          IF q.rateLimit = Null THEN deadline <= bound ELSE q.rateLimit.retryAt = deadline

LEMMA RecoverDeadline ==
    ASSUME NEW s, NEW now, NEW deadline, NEW bound, DeadlineKept(s.quota, deadline, bound)
    PROVE  DeadlineKept(RecoverExpiredLeases(s, now).quota, deadline, bound)
<1>1. RecoverExpiredLeases(s, now).quota = RecoveredQuota(s, now)
    BY DEF RecoverExpiredLeases
<1>2. DeadlineKept(RecoveredQuota(s, now), deadline, bound)
    BY DEF DeadlineKept, RecoveredQuota, SyncLapsed, Backoff, Limited
<1> QED BY <1>1, <1>2

LEMMA StartDeadline ==
    ASSUME NEW s, Readable(s), NEW token, NEW now \in Int, NEW deadline \in Int,
           NEW bound \in Int, now <= bound,
           DeadlineKept(s.quota, deadline, bound), SyncDecision(s, now) = "started"
    PROVE  DeadlineKept(StartSync(s, token, now).quota, deadline, bound)
<1> DEFINE q == StartSync(s, token, now).quota
           charged == ChargedPrior(PriorQuota(s.quota), now)
<1>1. q.kind = "sync_in_progress" /\ q.rateLimit = CarriedRateLimit(s.quota, charged)
    BY DEF StartSync
<1>2. SyncDue(s.quota, now) /\ s.quota.kind # "sync_in_progress" /\ s.quota \in QuotaState
    BY DEF SyncDecision, Readable, BudgetState
<1> HIDE DEF q, charged
<1>3. CASE s.quota.kind # "rate_limited"
  <2>1. s.quota.kind \in {"unknown", "confirmed", "sync_backoff"}
      BY <1>2, <1>3, QuotaByKind
  <2>2. q.rateLimit = Null
      BY <1>1, <1>3 DEF CarriedRateLimit
  <2> QED BY <1>1, <2>1, <2>2 DEF DeadlineKept, q
<1>4. CASE s.quota.kind = "rate_limited" /\ ~s.quota.immediateSyncRequired
  <2>1. now >= s.quota.retryAt
      BY <1>2, <1>4 DEF SyncDue
  <2>2. deadline <= bound
      BY <1>4, <2>1 DEF DeadlineKept
  <2>3. q.rateLimit = Null
      BY <1>1, <1>4 DEF CarriedRateLimit
  <2> QED BY <1>1, <2>2, <2>3 DEF DeadlineKept, q
<1>5. CASE s.quota.kind = "rate_limited" /\ s.quota.immediateSyncRequired
  <2>1. q.rateLimit = [prior |-> charged, retryAt |-> s.quota.retryAt]
      BY <1>1, <1>5 DEF CarriedRateLimit
  <2>2. s.quota.retryAt = deadline
      BY <1>5 DEF DeadlineKept
  <2>3. charged \in ConfirmedQuota \cup {Null}
    <3>1. ~ApiUsageExhausted(PriorQuota(s.quota), now)
        BY DEF SyncDecision
    <3> QED BY <1>2, <3>1, ChargedType DEF charged
  <2>4. [prior |-> charged, retryAt |-> s.quota.retryAt] # Null
      BY <2>2, <2>3, BudgetAssumption DEF RateLimit
  <2> QED BY <1>1, <2>1, <2>2, <2>4 DEF DeadlineKept, q
<1> QED BY <1>3, <1>4, <1>5

\* The end of a synchronization keeps the deadline it carried.
LEMMA SyncEndsDeadline ==
    ASSUME NEW s, NEW token, NEW windows, NEW now, NEW deadline, NEW bound,
           OwnsSync(s, token), DeadlineKept(s.quota, deadline, bound)
    PROVE  /\ DeadlineKept(SyncRecorded(s, token, windows, now).quota, deadline, bound)
           /\ DeadlineKept(SyncFailed(s, token, now).quota, deadline, bound)
BY DEF DeadlineKept, OwnsSync, SyncRecorded, SyncFailed, EndSync, Backoff, Limited

\* A 429 replaces the deadline wherever it is kept.
LEMMA RateLimitedDeadline ==
    ASSUME NEW q \in QuotaState, NEW retryAt \in Int, NEW bound
    PROVE  DeadlineKept(RateLimitedQuota(q, retryAt), retryAt, bound)
<1>1. CASE q.kind = "sync_in_progress"
  <2>1. q \in SyncState
      BY <1>1, QuotaByKind
  <2>2. [prior |-> q.prior, retryAt |-> retryAt] \in RateLimit
      BY <2>1 DEF SyncState, RateLimit
  <2>3. [prior |-> q.prior, retryAt |-> retryAt] # Null
      BY <2>2, BudgetAssumption
  <2>4. RateLimitedQuota(q, retryAt) =
          [q EXCEPT !.rateLimit = [prior |-> q.prior, retryAt |-> retryAt]]
      BY <1>1 DEF RateLimitedQuota
  <2>5. /\ RateLimitedQuota(q, retryAt).kind = "sync_in_progress"
        /\ RateLimitedQuota(q, retryAt).rateLimit = [prior |-> q.prior, retryAt |-> retryAt]
      BY <1>1, <2>1, <2>4 DEF SyncState
  <2> QED BY <2>3, <2>5 DEF DeadlineKept
<1>2. CASE q.kind # "sync_in_progress"
    BY <1>2 DEF RateLimitedQuota, Limited, DeadlineKept
<1> QED BY <1>1, <1>2

-----------------------------------------------------------------------------
(* The inductive invariant                                                 *)

\* IInv, with its parts as predicates of the row.
LEMMA InvariantOfBudget ==
    IInv <=> /\ TypeOK
             /\ LeasesUpTo(budget, clock + Ahead + Lease)
             /\ CircuitsSafe(budget)
             /\ SyncOwned(budget)
             /\ DeadlineKept(budget.quota, lastRetryAt, clock + Ahead)
BY DEF IInv, LeasesBounded, OpenDrains, SingleProbe, SyncExclusive, RateLimitTracked, Pending,
       SyncReservations, LeasesUpTo, CircuitsSafe, SyncOwned, SyncsOf, DeadlineKept

LEMMA InvariantOfBudgetNext ==
    IInv' <=> /\ TypeOK'
              /\ LeasesUpTo(budget', clock' + Ahead + Lease)
              /\ CircuitsSafe(budget')
              /\ SyncOwned(budget')
              /\ DeadlineKept(budget'.quota, lastRetryAt', clock' + Ahead)
BY DEF IInv, LeasesBounded, OpenDrains, SingleProbe, SyncExclusive, RateLimitTracked, Pending,
       SyncReservations, LeasesUpTo, CircuitsSafe, SyncOwned, SyncsOf, DeadlineKept

\* What every call starts from: the recovered budget has every part of the
\* invariant, and every reservation it still holds is live.
LEMMA RecoveredSafe ==
    ASSUME IInv, NEW now \in Stamps
    PROVE  LET s == RecoverExpiredLeases(budget, now) IN
           /\ now \in Int /\ now <= clock + Ahead
           /\ Readable(s)
           /\ LeasesUpTo(s, clock + Ahead + Lease)
           /\ LeasesUpTo(s, now + FirstOpen)
           /\ \A r \in s.pendingReservations : now < r.leaseExpiresAt
           /\ CircuitsSafe(s)
           /\ SyncOwned(s)
           /\ DeadlineKept(s.quota, lastRetryAt, clock + Ahead)
<1> DEFINE s == RecoverExpiredLeases(budget, now)
<1>1. /\ TypeOK
      /\ LeasesUpTo(budget, clock + Ahead + Lease)
      /\ CircuitsSafe(budget)
      /\ SyncOwned(budget)
      /\ DeadlineKept(budget.quota, lastRetryAt, clock + Ahead)
    BY InvariantOfBudget
<1>2. /\ Readable(budget) /\ clock \in Nat
      /\ now \in Int /\ clock - Behind <= now /\ now <= clock + Ahead
    BY <1>1, StampsAreTimes DEF TypeOK
<1>3. Readable(s)
    BY <1>2, RecoverType
<1>4. LeasesUpTo(budget, now + FirstOpen)
  <2>1. \A r \in budget.pendingReservations : r.leaseExpiresAt \in Int
      BY <1>2 DEF Readable, BudgetState, Reservation, DataReservation, SyncReservation
  <2>2. clock + Ahead + Lease <= now + FirstOpen
      BY <1>2, TimingAssumption, BudgetAssumption
  <2> QED BY <1>1, <1>2, <2>1, <2>2, TimingAssumption, BudgetAssumption DEF LeasesUpTo
<1>5. /\ CircuitsSafe(s)
      /\ LeasesUpTo(s, now + FirstOpen)
      /\ s.pendingReservations \subseteq budget.pendingReservations
      /\ \A r \in s.pendingReservations : now < r.leaseExpiresAt
    BY <1>1, <1>2, <1>4, RecoverCircuits
<1>6. SyncOwned(s) /\ DeadlineKept(s.quota, lastRetryAt, clock + Ahead)
    BY <1>1, <1>2, RecoverSync, RecoverDeadline
<1> HIDE DEF s
<1>7. LeasesUpTo(s, clock + Ahead + Lease)
    BY <1>1, <1>5 DEF LeasesUpTo
<1> QED BY <1>2, <1>3, <1>5, <1>6, <1>7 DEF s

\* Every call preserves the invariant.
LEMMA CallKeepsInvariant ==
    ASSUME IInv, NEW now \in Stamps, Call(now)
    PROVE  IInv'
<1> DEFINE s == RecoverExpiredLeases(budget, now)
           bound == clock + Ahead + Lease
           Kept(t) == LeasesUpTo(t, bound) /\ CircuitsSafe(t) /\ SyncOwned(t)
<1>1. /\ now \in Int /\ now <= clock + Ahead
      /\ Readable(s)
      /\ LeasesUpTo(s, bound)
      /\ LeasesUpTo(s, now + FirstOpen)
      /\ \A r \in s.pendingReservations : now < r.leaseExpiresAt
      /\ CircuitsSafe(s)
      /\ SyncOwned(s)
      /\ DeadlineKept(s.quota, lastRetryAt, clock + Ahead)
    BY RecoveredSafe
<1>2. TypeOK /\ TypeOK'
    BY CallKeepsType DEF IInv
<1>3. now + Lease <= bound
    BY <1>1, <1>2, TimingAssumption, BudgetAssumption DEF TypeOK
<1>4. clock + Ahead \in Int /\ lastRetryAt \in Int /\ s.quota \in QuotaState
    BY <1>1, <1>2, TimingAssumption DEF TypeOK, Readable, BudgetState
<1> HIDE DEF s, bound
<1>5. SUFFICES /\ clock' = clock
               /\ Kept(budget')
               /\ DeadlineKept(budget'.quota, lastRetryAt', clock + Ahead)
    BY <1>2, InvariantOfBudgetNext DEF bound
<1>6. Kept(s)
    BY <1>1
<1>7. PICK token \in Token :
        \/ BeginQuotaSync(token, now)
        \/ FailQuotaSync(token, now)
        \/ \E report \in UsageReports : RecordQuotaSync(token, ReportedWindows(report), now)
        \/ \E delay \in RetryAfters : RecordQuotaSyncRateLimited(token, delay, now)
        \/ \E e \in DataEndpoint :
              \/ Admit(e, token, now)
              \/ \E outcome \in Outcomes : RecordOutcome(e, token, outcome, now)
              \/ \E delay \in RetryAfters : RecordRateLimit(e, token, delay, now)
    BY DEF Call
<1>8. ASSUME NEW quota, OwnsSync(s, token), quota.kind # "sync_in_progress"
      PROVE  Kept(EndSync(s, token, quota))
  <2> DEFINE t == EndSync(s, token, quota)
  <2>1. /\ SyncOwned(t)
        /\ DataOf(t.pendingReservations) = DataOf(s.pendingReservations)
        /\ t.circuits = s.circuits
        /\ t.pendingReservations \subseteq s.pendingReservations
      BY <1>1, <1>8, EndReleases
  <2> HIDE DEF t
  <2>2. CircuitsSafe(t)
      BY <1>1, <2>1, SyncKeepsCircuits
  <2>3. LeasesUpTo(t, bound)
      BY <1>1, <2>1 DEF LeasesUpTo
  <2> QED BY <2>1, <2>2, <2>3 DEF t
<1>9. ASSUME NEW e \in DataEndpoint, NEW retryAt,
             NEW outcome \in {"success", "rate_limited"} \cup FailureOutcome \cup NeutralOutcome
      PROVE  Kept(OutcomeRecorded(s, e, token, outcome, retryAt, now))
  <2>1. CircuitsSafe(OutcomeRecorded(s, e, token, outcome, retryAt, now))
      BY <1>1, OutcomeCircuits
  <2>2. SyncOwned(OutcomeRecorded(s, e, token, outcome, retryAt, now))
      BY <1>1, OutcomeSync
  <2>3. OutcomeRecorded(s, e, token, outcome, retryAt, now).pendingReservations
          \subseteq s.pendingReservations
      BY DEF OutcomeRecorded, Complete, FailureOutcome, NeutralOutcome
  <2> QED BY <1>1, <2>1, <2>2, <2>3 DEF LeasesUpTo
<1>10. CASE BeginQuotaSync(token, now)
  <2>1. /\ budget' = IF SyncDecision(s, now) = "started" THEN StartSync(s, token, now) ELSE s
        /\ UNCHANGED <<clock, lastRetryAt>>
      BY <1>10 DEF BeginQuotaSync, s
  <2>2. CASE SyncDecision(s, now) = "started"
    <3> DEFINE t == StartSync(s, token, now)
    <3>1. s.quota.kind # "sync_in_progress"
        BY <2>2 DEF SyncDecision
    <3>2. SyncOwned(t) /\ DataOf(t.pendingReservations) = DataOf(s.pendingReservations)
        BY <1>1, <3>1, StartOwns
    <3>3. t.circuits = s.circuits
        BY DEF StartSync
    <3>4. LeasesUpTo(t, bound)
        BY <1>1, <1>3 DEF LeasesUpTo, StartSync
    <3>5. DeadlineKept(t.quota, lastRetryAt, clock + Ahead)
        BY <1>1, <1>4, <2>2, StartDeadline
    <3> HIDE DEF t
    <3>6. CircuitsSafe(t)
        BY <1>1, <3>2, <3>3, SyncKeepsCircuits
    <3> QED BY <2>1, <2>2, <3>2, <3>4, <3>5, <3>6 DEF t
  <2> QED BY <1>1, <1>6, <2>1, <2>2
<1>11. CASE FailQuotaSync(token, now)
  <2>1. /\ budget' = IF OwnsSync(s, token) THEN SyncFailed(s, token, now) ELSE s
        /\ UNCHANGED <<clock, lastRetryAt>>
      BY <1>11 DEF FailQuotaSync, s
  <2>2. CASE OwnsSync(s, token)
    <3>1. Kept(SyncFailed(s, token, now))
        BY <1>8, <2>2 DEF SyncFailed, Backoff, Limited
    <3> QED BY <1>1, <2>1, <2>2, <3>1, SyncEndsDeadline
  <2> QED BY <1>1, <1>6, <2>1, <2>2
<1>12. ASSUME NEW report \in UsageReports, RecordQuotaSync(token, ReportedWindows(report), now)
       PROVE  /\ clock' = clock /\ Kept(budget')
              /\ DeadlineKept(budget'.quota, lastRetryAt', clock + Ahead)
  <2> DEFINE windows == ReportedWindows(report)
  <2>1. /\ budget' = IF OwnsSync(s, token) THEN SyncRecorded(s, token, windows, now) ELSE s
        /\ UNCHANGED <<clock, lastRetryAt>>
      BY <1>12 DEF RecordQuotaSync, s
  <2> HIDE DEF windows
  <2>2. CASE OwnsSync(s, token)
    <3>1. Kept(SyncRecorded(s, token, windows, now))
        BY <1>8, <2>2 DEF SyncRecorded, Limited
    <3> QED BY <1>1, <2>1, <2>2, <3>1, SyncEndsDeadline
  <2> QED BY <1>1, <1>6, <2>1, <2>2
<1>13. ASSUME NEW delay \in RetryAfters, RecordQuotaSyncRateLimited(token, delay, now)
       PROVE  /\ clock' = clock /\ Kept(budget')
              /\ DeadlineKept(budget'.quota, lastRetryAt', clock + Ahead)
  <2>1. /\ budget' = IF OwnsSync(s, token) THEN SyncRateLimited(s, token, now + delay) ELSE s
        /\ lastRetryAt' = IF OwnsSync(s, token) THEN now + delay ELSE lastRetryAt
        /\ clock' = clock
      BY <1>13 DEF RecordQuotaSyncRateLimited, s
  <2>2. CASE OwnsSync(s, token)
    <3>1. Kept(SyncRateLimited(s, token, now + delay))
        BY <1>8, <2>2 DEF SyncRateLimited, Limited
    <3>2. DeadlineKept(SyncRateLimited(s, token, now + delay).quota, now + delay, clock + Ahead)
        BY DEF SyncRateLimited, EndSync, Limited, DeadlineKept
    <3> QED BY <2>1, <2>2, <3>1, <3>2
  <2> QED BY <1>1, <1>6, <2>1, <2>2
<1>14. ASSUME NEW e \in DataEndpoint, Admit(e, token, now)
       PROVE  /\ clock' = clock /\ Kept(budget')
              /\ DeadlineKept(budget'.quota, lastRetryAt', clock + Ahead)
  <2>1. /\ budget' = IF AdmissionDecision(s, e, token, now) = "reserved"
                     THEN Reserve(s, e, token, now) ELSE s
        /\ UNCHANGED <<clock, lastRetryAt>>
      BY <1>14 DEF Admit, s
  <2>2. CASE AdmissionDecision(s, e, token, now) = "reserved"
    <3>1. CircuitsSafe(Reserve(s, e, token, now)) /\ SyncOwned(Reserve(s, e, token, now))
        BY <1>1, <2>2, ReserveCircuits, ReserveSync
    <3>2. LeasesUpTo(Reserve(s, e, token, now), bound)
        BY <1>1, <1>3 DEF LeasesUpTo, Reserve, DataLease
    <3>3. /\ s.quota.kind \in {"confirmed", "sync_backoff"}
          /\ DecrementQuota(s.quota, e).kind = s.quota.kind
        BY <1>1, <1>4, <2>2, GrantedType DEF AdmissionDecision
    <3>4. DeadlineKept(Reserve(s, e, token, now).quota, lastRetryAt, clock + Ahead)
        BY <1>1, <3>3 DEF Reserve, DeadlineKept
    <3> QED BY <2>1, <2>2, <3>1, <3>2, <3>4
  <2> QED BY <1>1, <1>6, <2>1, <2>2
<1>15. ASSUME NEW e \in DataEndpoint, NEW outcome \in Outcomes,
              RecordOutcome(e, token, outcome, now)
       PROVE  /\ clock' = clock /\ Kept(budget')
              /\ DeadlineKept(budget'.quota, lastRetryAt', clock + Ahead)
  <2>1. /\ budget' = IF ReservationOf(s, e, token) # {}
                     THEN OutcomeRecorded(s, e, token, outcome, now, now) ELSE s
        /\ UNCHANGED <<clock, lastRetryAt>>
      BY <1>15 DEF RecordOutcome, s
  <2>2. outcome \in {"success"} \cup FailureOutcome \cup NeutralOutcome
      BY TimingAssumption
  <2>3. OutcomeRecorded(s, e, token, outcome, now, now).quota = s.quota
      BY <2>2 DEF OutcomeRecorded, Complete, FailureOutcome, NeutralOutcome
  <2> QED BY <1>1, <1>6, <1>9, <2>1, <2>2, <2>3
<1>16. ASSUME NEW e \in DataEndpoint, NEW delay \in RetryAfters,
              RecordRateLimit(e, token, delay, now)
       PROVE  /\ clock' = clock /\ Kept(budget')
              /\ DeadlineKept(budget'.quota, lastRetryAt', clock + Ahead)
  <2> DEFINE known == ReservationOf(s, e, token) # {}
  <2>1. /\ budget' = IF known
                     THEN OutcomeRecorded(s, e, token, "rate_limited", now + delay, now) ELSE s
        /\ lastRetryAt' = IF known THEN now + delay ELSE lastRetryAt
        /\ clock' = clock
      BY <1>16 DEF RecordRateLimit, s
  <2> HIDE DEF known
  <2>2. now + delay \in Int
      BY <1>1, TimingAssumption
  <2>3. OutcomeRecorded(s, e, token, "rate_limited", now + delay, now).quota =
          RateLimitedQuota(s.quota, now + delay)
      BY DEF OutcomeRecorded, Complete, FailureOutcome, NeutralOutcome
  <2>4. DeadlineKept(RateLimitedQuota(s.quota, now + delay), now + delay, clock + Ahead)
      BY <1>4, <2>2, RateLimitedDeadline
  <2> QED BY <1>1, <1>6, <1>9, <2>1, <2>3, <2>4
<1> QED BY <1>7, <1>10, <1>11, <1>12, <1>13, <1>14, <1>15, <1>16

\* Time passing preserves the invariant.
LEMMA TickKeepsInvariant ==
    ASSUME IInv, Tick
    PROVE  IInv'
<1>1. /\ budget' = budget /\ clock' = clock + 1 /\ lastRetryAt' = lastRetryAt
      /\ clock \in Nat /\ Readable(budget) /\ lastRetryAt \in Int
    BY DEF Tick, IInv, TypeOK
<1>2. LeasesUpTo(budget', clock' + Ahead + Lease)
  <2>1. \A r \in budget.pendingReservations : r.leaseExpiresAt \in Int
      BY <1>1 DEF Readable, BudgetState, Reservation, DataReservation, SyncReservation
  <2> QED BY <1>1, <2>1, InvariantOfBudget, TimingAssumption, BudgetAssumption DEF LeasesUpTo
<1>3. DeadlineKept(budget'.quota, lastRetryAt', clock' + Ahead)
  <2>1. DeadlineKept(budget.quota, lastRetryAt, clock + Ahead)
      BY InvariantOfBudget
  <2>2. lastRetryAt <= clock + Ahead => lastRetryAt <= clock + 1 + Ahead
      BY <1>1, TimingAssumption
  <2> QED BY <1>1, <2>1, <2>2 DEF DeadlineKept
<1> QED BY <1>1, <1>2, <1>3, InvariantOfBudget, InvariantOfBudgetNext, TickKeepsType

LEMMA InitInvariant == Init => IInv
<1> SUFFICES ASSUME Init PROVE IInv
    OBVIOUS
<1>1. /\ budget.pendingReservations = {}
      /\ budget.quota.kind = "unknown"
      /\ \A e \in DataEndpoint : budget.circuits[e].kind = "closed"
      /\ clock = 0 /\ lastRetryAt = 0
    BY DEF Init, InitialBudget
<1> QED BY <1>1, InitType, InvariantOfBudget, TimingAssumption
        DEF LeasesUpTo, CircuitsSafe, SyncOwned, SyncsOf, DeadlineKept

\* The invariant behind the safety theorems.
THEOREM CoordinatorInvariant == Spec => []IInv
<1>1. Init => IInv
    BY InitInvariant
<1>2. IInv /\ [Next]_vars => IInv'
  <2> SUFFICES ASSUME IInv, [Next]_vars PROVE IInv'
      OBVIOUS
  <2>1. CASE Next
      BY <2>1, CallKeepsInvariant, TickKeepsInvariant DEF Next
  <2>2. CASE UNCHANGED vars
      BY <2>2 DEF vars, IInv, TypeOK, LeasesBounded, OpenDrains, SingleProbe, SyncExclusive,
                  RateLimitTracked, Pending, SyncReservations
  <2> QED BY <2>1, <2>2
<1> QED BY <1>1, <1>2, PTL DEF Spec

\* A half-open circuit has exactly its probe in flight: a verdict, a lease
\* expiry or a late outcome of an older request never decides the probe.
THEOREM OneProbeAtATime == Spec => []SingleProbe
<1>1. IInv => SingleProbe
    BY DEF IInv
<1> QED BY <1>1, CoordinatorInvariant, PTL

\* When an open circuit may be probed, every older request has run out.
THEOREM OpenCircuitsDrain == Spec => []OpenDrains
<1>1. IInv => OpenDrains
    BY DEF IInv
<1> QED BY <1>1, CoordinatorInvariant, PTL

\* At most one worker asks for usage, under the lease the quota names, and
\* its answer will be corrected by every data request still in flight.
THEOREM OneSynchronization == Spec => []SyncExclusive
<1>1. IInv => SyncExclusive
    BY DEF IInv
<1> QED BY <1>1, CoordinatorInvariant, PTL

\* No data request is granted before the deadline of the 429 recorded last.
THEOREM RateLimitIsHonoured == Spec => RateLimitHonoured
<1>1. IInv /\ [Next]_vars =>
        [DataOf(Pending') \subseteq DataOf(Pending) \/ clock + Ahead >= lastRetryAt]_vars
  <2> SUFFICES ASSUME IInv, Next
               PROVE  DataOf(Pending') \subseteq DataOf(Pending) \/ clock + Ahead >= lastRetryAt
      OBVIOUS
  <2>1. clock \in Nat /\ lastRetryAt \in Int
      BY DEF IInv, TypeOK
  <2>2. CASE Tick
      BY <2>2 DEF Tick, Pending
  <2>3. ASSUME NEW now \in Stamps, Call(now)
        PROVE  DataOf(Pending') \subseteq DataOf(Pending) \/ clock + Ahead >= lastRetryAt
    <3> DEFINE s == RecoverExpiredLeases(budget, now)
    <3>1. /\ now \in Int /\ Readable(s) /\ SyncOwned(s)
          /\ DeadlineKept(s.quota, lastRetryAt, clock + Ahead)
        BY RecoveredSafe
    <3>2. s.pendingReservations \subseteq Pending
        BY DEF RecoverExpiredLeases, Retained, Pending
    <3> HIDE DEF s
    <3>3. DataOf(s.pendingReservations) \subseteq DataOf(Pending)
        BY <3>2 DEF DataOf
    <3>4. SUFFICES \/ DataOf(budget'.pendingReservations) \subseteq DataOf(s.pendingReservations)
                   \/ lastRetryAt <= clock + Ahead
        BY <2>1, <3>3, TimingAssumption DEF Pending
    <3>5. PICK token \in Token :
            \/ BeginQuotaSync(token, now)
            \/ FailQuotaSync(token, now)
            \/ \E report \in UsageReports : RecordQuotaSync(token, ReportedWindows(report), now)
            \/ \E delay \in RetryAfters : RecordQuotaSyncRateLimited(token, delay, now)
            \/ \E e \in DataEndpoint :
                  \/ Admit(e, token, now)
                  \/ \E outcome \in Outcomes : RecordOutcome(e, token, outcome, now)
                  \/ \E delay \in RetryAfters : RecordRateLimit(e, token, delay, now)
        BY <2>3 DEF Call
    <3>6. CASE BeginQuotaSync(token, now)
        BY <3>6 DEF BeginQuotaSync, s, StartSync, DataOf
    <3>7. CASE FailQuotaSync(token, now)
        BY <3>7 DEF FailQuotaSync, s, SyncFailed, EndSync, DataOf
    <3>8. CASE \E report \in UsageReports : RecordQuotaSync(token, ReportedWindows(report), now)
        BY <3>8 DEF RecordQuotaSync, s, SyncRecorded, EndSync, DataOf
    <3>9. CASE \E delay \in RetryAfters : RecordQuotaSyncRateLimited(token, delay, now)
        BY <3>9 DEF RecordQuotaSyncRateLimited, s, SyncRateLimited, EndSync, DataOf
    <3>10. CASE \E e \in DataEndpoint : Admit(e, token, now)
      <4>1. PICK e \in DataEndpoint : Admit(e, token, now)
          BY <3>10
      <4>2. CASE AdmissionDecision(s, e, token, now) = "reserved"
        <5>1. s.quota.kind \in {"confirmed", "sync_backoff"}
            BY <3>1, <4>2, GrantedType DEF AdmissionDecision, Readable, BudgetState
        <5> QED BY <3>1, <5>1 DEF DeadlineKept
      <4>3. CASE AdmissionDecision(s, e, token, now) # "reserved"
        <5>1. budget' = s
            BY <4>1, <4>3 DEF Admit, s
        <5> QED BY <5>1
      <4> QED BY <4>2, <4>3
    <3>11. ASSUME NEW e \in DataEndpoint, NEW outcome, NEW retryAt,
                  outcome \in {"success", "rate_limited"} \cup FailureOutcome \cup NeutralOutcome
           PROVE  DataOf(OutcomeRecorded(s, e, token, outcome, retryAt, now).pendingReservations)
                    \subseteq DataOf(s.pendingReservations)
        BY <3>11 DEF OutcomeRecorded, Complete, DataOf, FailureOutcome, NeutralOutcome
    <3>12. CASE \E e \in DataEndpoint, outcome \in Outcomes : RecordOutcome(e, token, outcome, now)
        BY <3>11, <3>12, TimingAssumption DEF RecordOutcome, s
    <3>13. CASE \E e \in DataEndpoint, delay \in RetryAfters : RecordRateLimit(e, token, delay, now)
        BY <3>11, <3>13 DEF RecordRateLimit, s
    <3> QED BY <3>5, <3>6, <3>7, <3>8, <3>9, <3>10, <3>12, <3>13
  <2> QED BY <2>2, <2>3 DEF Next
<1> QED BY <1>1, CoordinatorInvariant, PTL DEF Spec, RateLimitHonoured

-----------------------------------------------------------------------------
(* A stranded coordinator                                                  *)

\* A grant debits the allowance the quota stands for, and nothing else of it.
LEMMA GrantDebits ==
    ASSUME NEW s, Readable(s), NEW e \in DataEndpoint, NEW token, NEW now \in Int,
           AdmissionDecision(s, e, token, now) = "reserved"
    PROVE  LET q == Reserve(s, e, token, now).quota
               p == PriorQuota(s.quota)
           IN /\ s.quota.kind \in {"confirmed", "sync_backoff"} /\ q.kind = s.quota.kind
              /\ p # Null /\ p \in ConfirmedQuota
              /\ WindowDecision(p, e) = "reserved"
              /\ PriorQuota(q) = DebitQuota(p, WindowsFor(e))
<1> DEFINE q == Reserve(s, e, token, now).quota
           p == PriorQuota(s.quota)
<1>1. QuotaDecision(s.quota, e, now) = "reserved" /\ s.quota \in QuotaState
    BY DEF AdmissionDecision, Readable, BudgetState
<1>2. /\ s.quota.kind \in {"confirmed", "sync_backoff"}
      /\ DecrementQuota(s.quota, e).kind = s.quota.kind
    BY <1>1, GrantedType
<1>3. q = DecrementQuota(s.quota, e)
    BY DEF Reserve
<1>4. p # Null /\ p \in ConfirmedQuota /\ WindowDecision(p, e) = "reserved"
  <2>1. CASE s.quota.kind = "confirmed"
    <3>1. s.quota \in ConfirmedState /\ p = s.quota.value
        BY <1>1, <2>1, QuotaByKind DEF PriorQuota
    <3> QED BY <1>1, <2>1, <3>1, BudgetAssumption DEF ConfirmedState, QuotaDecision
  <2>2. CASE s.quota.kind = "sync_backoff"
    <3>1. p # Null /\ WindowDecision(p, e) = "reserved"
        BY <1>1, <2>2 DEF QuotaDecision, PriorQuota
    <3> QED BY <1>1, <3>1, PriorQuotaType
  <2> QED BY <1>2, <2>1, <2>2
<1>5. PriorQuota(q) = DebitQuota(p, WindowsFor(e))
  <2>1. CASE s.quota.kind = "confirmed"
    <3>1. s.quota \in ConfirmedState /\ p = s.quota.value
        BY <1>1, <2>1, QuotaByKind DEF PriorQuota
    <3>2. DecrementQuota(s.quota, e) = [s.quota EXCEPT !.value = DebitQuota(@, WindowsFor(e))]
        BY <2>1 DEF DecrementQuota
    <3>3. /\ DecrementQuota(s.quota, e).value = DebitQuota(p, WindowsFor(e))
          /\ DecrementQuota(s.quota, e).kind = "confirmed"
        BY <1>2, <2>1, <3>1, <3>2 DEF ConfirmedState
    <3> QED BY <1>3, <3>3 DEF PriorQuota
  <2>2. CASE s.quota.kind = "sync_backoff"
    <3>1. s.quota \in BackoffState /\ p = s.quota.prior
        BY <1>1, <2>2, QuotaByKind DEF PriorQuota
    <3>2. DecrementQuota(s.quota, e) =
            [s.quota EXCEPT !.prior = IF @ = Null THEN Null ELSE DebitQuota(@, WindowsFor(e))]
        BY <2>2 DEF DecrementQuota
    <3>3. /\ DecrementQuota(s.quota, e).prior = DebitQuota(p, WindowsFor(e))
          /\ DecrementQuota(s.quota, e).kind = "sync_backoff"
        BY <1>2, <1>4, <2>2, <3>1, <3>2 DEF BackoffState
    <3> QED BY <1>3, <3>3 DEF PriorQuota
  <2> QED BY <1>2, <2>1, <2>2
<1> QED BY <1>2, <1>3, <1>4, <1>5

\* What it is of a quota that strands the coordinator.
StrandedQuota(q) ==
    /\ q.kind \in {"confirmed", "sync_backoff", "rate_limited"}
    /\ PriorQuota(q) # Null
    /\ \E w \in ApiUsage : PriorQuota(q).windows[w] = [remaining |-> 0, resetAt |-> Null]

LEMMA StrandedIsExhausted ==
    ASSUME NEW s, NEW now, StrandedQuota(s.quota)
    PROVE  SyncDecision(s, now) # "started"
<1>1. PICK w \in ApiUsage : PriorQuota(s.quota).windows[w] = [remaining |-> 0, resetAt |-> Null]
    BY DEF StrandedQuota
<1>2. NormalizeApiUsage(PriorQuota(s.quota).windows, now)[w] = [remaining |-> 0, resetAt |-> Null]
    BY <1>1 DEF NormalizeApiUsage, NormalizeWindow, ApiUsage
<1>3. ApiUsageExhausted(PriorQuota(s.quota), now)
    BY <1>2 DEF ApiUsageExhausted, StrandedQuota
<1> QED BY <1>3 DEF SyncDecision

\* Data requests are not counted in the usage windows.
LEMMA GrantLeavesStranded ==
    ASSUME NEW s, Readable(s), NEW e \in DataEndpoint, NEW token \in Token, NEW now \in Int,
           AdmissionDecision(s, e, token, now) = "reserved", StrandedQuota(s.quota)
    PROVE  StrandedQuota(Reserve(s, e, token, now).quota)
<1> DEFINE q == Reserve(s, e, token, now).quota
           p == PriorQuota(s.quota)
<1>1. /\ s.quota.kind \in {"confirmed", "sync_backoff"} /\ q.kind = s.quota.kind
      /\ p # Null /\ p \in ConfirmedQuota
      /\ WindowDecision(p, e) = "reserved"
      /\ PriorQuota(q) = DebitQuota(p, WindowsFor(e))
    BY GrantDebits
<1>2. PICK w \in ApiUsage : p.windows[w] = [remaining |-> 0, resetAt |-> Null]
    BY DEF StrandedQuota
<1>3. w \in Window /\ w \notin WindowsFor(e)
    BY DEF ApiUsage, WindowsFor, ScopesFor
<1>4. PriorQuota(q).windows[w] = p.windows[w]
    BY <1>1, <1>3 DEF DebitQuota, DebitWindows, ConfirmedQuota
<1>5. PriorQuota(q) # Null
  <2>1. Readable(Reserve(s, e, token, now))
      BY ReserveType
  <2>2. PriorQuota(q) = [confirmedAt |-> p.confirmedAt, windows |-> DebitWindows(p.windows, WindowsFor(e))]
      BY <1>1 DEF DebitQuota, ConfirmedQuota
  <2>3. DebitWindows(p.windows, WindowsFor(e)) \in [Window -> WindowState]
    <3>1. \A v \in WindowsFor(e) : p.windows[v].remaining \in Nat /\ ~(p.windows[v].remaining <= 0)
        BY <1>1 DEF WindowDecision, WindowState, WindowsFor, ConfirmedQuota
    <3>2. \A v \in WindowsFor(e) : p.windows[v].remaining > 0
        BY <3>1
    <3>3. WindowsFor(e) \in SUBSET Window /\ p.windows \in [Window -> WindowState]
        BY <1>1 DEF WindowsFor, ConfirmedQuota
    <3> QED BY <3>2, <3>3, DebitWindowsType
  <2>4. PriorQuota(q) \in ConfirmedQuota
      BY <1>1, <2>2, <2>3 DEF ConfirmedQuota
  <2> QED BY <2>4, BudgetAssumption
<1> QED BY <1>1, <1>2, <1>4, <1>5 DEF StrandedQuota

\* No call frees a stranded coordinator: no synchronization starts, grants leave
\* the usage windows alone, and a 429 keeps the allowance it finds.
THEOREM StrandingIsForever == Spec => StrandedForever
<1>1. TypeOK /\ [Next]_vars => [Stranded => Stranded']_vars
  <2> SUFFICES ASSUME TypeOK, Next, Stranded PROVE Stranded'
      OBVIOUS
  <2>1. StrandedQuota(budget.quota) /\ (Stranded' <=> StrandedQuota(budget'.quota))
      BY DEF Stranded, StrandedQuota
  <2>2. CASE Tick
      BY <2>1, <2>2 DEF Tick
  <2>3. ASSUME NEW now \in Stamps, Call(now)
        PROVE  StrandedQuota(budget'.quota)
    <3> DEFINE s == RecoverExpiredLeases(budget, now)
    <3>1. now \in Int /\ Readable(s)
        BY StampsAreTimes, RecoverType DEF TypeOK
    <3>2. s.quota = budget.quota
        BY <2>1 DEF RecoverExpiredLeases, RecoveredQuota, SyncLapsed, StrandedQuota
    <3> HIDE DEF s
    <3>3. StrandedQuota(s.quota) /\ s.quota.kind # "sync_in_progress"
        BY <2>1, <3>2 DEF StrandedQuota
    <3>4. PICK token \in Token :
            \/ BeginQuotaSync(token, now)
            \/ FailQuotaSync(token, now)
            \/ \E report \in UsageReports : RecordQuotaSync(token, ReportedWindows(report), now)
            \/ \E delay \in RetryAfters : RecordQuotaSyncRateLimited(token, delay, now)
            \/ \E e \in DataEndpoint :
                  \/ Admit(e, token, now)
                  \/ \E outcome \in Outcomes : RecordOutcome(e, token, outcome, now)
                  \/ \E delay \in RetryAfters : RecordRateLimit(e, token, delay, now)
        BY <2>3 DEF Call
    <3>5. ~OwnsSync(s, token)
        BY <3>3 DEF OwnsSync
    <3>6. CASE BeginQuotaSync(token, now)
        BY <3>3, <3>6, StrandedIsExhausted DEF BeginQuotaSync, s
    <3>7. CASE \/ FailQuotaSync(token, now)
               \/ \E report \in UsageReports : RecordQuotaSync(token, ReportedWindows(report), now)
               \/ \E delay \in RetryAfters : RecordQuotaSyncRateLimited(token, delay, now)
        BY <3>3, <3>5, <3>7 DEF FailQuotaSync, RecordQuotaSync, RecordQuotaSyncRateLimited, s
    <3>8. CASE \E e \in DataEndpoint : Admit(e, token, now)
      <4>1. PICK e \in DataEndpoint :
              budget' = IF AdmissionDecision(s, e, token, now) = "reserved"
                        THEN Reserve(s, e, token, now) ELSE s
          BY <3>8 DEF Admit, s
      <4> QED BY <3>1, <3>3, <4>1, GrantLeavesStranded
    <3>9. ASSUME NEW e \in DataEndpoint, NEW outcome, NEW retryAt,
                 outcome \in {"success", "rate_limited"} \cup FailureOutcome \cup NeutralOutcome
          PROVE  StrandedQuota(OutcomeRecorded(s, e, token, outcome, retryAt, now).quota)
      <4> DEFINE q == OutcomeRecorded(s, e, token, outcome, retryAt, now).quota
      <4>1. q = s.quota \/ q = Limited(TRUE, PriorQuota(s.quota), retryAt)
          BY <3>3, <3>9 DEF OutcomeRecorded, Complete, RateLimitedQuota, FailureOutcome, NeutralOutcome
      <4>2. Limited(TRUE, PriorQuota(s.quota), retryAt).kind = "rate_limited"
            /\ PriorQuota(Limited(TRUE, PriorQuota(s.quota), retryAt)) = PriorQuota(s.quota)
          BY DEF Limited, PriorQuota
      <4> HIDE DEF q
      <4> QED BY <3>3, <4>1, <4>2 DEF StrandedQuota, q
    <3>10. CASE \E e \in DataEndpoint, outcome \in Outcomes : RecordOutcome(e, token, outcome, now)
        BY <3>3, <3>9, <3>10, TimingAssumption DEF RecordOutcome, s
    <3>11. CASE \E e \in DataEndpoint, delay \in RetryAfters : RecordRateLimit(e, token, delay, now)
        BY <3>3, <3>9, <3>11 DEF RecordRateLimit, s
    <3> QED BY <3>4, <3>6, <3>7, <3>8, <3>10, <3>11
  <2> QED BY <2>1, <2>2, <2>3 DEF Next
<1> QED BY <1>1, CoordinatorTypeCorrect, PTL DEF Spec, StrandedForever
=============================================================================
