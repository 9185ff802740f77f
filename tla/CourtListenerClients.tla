------------------------ MODULE CourtListenerClients ------------------------
(***************************************************************************)
(* The workers that share the coordinator, and CourtListener itself.       *)
(* A worker runs one lookup: the citation gateway (gateway.ts) or a        *)
(* case-law request (case-law-admission.ts), with the quota                *)
(* synchronization both call (quota-sync.ts).  Every await is a point      *)
(* where other workers run, so a lookup is a sequence of actions, each of  *)
(* them one call of the coordinator or one request to CourtListener.       *)
(*                                                                         *)
(* A worker may die between two steps.  A call whose answer is lost is the *)
(* same to the coordinator: value() turns it into an end of the lookup.    *)
(*                                                                         *)
(* CourtListener is external.  Its counters are modelled as gateway.ts and *)
(* quota-sync.ts use them: a request it serves is counted in every window  *)
(* that applies, a window with nothing left refuses, and a window is full  *)
(* again Period after its first use.                                       *)
(***************************************************************************)
EXTENDS CourtListenerCoordinator

CONSTANTS
    Client,  \* the workers that may look something up at the same time
    Period   \* how long a CourtListener window lasts

ASSUME ClientAssumption == Period \in Nat \ {0}

VARIABLES
    client,   \* where each worker is in its lookup
    upstream  \* CourtListener's own windows

clientVars == <<vars, client, upstream>>

Step == {"idle", "sync", "usage", "report", "usage_limited", "usage_failed", "readmit",
         "reserved", "answered", "limited"}

Idle == [at |-> "idle", endpoint |-> "citation", token |-> Null, answer |-> Null,
         leaseEnds |-> 0, usageRequests |-> 0, dataRequests |-> 0]

ClientsInit ==
    /\ Init
    /\ client = [c \in Client |-> Idle]
    /\ upstream = [w \in Window |-> [remaining |-> Limit[w], resetAt |-> Null]]

\* crypto.randomUUID: no lookup, reservation or synchronization has this token.
Fresh(token) ==
    /\ \A c \in Client : client[c].token # token
    /\ \A r \in budget.pendingReservations : r.token # token
    /\ budget.quota.kind = "sync_in_progress" => budget.quota.token # token

Becomes(c, k) == client' = [client EXCEPT ![c] = k]
Recovered == RecoverExpiredLeases(budget, clock)

-----------------------------------------------------------------------------
(* CourtListener                                                           *)

Serves(windows) == \A w \in windows : upstream[w].remaining > 0

Counted(windows) ==
    [w \in Window |->
        IF w \notin windows THEN upstream[w]
        ELSE [remaining |-> upstream[w].remaining - 1,
              resetAt |-> IF upstream[w].resetAt = Null THEN clock + Period
                          ELSE upstream[w].resetAt]]

Renewed(time) ==
    [w \in Window |->
        IF upstream[w].resetAt # Null /\ upstream[w].resetAt <= time
        THEN [remaining |-> Limit[w], resetAt |-> Null] ELSE upstream[w]]

-----------------------------------------------------------------------------
(* Admission                                                               *)

\* Variant: every admission may lead to a synchronization.
AfterDecisionAlwaysSync(k, decision, token, maySynchronize) ==
    CASE decision = "reserved" ->
            [k EXCEPT !.at = "reserved", !.token = token, !.leaseEnds = clock + Lease]
      [] decision = "sync_required" -> [k EXCEPT !.at = "sync"]
      [] OTHER -> Idle

\* What the gateway does with a decision; only the first may synchronize.
AfterDecision(k, decision, token, maySynchronize) ==
    CASE decision = "reserved" ->
            [k EXCEPT !.at = "reserved", !.token = token, !.leaseEnds = clock + Lease]
      [] decision = "sync_required" /\ maySynchronize -> [k EXCEPT !.at = "sync"]
      [] OTHER -> Idle

Lookup(c, e, token) ==
    /\ client[c].at = "idle"
    /\ Fresh(token)
    /\ Admit(e, token, clock)
    /\ Becomes(c, AfterDecision([Idle EXCEPT !.endpoint = e],
                                AdmissionDecision(Recovered, e, token, clock), token, TRUE))
    /\ UNCHANGED upstream

Readmit(c, token) ==
    LET e == client[c].endpoint IN
    /\ client[c].at = "readmit"
    /\ Fresh(token)
    /\ Admit(e, token, clock)
    /\ Becomes(c, AfterDecision(client[c], AdmissionDecision(Recovered, e, token, clock),
                                token, FALSE))
    /\ UNCHANGED upstream

-----------------------------------------------------------------------------
(* synchronizeCourtListenerQuota                                           *)

StartQuotaSync(c, token) ==
    /\ client[c].at = "sync"
    /\ Fresh(token)
    /\ BeginQuotaSync(token, clock)
    /\ Becomes(c, IF SyncDecision(Recovered, clock) = "started"
                  THEN [client[c] EXCEPT !.at = "usage", !.token = token]
                  ELSE Idle)
    /\ UNCHANGED upstream

\* The usage request: a report, a 429 with a delay, or a failure that
\* CourtListener may have counted or not.
AskUsage(c) ==
    LET k == [client[c] EXCEPT !.usageRequests = @ + 1] IN
    /\ client[c].at = "usage"
    /\ \/ /\ Serves(ApiUsage)
          /\ upstream' = Counted(ApiUsage)
          /\ Becomes(c, [k EXCEPT !.at = "report", !.answer = Counted(ApiUsage)])
       \/ \E delay \in RetryAfters :
             /\ Becomes(c, [k EXCEPT !.at = "usage_limited", !.answer = delay])
             /\ UNCHANGED upstream
       \/ /\ Becomes(c, [k EXCEPT !.at = "usage_failed"])
          /\ \/ UNCHANGED upstream
             \/ Serves(ApiUsage) /\ upstream' = Counted(ApiUsage)
    /\ UNCHANGED vars

\* A synchronization before the request goes on to the second admission; one
\* after a 429 ends the lookup.
ReportUsage(c) ==
    LET ready == OwnsSync(Recovered, client[c].token) /\ client[c].dataRequests = 0 IN
    /\ client[c].at = "report"
    /\ RecordQuotaSync(client[c].token, client[c].answer, clock)
    /\ Becomes(c, IF ready
                  THEN [client[c] EXCEPT !.at = "readmit", !.token = Null, !.answer = Null]
                  ELSE Idle)
    /\ UNCHANGED upstream

ReportUsageLimited(c) ==
    /\ client[c].at = "usage_limited"
    /\ RecordQuotaSyncRateLimited(client[c].token, client[c].answer, clock)
    /\ Becomes(c, Idle)
    /\ UNCHANGED upstream

ReportUsageFailed(c) ==
    /\ client[c].at = "usage_failed"
    /\ FailQuotaSync(client[c].token, clock)
    /\ Becomes(c, Idle)
    /\ UNCHANGED upstream

-----------------------------------------------------------------------------
(* The data request                                                        *)

\* A served request is counted whether its answer arrives or not; a window
\* with nothing left answers 429.
SendRequest(c) ==
    LET windows == WindowsFor(client[c].endpoint)
        Answered(step, answer) ==
            Becomes(c, [client[c] EXCEPT !.at = step, !.answer = answer,
                                         !.dataRequests = @ + 1])
    IN /\ client[c].at = "reserved"
       /\ \/ \E outcome \in Outcomes :
                /\ Serves(windows)
                /\ upstream' = Counted(windows)
                /\ Answered("answered", outcome)
          \/ \E outcome \in Outcomes \ {"success"} :
                /\ Answered("answered", outcome)
                /\ UNCHANGED upstream
          \/ \E delay \in RetryAfters :
                /\ Answered("limited", delay)
                /\ UNCHANGED upstream
       /\ UNCHANGED vars

\* record(): whether or not the reservation is still known, the lookup ends.
RecordAnswer(c) ==
    /\ client[c].at = "answered"
    /\ RecordOutcome(client[c].endpoint, client[c].token, client[c].answer, clock)
    /\ Becomes(c, Idle)
    /\ UNCHANGED upstream

\* After a 429 a citation lookup synchronizes at once, if its reservation was
\* still known.
RecordLimited(c) ==
    LET k == client[c]
        known == ReservationOf(Recovered, k.endpoint, k.token) # {}
    IN /\ k.at = "limited"
       /\ RecordRateLimit(k.endpoint, k.token, k.answer, clock)
       /\ Becomes(c, IF known /\ k.endpoint = "citation"
                     THEN [k EXCEPT !.at = "sync", !.token = Null, !.answer = Null]
                     ELSE Idle)
       /\ UNCHANGED upstream

-----------------------------------------------------------------------------

\* A worker is evicted, or gives up on an answer that never came; as after
\* every end of a lookup, it may start another.
Die(c) ==
    /\ client[c].at \notin {"idle"}
    /\ Becomes(c, Idle)
    /\ UNCHANGED <<vars, upstream>>

\* A reserved request leaves before its lease ends: the lease is twice the
\* time a request may take, and nothing is awaited between the two.
PassTime ==
    /\ \A c \in Client : client[c].at = "reserved" => clock + 1 < client[c].leaseEnds
    /\ Tick
    /\ upstream' = Renewed(clock + 1)
    /\ UNCHANGED client

ClientsNext ==
    \/ PassTime
    \/ \E c \in Client :
          \/ AskUsage(c)
          \/ ReportUsage(c)
          \/ ReportUsageLimited(c)
          \/ ReportUsageFailed(c)
          \/ SendRequest(c)
          \/ RecordAnswer(c)
          \/ RecordLimited(c)
          \/ Die(c)
          \/ \E token \in Token :
                \/ Readmit(c, token)
                \/ StartQuotaSync(c, token)
                \/ \E e \in DataEndpoint : Lookup(c, e, token)

ClientsSpec == ClientsInit /\ [][ClientsNext]_clientVars

-----------------------------------------------------------------------------
(* Properties                                                              *)

HoldsReservation == {"reserved", "answered", "limited"}
HoldsToken ==
    HoldsReservation \cup {"usage", "report", "usage_limited", "usage_failed"}

ClientsTypeOK ==
    /\ TypeOK
    /\ upstream \in [Window -> WindowState]
    /\ \A w \in Window : upstream[w].remaining <= Limit[w]
    /\ DOMAIN client = Client
    /\ \A c \in Client :
          LET k == client[c] IN
          /\ DOMAIN k = DOMAIN Idle
          /\ k.at \in Step
          /\ k.endpoint \in DataEndpoint
          /\ k.at \in HoldsToken => k.token \in Token
          /\ k.at \in HoldsReservation => k.leaseEnds \in Int
          /\ k.at = "report" => k.answer \in [Window -> WindowState]
          /\ k.at \in {"usage_limited", "limited"} => k.answer \in RetryAfters
          /\ k.at = "answered" => k.answer \in Outcomes

\* Requests that hold a reservation and have not reached CourtListener yet.
Unsent(w) == {c \in Client : client[c].at = "reserved" /\ AppliesTo(w, client[c].endpoint)}

\* What the coordinator believes is left, and what it has already granted but
\* CourtListener has not counted, is there: no order of grants, reports,
\* failures, deaths and resets makes it overdraw a window.
AllowanceCovered ==
    LET prior == PriorQuota(budget.quota) IN
    prior # Null =>
        \A w \in Window \ ApiUsage :
            prior.windows[w].remaining + Cardinality(Unsent(w)) <= upstream[w].remaining

\* A lookup sends one data request at most, and asks for usage twice at most:
\* once to be admitted and once when it is told to slow down.
NoRequestStorm ==
    \A c \in Client : client[c].dataRequests <= 1 /\ client[c].usageRequests <= 2

-----------------------------------------------------------------------------
(* The inductive invariant                                                 *)

\* How many requests a lookup has sent, by the step it has reached.
RequestsCounted ==
    \A c \in Client :
        LET k == client[c] IN
        /\ k.dataRequests \in 0 .. 1 /\ k.usageRequests \in 0 .. 2
        /\ k.at \in {"idle", "readmit", "reserved"} => k.dataRequests = 0
        /\ k.at \in {"answered", "limited"} => k.dataRequests = 1
        /\ k.at \in {"sync", "usage"} => k.usageRequests <= k.dataRequests
        /\ k.at = "report" => k.usageRequests <= k.dataRequests + 1
        /\ k.at \in {"idle", "readmit"} \cup HoldsReservation => k.usageRequests <= 1

\* No two lookups hold the same reservation.
ReservationsDiffer ==
    \A c, d \in Client :
        /\ client[c].at \in HoldsReservation
        /\ client[d].at \in HoldsReservation
        /\ client[c].token = client[d].token
        => c = d

\* The reservation of a request that has not left is live and in the row.
ReservationOfClient(c) ==
    [kind |-> "data", endpoint |-> client[c].endpoint,
     leaseExpiresAt |-> client[c].leaseEnds, token |-> client[c].token]

ReservedPending ==
    \A c \in Client :
        client[c].at = "reserved" =>
            clock < client[c].leaseEnds /\ ReservationOfClient(c) \in Pending

\* A 429 met during a synchronization remembers the synchronization's prior.
RateLimitKeepsPrior ==
    /\ budget.quota.kind = "sync_in_progress"
    /\ budget.quota.rateLimit # Null
    => budget.quota.rateLimit.prior = budget.quota.prior

\* Whether or not the coordinator knows an allowance, what it has granted is
\* there to be used.
UnsentCovered ==
    \A w \in Window \ ApiUsage : Cardinality(Unsent(w)) <= upstream[w].remaining

\* A usage report on its way back, corrected by the captured requests, leaves
\* room for every request that has not left yet.
ReportsCovered ==
    \A c \in Client :
        /\ client[c].at = "report"
        /\ budget.quota.kind = "sync_in_progress"
        /\ budget.quota.token = client[c].token
        => \A w \in Window \ ApiUsage :
              client[c].answer[w].remaining - CapturedDebit(budget.quota.captured, w)
                + Cardinality(Unsent(w)) <= upstream[w].remaining

ClientsIInv ==
    /\ IInv
    /\ ClientsTypeOK
    /\ RequestsCounted
    /\ ReservationsDiffer
    /\ ReservedPending
    /\ RateLimitKeepsPrior
    /\ UnsentCovered
    /\ ReportsCovered
    /\ AllowanceCovered
=============================================================================
