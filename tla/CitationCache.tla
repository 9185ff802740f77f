--------------------------- MODULE CitationCache ---------------------------
(***************************************************************************)
(* The lookups of one citation through the cache: cached-citation-gateway  *)
(* over d1-citation-observation-store, with two rows in D1, the state of   *)
(* the citation and the lease of the worker that may refresh it.           *)
(*                                                                         *)
(* A D1 statement is one action, and what a worker does with its result,   *)
(* up to the next await, is another: between the two anything may happen,  *)
(* and the worker's reading of its clock grows old.  An upstream lookup    *)
(* may take longer than the lease, a statement may fail, a worker may die. *)
(***************************************************************************)
EXTENDS CitationSource

CONSTANTS
    Client,    \* the lookups of the citation that may run at the same time
    Token,     \* the owner tokens
    Lease,     \* CITATION_FETCH_LEASE_MS
    Skew,      \* by how much a lookup's clock differs from the true time
    MaxClock   \* bound: the clock stops here

ASSUME CacheAssumption ==
    /\ Lease \in Nat \ {0} /\ MaxClock \in Nat
    /\ Skew \in [Client -> Int]
    /\ Null \notin Token /\ Null \notin [owner : Token, expiresAt : Int]

VARIABLES
    source,    \* the row of citation_source_states
    lease,     \* the row of citation_fetch_leases
    client,    \* where each lookup is
    clock,     \* true time
    evidence,  \* history: as in CitationRecord
    during     \* history: the states stored since each lookup began

vars == <<source, lease, client, clock, evidence, during>>

\* The times a worker may read.
Instants == {t + Skew[c] : t \in 0 .. MaxClock, c \in Client}
Now(c) == clock + Skew[c]

Record == INSTANCE CitationRecord WITH Instant <- Instants

Unavailable == [kind |-> "unavailable"]

Reply ==
    {Unavailable, [kind |-> "source_changed"]}
    \cup [kind : {"verified"}, positive : Positive, fresh : BOOLEAN]
    \cup [kind : {"not_found"}, negative : Int]

\* observationFor
ObservationFor(s, now) ==
    CASE s.kind = "positive" ->
            [kind |-> "verified", positive |-> s.positive,
             fresh |-> IsFresh(s.positive.retrievedAt, now, PositiveFreshness)]
      [] s.kind = "negative" /\ ~StaleNegative(s, now) ->
            [kind |-> "not_found", negative |-> s.negative]
      [] s.kind = "reversal_pending" -> [kind |-> "source_changed"]
      [] OTHER -> Unavailable

\* retainedObservation: what may be answered although it needs refreshing.
RetainedObservation(s, now, otherwise) ==
    IF s.kind \in {"positive", "reversal_pending"} /\ RequiresRevalidation(s, now)
    THEN ObservationFor(s, now) ELSE otherwise

Step == {"looked", "acquiring", "refused", "waiting", "sleeping", "rechecked", "leased",
         "reread", "purging", "purge_refused", "changed", "changed_read", "fetching",
         "fetched", "filling", "releasing", "answering", "answered"}

\* "fallback" is retainedFallback ?? unavailable(), "now" the last reading of
\* the clock, "ends" the end of the lease the lookup owns or waits for.
Idle == [at |-> "idle", token |-> Null, seen |-> Empty, now |-> 0, ends |-> 0,
         fetched |-> Null, fallback |-> Unavailable, answer |-> Unavailable]

Init ==
    /\ source = Empty
    /\ lease = Null
    /\ client = [c \in Client |-> Idle]
    /\ clock = 0
    /\ evidence = [positive |-> Null, absences |-> {}]
    /\ during = [c \in Client |-> {}]

Becomes(c, k) == client' = [client EXCEPT ![c] = k]
Answered(k, answer) == [Idle EXCEPT !.at = "answered", !.token = k.token, !.answer = answer]

\* The states each lookup in flight may answer from.
Store(s) ==
    /\ source' = s
    /\ during' = [c \in Client |->
                     IF client[c].at = "idle" THEN {} ELSE during[c] \cup {s}]

OwnsRow(k) == lease # Null /\ lease.owner = k.token
OwnsActiveLease(k) == OwnsRow(k) /\ lease.expiresAt > k.now

\* crypto.randomUUID: neither the lease nor a lookup has this token.
Fresh(token) ==
    /\ lease # Null => lease.owner # token
    /\ \A c \in Client : client[c].token # token

-----------------------------------------------------------------------------
(* The first read, and the lease                                           *)

Look(c, token) ==
    /\ client[c].at = "idle"
    /\ Fresh(token)
    /\ Becomes(c, [Idle EXCEPT !.at = "looked", !.token = token, !.seen = source])
    /\ during' = [during EXCEPT ![c] = {source}]
    /\ UNCHANGED <<source, lease, clock, evidence>>

\* A fresh observation is the answer.
Begin(c) ==
    LET k == client[c] IN
    /\ k.at = "looked"
    /\ Becomes(c, IF RequiresRevalidation(k.seen, Now(c))
                  THEN [k EXCEPT !.at = "acquiring", !.now = Now(c), !.seen = Empty,
                                 !.fallback = RetainedObservation(k.seen, Now(c), Unavailable)]
                  ELSE Answered(k, ObservationFor(k.seen, Now(c))))
    /\ UNCHANGED <<source, lease, clock, evidence, during>>

\* Variant: what was read before the lease is enough to go and fetch.
AcquireLeaseWithoutReread(c) ==
    LET k == client[c] IN
    /\ k.at = "acquiring"
    /\ IF lease = Null \/ lease.expiresAt <= k.now
       THEN /\ lease' = [owner |-> k.token, expiresAt |-> k.now + Lease]
            /\ Becomes(c, [k EXCEPT !.at = "fetching", !.ends = k.now + Lease])
       ELSE Becomes(c, [k EXCEPT !.at = "refused"]) /\ UNCHANGED lease
    /\ UNCHANGED <<source, clock, evidence, during>>

\* Variant: the conflicting row is overwritten without asking for its end.
AcquireAnyLease(c) ==
    LET k == client[c] IN
    /\ k.at = "acquiring"
    /\ lease' = [owner |-> k.token, expiresAt |-> k.now + Lease]
    /\ Becomes(c, [k EXCEPT !.at = "leased", !.ends = k.now + Lease])
    /\ UNCHANGED <<source, clock, evidence, during>>

\* A lease that has run out, by the clock of the one who wants it, is taken over.
AcquireLease(c) ==
    LET k == client[c] IN
    /\ k.at = "acquiring"
    /\ IF lease = Null \/ lease.expiresAt <= k.now
       THEN /\ lease' = [owner |-> k.token, expiresAt |-> k.now + Lease]
            /\ Becomes(c, [k EXCEPT !.at = "leased", !.ends = k.now + Lease])
       ELSE Becomes(c, [k EXCEPT !.at = "refused"]) /\ UNCHANGED lease
    /\ UNCHANGED <<source, clock, evidence, during>>

\* The lease may be gone before its end has been read; then it is tried again.
ReadHeldLease(c) ==
    LET k == client[c] IN
    /\ k.at = "refused"
    /\ Becomes(c, IF lease = Null THEN [k EXCEPT !.at = "acquiring"]
                  ELSE [k EXCEPT !.at = "waiting", !.ends = lease.expiresAt])
    /\ UNCHANGED <<source, lease, clock, evidence, during>>

-----------------------------------------------------------------------------
(* Waiting for the owner of the lease                                      *)

Wait(c) ==
    LET k == client[c] IN
    /\ k.at = "waiting"
    /\ Becomes(c, IF k.ends <= Now(c) THEN Answered(k, k.fallback)
                  ELSE [k EXCEPT !.at = "sleeping", !.now = Now(c)])
    /\ UNCHANGED <<source, lease, clock, evidence, during>>

Recheck(c) ==
    /\ client[c].at = "sleeping"
    /\ Becomes(c, [client[c] EXCEPT !.at = "rechecked", !.seen = source])
    /\ UNCHANGED <<source, lease, clock, evidence, during>>

\* Variant: a clock that stands still does not end the wait.
JudgeRecheckForever(c) ==
    LET k == client[c]
        observation == IF RequiresRevalidation(k.seen, Now(c))
                       THEN RetainedObservation(k.seen, Now(c), Unavailable)
                       ELSE ObservationFor(k.seen, Now(c))
    IN /\ k.at = "rechecked"
       /\ Becomes(c, IF observation # Unavailable THEN Answered(k, observation)
                     ELSE [k EXCEPT !.at = "waiting", !.seen = Empty])
       /\ UNCHANGED <<source, lease, clock, evidence, during>>

\* Anything that can be answered ends the wait, and so does a clock that
\* stands still.
JudgeRecheck(c) ==
    LET k == client[c]
        observation == IF RequiresRevalidation(k.seen, Now(c))
                       THEN RetainedObservation(k.seen, Now(c), Unavailable)
                       ELSE ObservationFor(k.seen, Now(c))
    IN /\ k.at = "rechecked"
       /\ Becomes(c, IF observation # Unavailable THEN Answered(k, observation)
                     ELSE IF Now(c) <= k.now THEN Answered(k, k.fallback)
                     ELSE [k EXCEPT !.at = "waiting", !.seen = Empty])
       /\ UNCHANGED <<source, lease, clock, evidence, during>>

-----------------------------------------------------------------------------
(* The owner of the lease: read again, purge, fetch, store                 *)

Reread(c) ==
    LET k == client[c] IN
    /\ k.at \in {"leased", "changed"}
    /\ Becomes(c, [k EXCEPT !.at = IF k.at = "leased" THEN "reread" ELSE "changed_read",
                            !.seen = source])
    /\ UNCHANGED <<source, lease, clock, evidence, during>>

\* Another owner may have refreshed the citation; an expired negative is purged
\* first, once.
JudgeReread(c) ==
    LET now == Now(c)
        k == [client[c] EXCEPT !.now = now,
                               !.fallback = RetainedObservation(client[c].seen, now, @)]
    IN /\ k.at \in {"reread", "changed_read"}
       /\ Becomes(c, CASE ~RequiresRevalidation(k.seen, now) ->
                             [k EXCEPT !.at = "releasing", !.answer = ObservationFor(k.seen, now)]
                       [] StaleNegative(k.seen, now) /\ k.at = "reread" ->
                             [k EXCEPT !.at = "purging"]
                       [] StaleNegative(k.seen, now) /\ k.at = "changed_read" ->
                             [k EXCEPT !.at = "releasing"]
                       [] OTHER -> [k EXCEPT !.at = "fetching"])
       /\ UNCHANGED <<source, lease, clock, evidence, during>>

\* Only the negative that was judged is purged, and only by the lease's owner.
PurgeExpiredNegativeLease(c) ==
    LET k == client[c]
        next == PurgeExpiredNegative(k.seen, k.now)
    IN /\ k.at = "purging"
       /\ IF OwnsActiveLease(k) /\ source = k.seen
          THEN /\ Store(next)
               /\ Becomes(c, [k EXCEPT !.at = "fetching", !.seen = next,
                                       !.fallback = RetainedObservation(next, k.now, @)])
          ELSE /\ Becomes(c, [k EXCEPT !.at = "purge_refused"])
               /\ UNCHANGED <<source, during>>
       /\ UNCHANGED <<lease, clock, evidence>>

\* ownsActiveLease: was it the lease, or the state, that changed?
JudgeRefusedPurge(c) ==
    LET k == client[c] IN
    /\ k.at = "purge_refused"
    /\ Becomes(c, IF OwnsActiveLease(k) THEN [k EXCEPT !.at = "changed"]
                  ELSE Answered(k, k.fallback))
    /\ UNCHANGED <<source, lease, clock, evidence, during>>

\* The upstream gateway is CourtListenerClients' lookup; here it says anything.
Fetch(c) ==
    LET k == client[c] IN
    /\ k.at = "fetching"
    /\ \/ \E observation \in Observation :
             Becomes(c, [k EXCEPT !.at = "fetched", !.fetched = observation, !.now = Now(c),
                                  !.seen = Empty, !.ends = 0])
       \/ Becomes(c, [k EXCEPT !.at = "releasing", !.seen = Empty, !.ends = 0,
                               !.answer = RetainedObservation(k.seen, k.now, Unavailable)])
    /\ UNCHANGED <<source, lease, clock, evidence, during>>

ReadForFill(c) ==
    /\ client[c].at = "fetched"
    /\ Becomes(c, [client[c] EXCEPT !.at = "filling", !.seen = source])
    /\ UNCHANGED <<source, lease, clock, evidence, during>>

\* Variant: the batch does not ask who owns the lease.
FillLeaseUnowned(c) ==
    LET k == client[c]
        next == RecordObservation(k.seen, k.fetched, k.now)
    IN /\ k.at = "filling"
       /\ Store(next)
       /\ evidence' = Record!Heard(evidence, k.fetched, k.now)
       /\ lease' = IF OwnsActiveLease(k) THEN Null ELSE lease
       /\ Becomes(c, [k EXCEPT !.at = "answering", !.answer = ObservationFor(next, Now(c))])
       /\ UNCHANGED clock

\* Variant: a refused owner answers what it has fetched.
FillLeaseOrAnswer(c) ==
    LET k == client[c]
        next == RecordObservation(k.seen, k.fetched, k.now)
    IN /\ k.at = "filling"
       /\ IF OwnsActiveLease(k)
          THEN /\ Store(next)
               /\ evidence' = Record!Heard(evidence, k.fetched, k.now)
               /\ lease' = Null
          ELSE UNCHANGED <<source, lease, evidence, during>>
       /\ Becomes(c, [k EXCEPT !.at = "answering", !.answer = ObservationFor(next, Now(c))])
       /\ UNCHANGED clock

\* The batch: what was fetched is added to what was read, unless the lease has
\* run out or was taken over.
FillLease(c) ==
    LET k == client[c]
        next == RecordObservation(k.seen, k.fetched, k.now)
    IN /\ k.at = "filling"
       /\ IF OwnsActiveLease(k)
          THEN /\ Store(next)
               /\ evidence' = Record!Heard(evidence, k.fetched, k.now)
               /\ lease' = Null
               /\ Becomes(c, [k EXCEPT !.at = "answering",
                                       !.answer = ObservationFor(next, Now(c))])
          ELSE /\ Becomes(c, Answered(k, k.fallback))
               /\ UNCHANGED <<source, lease, evidence, during>>
       /\ UNCHANGED clock

ReleaseLease(c) ==
    /\ client[c].at = "releasing"
    /\ lease' = IF OwnsRow(client[c]) THEN Null ELSE lease
    /\ Becomes(c, [client[c] EXCEPT !.at = "answering"])
    /\ UNCHANGED <<source, clock, evidence, during>>

Answer(c) ==
    /\ client[c].at = "answering"
    /\ Becomes(c, Answered(client[c], client[c].answer))
    /\ UNCHANGED <<source, lease, clock, evidence, during>>

-----------------------------------------------------------------------------

\* An answer is delivered, and the worker may serve another lookup.
Finish(c) ==
    /\ client[c].at = "answered"
    /\ Becomes(c, Idle)
    /\ during' = [during EXCEPT ![c] = {}]
    /\ UNCHANGED <<source, lease, clock, evidence>>

\* catch: a statement fails, or its answer is lost after it took effect.
Fail(c) ==
    /\ client[c].at \notin {"idle", "answered"}
    /\ Becomes(c, Answered(client[c], client[c].fallback))
    /\ UNCHANGED <<source, lease, clock, evidence, during>>

Die(c) ==
    /\ client[c].at \notin {"idle", "answered"}
    /\ Becomes(c, Idle)
    /\ during' = [during EXCEPT ![c] = {}]
    /\ UNCHANGED <<source, lease, clock, evidence>>

PassTime ==
    /\ clock < MaxClock
    /\ clock' = clock + 1
    /\ UNCHANGED <<source, lease, client, evidence, during>>

\* The steps of a lookup under way.
Proceed(c) ==
    \/ Begin(c)
    \/ AcquireLease(c)
    \/ ReadHeldLease(c)
    \/ Wait(c)
    \/ Recheck(c)
    \/ JudgeRecheck(c)
    \/ Reread(c)
    \/ JudgeReread(c)
    \/ PurgeExpiredNegativeLease(c)
    \/ JudgeRefusedPurge(c)
    \/ Fetch(c)
    \/ ReadForFill(c)
    \/ FillLease(c)
    \/ ReleaseLease(c)
    \/ Answer(c)
    \/ Finish(c)

Next ==
    \/ PassTime
    \/ \E c \in Client :
          \/ Proceed(c)
          \/ Fail(c)
          \/ Die(c)
          \/ \E token \in Token : Look(c, token)

Spec == Init /\ [][Next]_vars

\* Every await of a lookup settles: D1 and CourtListener answer or fail in
\* bounded time, and a timer fires.
FairSpec == Spec /\ \A c \in Client : WF_vars(Proceed(c))

-----------------------------------------------------------------------------
(* Properties                                                              *)

ClientState ==
    [at : Step \cup {"idle"}, token : Token \cup {Null}, seen : SourceState, now : Int,
     ends : Int, fetched : Observation \cup {Null}, fallback : Reply,
     answer : Reply]

TypeOK ==
    /\ source \in SourceState
    /\ lease \in [owner : Token, expiresAt : Int] \cup {Null}
    /\ client \in [Client -> ClientState]
    /\ clock \in 0 .. MaxClock

\* Between the read and the write of an owner nothing is lost: the two rows,
\* whoever writes them and however late, behave as the one record that learns
\* an observation at a time.
ImplementsRecord == Record!RecordSpec

\* Whatever absences, purges and late fills follow, the last positive stored is
\* what is answered from or what is in doubt.
PositiveKept == Record!PositiveKept

\* A lookup answers "not found" after a positive only when two absences far
\* enough apart, by the clocks of those that observed them, were stored since.
ReversalConfirmed == Record!ReversalConfirmed

\* What was stored during the lookup supports the answer.
Supports(s, answer) ==
    \/ answer.kind = "verified" /\ s.kind = "positive" /\ s.positive = answer.positive
    \/ answer.kind = "not_found" /\ s.kind = "negative" /\ s.negative = answer.negative
    \/ answer.kind = "source_changed" /\ s.kind = "reversal_pending"

\* A lookup answers what was stored at some moment since it began: not what an
\* owner fetched when its lease was gone ("rejects a late former-owner fill"),
\* and never a positive already in doubt, or a negative already purged, when
\* the lookup began.
AnswersAreCurrent ==
    \A c \in Client :
        client[c].at \in {"answering", "answered"} /\ client[c].answer # Unavailable =>
            \E s \in during[c] : Supports(s, client[c].answer)

\* Concurrent misses are one request to CourtListener: two lookups fetch at once only
\* if the lease of one of them has run out by some worker's clock. That need not be the
\* clock of the other: one that is ahead may take the lease over and release it, and a
\* third lookup, whose clock is behind, then finds no lease at all.
OneFetchPerLease ==
    \A c, d \in Client :
        c # d /\ client[c].at = "fetching" /\ client[d].at = "fetching" =>
            \E e \in Client : client[c].ends <= Now(e) \/ client[d].ends <= Now(e)

\* The lookup that holds the lease goes to CourtListener only while nothing
\* fresh is stored, and never while an absence is still stored: what the
\* previous owner stored just before the lease changed hands is used.
FetchOnlyWhenNeeded ==
    [][\A c \in Client :
          client[c].at # "fetching" /\ client'[c].at = "fetching" /\ OwnsRow(client[c])' =>
              RequiresRevalidation(source', Now(c)) /\ source'.kind # "negative"]_vars

\* A lookup that owns the lease never finds that the state has changed under
\* it, which cached-citation-gateway.ts:99-118 is prepared for.
NoRacingWriter == \A c \in Client : client[c].at \notin {"changed", "changed_read"}

\* Every lookup ends, unless others begin for ever: a waiter outlives neither the
\* lease it waits for, nor an owner that died, nor a clock that stands still.
LookupsEnd ==
    \A c \in Client :
        \/ []<>(client[c].at = "idle")
        \/ \E d \in Client \ {c} : []<>(client[d].at = "looked")

-----------------------------------------------------------------------------
(* The inductive invariant                                                 *)

\* Lookups are told apart by their tokens.
TokensDiffer ==
    \A c, d \in Client :
        /\ client[c].at # "idle" => client[c].token \in Token
        /\ client[c].at = "idle" => client[c].token = Null
        /\ c # d /\ client[c].token = client[d].token => client[c].token = Null

\* No lookup has read a later time than its clock shows.
ClocksAdvance ==
    \A c \in Client :
        client[c].at \in {"purging", "purge_refused", "changed", "changed_read", "fetching",
                          "fetched", "filling"} =>
            client[c].now \in Instants /\ client[c].now <= Now(c)

\* As long as the lease is its own, what a lookup has read is what is stored,
\* and it keeps fetching for a reason.
OwnerSeesSource ==
    \A c \in Client :
        OwnsRow(client[c]) =>
            /\ client[c].at \in {"reread", "purging", "filling"} => client[c].seen = source
            /\ client[c].at \in {"fetching", "fetched", "filling"} =>
                  RequiresRevalidation(source, client[c].now) /\ source.kind # "negative"

\* A purge is tried on an expired negative, and refused only without a lease.
PurgesJudged ==
    \A c \in Client :
        /\ client[c].at = "purging" => StaleNegative(client[c].seen, client[c].now)
        /\ client[c].at = "purge_refused" => ~OwnsActiveLease(client[c])

FetchedSomething ==
    \A c \in Client : client[c].at \in {"fetched", "filling"} => client[c].fetched \in Observation

IInv ==
    /\ TypeOK
    /\ TokensDiffer
    /\ ClocksAdvance
    /\ OwnerSeesSource
    /\ PurgesJudged
    /\ FetchedSomething
    /\ NoRacingWriter

\* Until it has fetched, a lookup holds the lease it took, to the end it took it for, or
\* that end has come by some worker's clock.
LeasesHeld ==
    \A c \in Client :
        /\ client[c].at \in {"acquiring", "refused"} => client[c].now <= Now(c)
        /\ client[c].at \in {"leased", "reread", "purging", "fetching"} =>
              \/ OwnsRow(client[c]) /\ lease.expiresAt = client[c].ends
              \/ \E e \in Client : client[c].ends <= Now(e)

\* What a lookup under way has read, may fall back on or will answer was stored since it began.
ReadsAreCurrent ==
    /\ during \in [Client -> SUBSET SourceState]
    /\ \A c \in Client :
          client[c].at # "idle" =>
              /\ source \in during[c]
              /\ client[c].at \in {"looked", "rechecked", "reread", "purging", "fetching"} =>
                    client[c].seen \in during[c]
              /\ \A reply \in {client[c].fallback, client[c].answer} :
                    reply # Unavailable => \E s \in during[c] : Supports(s, reply)

\* What the history of a lookup keeps, given IInv.
HistoryInv == LeasesHeld /\ ReadsAreCurrent
=============================================================================
