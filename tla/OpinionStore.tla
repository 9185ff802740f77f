---------------------------- MODULE OpinionStore ----------------------------
(***************************************************************************)
(* The lookups of the text of one opinion: case-law-opinion-source over    *)
(* d1-r2-opinion-source-store.  The text is an object in R2, staged under  *)
(* a key of its owner before D1 is told of it; D1 has the state of the     *)
(* opinion, a row of metadata for every version of the text, and the lease *)
(* of the worker that may refresh it.                                      *)
(*                                                                         *)
(* As in CitationCache, a statement is one action, and what a worker does  *)
(* with its result, up to the next await, is another.                      *)
(***************************************************************************)
EXTENDS Integers

CONSTANTS
    Client,          \* the lookups of the opinion that may run at the same time
    Token,           \* the owner tokens
    Content,         \* the texts CourtListener may have for the opinion
    Representation,  \* html_with_citations, html, plain_text
    Absent, Null,
    PositiveFreshness, NegativeFreshness, ReversalConfirmation,
    Lease,           \* OPINION_SOURCE_FETCH_LEASE_MS
    Skew,            \* by how much a lookup's clock differs from the true time
    CallerOrder,     \* the order in which the caller writes the keys of a provenance
    MaxClock         \* bound: the clock stops here

\* What an observation of the text refers to: an object is stored under its
\* content and the token of the lookup that uploaded it.
Text == [content : Content, representation : Representation, owner : Token]
ObjectOf(text) == [content |-> text.content, owner |-> text.owner]

ASSUME OpinionAssumption ==
    /\ {PositiveFreshness, NegativeFreshness, ReversalConfirmation, Lease} \subseteq Nat \ {0}
    /\ MaxClock \in Nat
    /\ Skew \in [Client -> Int]
    /\ CallerOrder \in {"schema", "other"}
    /\ Absent \notin Text
    /\ Null \notin Token \cup Text \cup {Absent} \cup [cluster : Text, retrievedAt : Int]

VARIABLES
    state,     \* the row of opinion_source_states
    versions,  \* the rows of opinion_source_object_versions
    objects,   \* the objects in R2
    lease,     \* the row of opinion_source_fetch_leases
    client,    \* where each lookup is
    clock,     \* true time
    evidence,  \* history: as in CitationRecord
    during,    \* history: the states stored since each lookup began
    lost       \* history: the lookups that never learnt that they had committed

vars == <<state, versions, objects, lease, client, clock, evidence, during, lost>>

\* The times a worker may read.
Instants == {t + Skew[c] : t \in 0 .. MaxClock, c \in Client}
Now(c) == clock + Skew[c]

\* opinion-source-cache.ts is the machine of citation-source-cache.ts with texts
\* for clusters.
Record == INSTANCE CitationRecord WITH
              Cluster <- Text, source <- state, Instant <- Instants

Positive == Record!Positive
RequiresRevalidation(s, now) == Record!RequiresRevalidation(s, now)
\* Variant: one absence is enough to refute an earlier text.
RecordObservationUnconfirmed(s, observation, now) ==
    IF observation = Absent /\ s.kind = "positive"
    THEN Record!NegativeState(now, s.positive)
    ELSE Record!RecordObservation(s, observation, now)

\* recordOpinionSourceObservation
RecordObservation(s, observation, now) == Record!RecordObservation(s, observation, now)
PurgeExpiredNegative(s, now) == Record!PurgeExpiredNegative(s, now)
StaleNegative(s, now) == Record!StaleNegative(s, now)

\* "indeterminate" stands for every reason but source_changed.
Indeterminate == [kind |-> "indeterminate"]
SourceChanged == [kind |-> "source_changed"]
Found(p) == [kind |-> "found", positive |-> p]
Reply == {Indeterminate, SourceChanged} \cup [kind : {"found"}, positive : Positive]

Step == {"reading", "object", "version", "judging", "acquiring", "refused", "waiting",
         "purging", "purge_refused", "fetching", "finding", "verifying", "uploading",
         "filling", "stamping", "committing", "unstaging", "releasing", "answered"}

\* What a read is for: the first, while waiting, again as the owner, or to see who won.
Purpose == {"first", "waited", "again", "winner"}

\* "seen" is what the read under way has found, Null if it failed; "now" the last
\* reading of the clock, "commitAt" the one of the commit; "retained" the stale text.
\* What will not be read again is reset.
Lookup(at, why, token, now, retained, fetched, answer) ==
    [at |-> at, why |-> why, token |-> token, seen |-> Null, now |-> now, commitAt |-> 0,
     ends |-> 0, retried |-> FALSE, retained |-> retained, fetched |-> fetched,
     answer |-> answer]

Idle == Lookup("idle", "first", Null, 0, Null, Null, Indeterminate)
Reading(k, why) == Lookup("reading", why, k.token, 0, k.retained, k.fetched, Indeterminate)
Acquiring(k, now) ==
    Lookup("acquiring", "first", k.token, now, k.retained, Null, Indeterminate)
Releasing(k, now, answer) ==
    Lookup("releasing", "first", k.token, now, k.retained, Null, answer)
Answered(k, answer) == Lookup("answered", "first", k.token, 0, Null, Null, answer)

Init ==
    /\ state = Record!Empty
    /\ versions = {}
    /\ objects = {}
    /\ lease = Null
    /\ client = [c \in Client |-> Idle]
    /\ clock = 0
    /\ evidence = [positive |-> Null, absences |-> {}]
    /\ during = [c \in Client |-> {}]
    /\ lost = {}

Becomes(c, k) == client' = [client EXCEPT ![c] = k]
Fallback(k) == IF k.retained = Null THEN Indeterminate ELSE Found(k.retained)

\* The states each lookup in flight may answer from.
Store(s) ==
    /\ state' = s
    /\ during' = [c \in Client |->
                     IF client[c].at = "idle" THEN {} ELSE during[c] \cup {s}]

OwnsRow(k) == lease # Null /\ lease.owner = k.token
OwnsActiveLease(k, now) == OwnsRow(k) /\ lease.expiresAt > now

\* crypto.randomUUID: nothing has this token.
Fresh(token) ==
    /\ lease # Null => lease.owner # token
    /\ \A c \in Client : client[c].token # token
    /\ \A v \in versions : v.cluster.owner # token
    /\ \A o \in objects : o.owner # token
    /\ token \notin lost

-----------------------------------------------------------------------------
(* A read: the state, and for a text its object and its row of metadata    *)

ReadBy(k) == [k EXCEPT !.at = IF state.kind = "positive" THEN "object" ELSE "judging",
                       !.seen = state]

Look(c, token) ==
    /\ client[c].at = "idle"
    /\ Fresh(token)
    /\ Becomes(c, ReadBy([Idle EXCEPT !.token = token]))
    /\ during' = [during EXCEPT ![c] = {state}]
    /\ UNCHANGED <<state, versions, objects, lease, clock, evidence, lost>>

ReadState(c) ==
    /\ client[c].at = "reading"
    /\ Becomes(c, ReadBy(client[c]))
    /\ UNCHANGED <<state, versions, objects, lease, clock, evidence, during, lost>>

ReadObject(c) ==
    LET k == client[c] IN
    /\ k.at = "object"
    /\ Becomes(c, IF ObjectOf(k.seen.positive.cluster) \in objects
                  THEN [k EXCEPT !.at = "version"]
                  ELSE [k EXCEPT !.at = "judging", !.seen = Null])
    /\ UNCHANGED <<state, versions, objects, lease, clock, evidence, during, lost>>

\* The row of this content and representation must say what the state says, the
\* time of retrieval included.
ValidateVersion(c) ==
    LET k == client[c] IN
    /\ k.at = "version"
    /\ Becomes(c, IF k.seen.positive \in versions
                  THEN [k EXCEPT !.at = "judging"]
                  ELSE [k EXCEPT !.at = "judging", !.seen = Null])
    /\ UNCHANGED <<state, versions, objects, lease, clock, evidence, during, lost>>

\* What a state that needs no revalidation answers: a text, or nothing.
AnswerFrom(s) == IF s.kind = "positive" THEN Found(s.positive) ELSE Indeterminate

JudgeFirst(c) ==
    LET k == client[c]
        retained == IF k.seen.kind = "positive" THEN k.seen.positive ELSE Null
    IN /\ k.at = "judging" /\ k.why = "first"
       /\ Becomes(c, IF k.seen = Null THEN Answered(k, Indeterminate)
                     ELSE IF RequiresRevalidation(k.seen, Now(c))
                     THEN [Acquiring(k, Now(c)) EXCEPT !.retained = retained]
                     ELSE Answered(k, AnswerFrom(k.seen)))
       /\ UNCHANGED <<state, versions, objects, lease, clock, evidence, during, lost>>

-----------------------------------------------------------------------------
(* The lease, and waiting for its owner                                    *)

AcquireLease(c) ==
    LET k == client[c] IN
    /\ k.at = "acquiring"
    /\ IF lease = Null \/ lease.expiresAt <= k.now
       THEN /\ lease' = [owner |-> k.token, expiresAt |-> k.now + Lease]
            /\ Becomes(c, Reading(k, "again"))
       ELSE Becomes(c, [k EXCEPT !.at = "refused"]) /\ UNCHANGED lease
    /\ UNCHANGED <<state, versions, objects, clock, evidence, during, lost>>

\* A lease that is gone before its end has been read is tried again, once.
ReadHeldLease(c) ==
    LET k == client[c] IN
    /\ k.at = "refused"
    /\ Becomes(c, IF lease # Null
                  THEN [k EXCEPT !.at = "waiting", !.ends = lease.expiresAt]
                  ELSE IF k.retried THEN Answered(k, Fallback(k))
                  ELSE [k EXCEPT !.at = "acquiring", !.retried = TRUE])
    /\ UNCHANGED <<state, versions, objects, lease, clock, evidence, during, lost>>

Wait(c) ==
    LET k == client[c] IN
    /\ k.at = "waiting"
    /\ Becomes(c, IF k.ends <= Now(c) THEN Acquiring(k, Now(c))
                  ELSE [Reading(k, "waited") EXCEPT !.now = Now(c)])
    /\ UNCHANGED <<state, versions, objects, lease, clock, evidence, during, lost>>

\* A clock that stands still ends the wait, but not the lookup.
JudgeWaited(c) ==
    LET k == client[c] IN
    /\ k.at = "judging" /\ k.why = "waited"
    /\ Becomes(c, IF k.seen = Null THEN Answered(k, Fallback(k))
                  ELSE IF ~RequiresRevalidation(k.seen, Now(c))
                  THEN Answered(k, AnswerFrom(k.seen))
                  ELSE IF Now(c) <= k.now THEN Acquiring(k, Now(c))
                  ELSE [k EXCEPT !.at = "waiting", !.seen = Null])
    /\ UNCHANGED <<state, versions, objects, lease, clock, evidence, during, lost>>

-----------------------------------------------------------------------------
(* The owner: read again, purge, fetch                                     *)

JudgeAgain(c) ==
    LET k == client[c] IN
    /\ k.at = "judging" /\ k.why = "again"
    /\ Becomes(c, IF k.seen = Null THEN Releasing(k, Now(c), Indeterminate)
                  ELSE IF ~RequiresRevalidation(k.seen, Now(c))
                  THEN Releasing(k, Now(c), AnswerFrom(k.seen))
                  ELSE IF StaleNegative(k.seen, Now(c))
                  THEN [k EXCEPT !.at = "purging", !.now = Now(c)]
                  ELSE [k EXCEPT !.at = "fetching", !.now = Now(c), !.seen = Null])
    /\ UNCHANGED <<state, versions, objects, lease, clock, evidence, during, lost>>

\* Variant: the rows are compared as the states that they stand for.
SameState(stored, expected) == stored = expected

\* The rows are compared as text.  A negative is in the row as fillLease was given
\* it; read and written again, its provenance has the order of the schema.
SameJson(stored, expected) == stored = expected /\ CallerOrder = "schema"

PurgeExpiredNegativeLease(c) ==
    LET k == client[c] IN
    /\ k.at = "purging"
    /\ IF OwnsActiveLease(k, k.now) /\ SameJson(state, k.seen)
       THEN /\ Store(PurgeExpiredNegative(k.seen, k.now))
            /\ Becomes(c, [k EXCEPT !.at = "fetching", !.seen = Null])
       ELSE /\ Becomes(c, [k EXCEPT !.at = "purge_refused"])
            /\ UNCHANGED <<state, during>>
    /\ UNCHANGED <<versions, objects, lease, clock, evidence, lost>>

\* ownsActiveLease: was it the lease, or the state, that changed?
JudgeRefusedPurge(c) ==
    LET k == client[c] IN
    /\ k.at = "purge_refused"
    /\ Becomes(c, IF OwnsActiveLease(k, k.now)
                  THEN [Releasing(k, Now(c), Indeterminate) EXCEPT !.why = "winner"]
                  ELSE Answered(k, Indeterminate))
    /\ UNCHANGED <<state, versions, objects, lease, clock, evidence, during, lost>>

\* A text or its absence; nothing usable; or a failure.
Fetch(c) ==
    LET k == client[c] IN
    /\ k.at = "fetching"
    /\ \/ \E content \in Content, representation \in Representation :
             Becomes(c, [k EXCEPT !.at = "finding", !.now = Now(c),
                                  !.fetched = [content |-> content, owner |-> k.token,
                                               representation |-> representation]])
       \/ Becomes(c, [k EXCEPT !.at = "filling", !.now = Now(c), !.fetched = Absent])
       \/ Becomes(c, Releasing(k, Now(c), Indeterminate))
       \/ Becomes(c, Releasing(k, Now(c), Fallback(k)))
    /\ UNCHANGED <<state, versions, objects, lease, clock, evidence, during, lost>>

-----------------------------------------------------------------------------
(* fillLease: stage the object, read the state, commit                     *)

\* Any row of this content will do: its object is used again.
FindVersion(c) ==
    LET k == client[c]
        same == {v \in versions : v.cluster.content = k.fetched.content}
    IN /\ k.at = "finding"
       /\ \/ /\ same = {}
             /\ Becomes(c, [k EXCEPT !.at = "uploading"])
          \/ \E v \in same :
                Becomes(c, [k EXCEPT !.at = "verifying", !.fetched.owner = v.cluster.owner])
       /\ UNCHANGED <<state, versions, objects, lease, clock, evidence, during, lost>>

VerifyObject(c) ==
    LET k == client[c] IN
    /\ k.at = "verifying"
    /\ Becomes(c, IF ObjectOf(k.fetched) \in objects
                  THEN [k EXCEPT !.at = "filling"] ELSE Reading(k, "winner"))
    /\ UNCHANGED <<state, versions, objects, lease, clock, evidence, during, lost>>

Upload(c) ==
    LET k == client[c] IN
    /\ k.at = "uploading"
    /\ objects' = objects \cup {ObjectOf(k.fetched)}
    /\ Becomes(c, [k EXCEPT !.at = "filling"])
    /\ UNCHANGED <<state, versions, lease, clock, evidence, during, lost>>

\* Variant: the object is staged whoever has uploaded it.
StagedByAnyone(k) == k.fetched # Absent

\* Only what the lookup has uploaded itself is staged.
Staged(k) == k.fetched # Absent /\ k.fetched.owner = k.token

Unstaging(k) == IF Staged(k) THEN [k EXCEPT !.at = "unstaging"] ELSE Reading(k, "winner")

ReadForFill(c) ==
    /\ client[c].at = "filling"
    /\ Becomes(c, [client[c] EXCEPT !.at = "stamping", !.seen = state])
    /\ UNCHANGED <<state, versions, objects, lease, clock, evidence, during, lost>>

\* Only the commit reads the clock again.
Stamp(c) ==
    /\ client[c].at = "stamping"
    /\ Becomes(c, [client[c] EXCEPT !.at = "committing", !.commitAt = Now(c)])
    /\ UNCHANGED <<state, versions, objects, lease, clock, evidence, during, lost>>

\* INSERT OR IGNORE: a row of this content and representation stays as it is.
InsertVersion(p) ==
    IF \E v \in versions : /\ v.cluster.content = p.cluster.content
                           /\ v.cluster.representation = p.cluster.representation
    THEN versions ELSE versions \cup {p}

CommitAnswer(s) ==
    CASE s.kind = "positive" -> Found(s.positive)
      [] s.kind = "reversal_pending" -> SourceChanged
      [] OTHER -> Indeterminate

\* The batch that succeeds, with what its worker makes of the response.
Committed(k, next) ==
    /\ Store(next)
    /\ versions' = IF next.kind = "positive" THEN InsertVersion(next.positive) ELSE versions
    /\ evidence' = Record!Heard(evidence, k.fetched, k.now)

\* Variant: the batch does not ask who owns the lease.
CommitUnowned(c) ==
    LET k == client[c]
        next == RecordObservation(k.seen, k.fetched, k.now)
    IN /\ k.at = "committing"
       /\ Committed(k, next)
       /\ lease' = IF OwnsActiveLease(k, k.commitAt) THEN Null ELSE lease
       /\ Becomes(c, Answered(k, CommitAnswer(next)))
       /\ UNCHANGED <<objects, clock, lost>>

\* Variant: a refused owner answers what it has fetched.
CommitOrAnswer(c) ==
    LET k == client[c]
        next == RecordObservation(k.seen, k.fetched, k.now)
    IN /\ k.at = "committing"
       /\ IF OwnsActiveLease(k, k.commitAt)
          THEN Committed(k, next) /\ lease' = Null
          ELSE UNCHANGED <<state, versions, lease, evidence, during>>
       /\ Becomes(c, Answered(k, CommitAnswer(next)))
       /\ UNCHANGED <<objects, clock, lost>>

\* The batch: nothing is changed unless the lease is still the lookup's own.  A
\* worker that is not told of its success believes that it has failed.
Commit(c) ==
    LET k == client[c]
        next == RecordObservation(k.seen, k.fetched, k.now)
    IN /\ k.at = "committing"
       /\ \/ /\ OwnsActiveLease(k, k.commitAt)
             /\ Committed(k, next)
             /\ lease' = Null
             /\ \/ Becomes(c, Answered(k, CommitAnswer(next))) /\ UNCHANGED lost
                \/ Becomes(c, Unstaging(k)) /\ lost' = lost \cup {k.token}
          \/ /\ ~OwnsActiveLease(k, k.commitAt)
             /\ Becomes(c, Unstaging(k))
             /\ UNCHANGED <<state, versions, lease, evidence, during, lost>>
       /\ UNCHANGED <<objects, clock>>

\* deleteStagedOpinionSourceObject
Unstage(c) ==
    LET k == client[c] IN
    /\ k.at = "unstaging"
    /\ objects' = objects \ {ObjectOf(k.fetched)}
    /\ Becomes(c, Reading(k, "winner"))
    /\ UNCHANGED <<state, versions, lease, clock, evidence, during, lost>>

\* Variant: whatever the winner has stored is answered.
WinnerAnswerUnsuppressed(k) ==
    CASE k.seen.kind = "positive" -> Found(k.seen.positive)
      [] k.seen.kind = "reversal_pending" -> SourceChanged
      [] k.seen.kind = "empty" -> Fallback(k)
      [] OTHER -> Indeterminate

\* durableWinner: a lookup that has found the text to be gone does not answer with
\* the text that it had before.
WinnerAnswer(k) ==
    CASE k.seen.kind = "positive" ->
            IF /\ k.fetched = Absent /\ k.retained # Null
               /\ ObjectOf(k.seen.positive.cluster) = ObjectOf(k.retained.cluster)
               /\ k.seen.positive.retrievedAt = k.retained.retrievedAt
            THEN Indeterminate ELSE Found(k.seen.positive)
      [] k.seen.kind = "reversal_pending" -> SourceChanged
      [] k.seen.kind = "empty" -> Fallback(k)
      [] OTHER -> Indeterminate

JudgeWinner(c) ==
    LET k == client[c] IN
    /\ k.at = "judging" /\ k.why = "winner"
    /\ Becomes(c, Answered(k, IF k.seen = Null THEN Indeterminate ELSE WinnerAnswer(k)))
    /\ UNCHANGED <<state, versions, objects, lease, clock, evidence, during, lost>>

ReleaseLease(c) ==
    LET k == client[c] IN
    /\ k.at = "releasing"
    /\ lease' = IF OwnsActiveLease(k, k.now) THEN Null ELSE lease
    /\ Becomes(c, IF k.why = "winner" THEN Reading(k, "winner") ELSE Answered(k, k.answer))
    /\ UNCHANGED <<state, versions, objects, clock, evidence, during, lost>>

-----------------------------------------------------------------------------

\* What a lookup does when its statement has failed.  If it took effect nevertheless,
\* the others see what the death of the lookup after it would have left; only of
\* the commit is more to be said.
AfterFailure(k) ==
    CASE k.at \in {"reading", "object", "version"} ->
            [k EXCEPT !.at = "judging", !.seen = Null]
      [] k.at \in {"acquiring", "refused"} -> Answered(k, Fallback(k))
      [] k.at \in {"purging", "purge_refused"} -> Answered(k, Indeterminate)
      [] k.at \in {"finding", "verifying", "uploading", "unstaging"} -> Reading(k, "winner")
      [] k.at \in {"filling", "committing"} -> Unstaging(k)
      [] k.at = "releasing" ->
            IF k.why = "winner" THEN Reading(k, "winner") ELSE Answered(k, k.answer)

Fail(c) ==
    /\ client[c].at \notin {"idle", "judging", "waiting", "fetching", "stamping", "answered"}
    /\ Becomes(c, AfterFailure(client[c]))
    /\ UNCHANGED <<state, versions, objects, lease, clock, evidence, during, lost>>

\* A worker is evicted, or its answer is delivered.
Finish(c) ==
    /\ client[c].at # "idle"
    /\ Becomes(c, Idle)
    /\ during' = [during EXCEPT ![c] = {}]
    /\ UNCHANGED <<state, versions, objects, lease, clock, evidence, lost>>

PassTime ==
    /\ clock < MaxClock
    /\ clock' = clock + 1
    /\ UNCHANGED <<state, versions, objects, lease, client, evidence, during, lost>>

Next ==
    \/ PassTime
    \/ \E c \in Client :
          \/ \E token \in Token : Look(c, token)
          \/ ReadState(c)
          \/ ReadObject(c)
          \/ ValidateVersion(c)
          \/ JudgeFirst(c)
          \/ AcquireLease(c)
          \/ ReadHeldLease(c)
          \/ Wait(c)
          \/ JudgeWaited(c)
          \/ JudgeAgain(c)
          \/ PurgeExpiredNegativeLease(c)
          \/ JudgeRefusedPurge(c)
          \/ Fetch(c)
          \/ FindVersion(c)
          \/ VerifyObject(c)
          \/ Upload(c)
          \/ ReadForFill(c)
          \/ Stamp(c)
          \/ Commit(c)
          \/ Unstage(c)
          \/ JudgeWinner(c)
          \/ ReleaseLease(c)
          \/ Fail(c)
          \/ Finish(c)

Spec == Init /\ [][Next]_vars

-----------------------------------------------------------------------------
(* Properties                                                              *)

ClientState ==
    [at : Step \cup {"idle"}, why : Purpose, token : Token \cup {Null},
     seen : Record!SourceState \cup {Null}, now : Int, commitAt : Int, ends : Int,
     retried : BOOLEAN, retained : Positive \cup {Null},
     fetched : Text \cup {Absent, Null}, answer : Reply]

TypeOK ==
    /\ state \in Record!SourceState
    /\ versions \in SUBSET Positive
    /\ objects \in SUBSET [content : Content, owner : Token]
    /\ lease \in [owner : Token, expiresAt : Int] \cup {Null}
    /\ client \in [Client -> ClientState]
    /\ clock \in 0 .. MaxClock
    /\ lost \in SUBSET Token

\* Staged objects, version rows and leases notwithstanding, the opinion is the one
\* record that learns an observation at a time.
ImplementsRecord == Record!RecordSpec

\* The text of every version in D1 is in R2: it was there before the row, and no
\* lookup that stages, loses its lease and cleans up takes it away, except one that
\* was never told that it had committed.
EvidenceStored ==
    \A v \in versions : ObjectOf(v.cluster) \in objects \/ v.cluster.owner \in lost

\* Equal texts are one object, however many representations and owners there are.
OneObjectPerContent ==
    \A v, w \in versions : v.cluster.content = w.cluster.content => v.cluster.owner = w.cluster.owner

\* The text the state refers to, also the one in doubt, has a row: the read of it
\* can fail only for the time of retrieval or a lost object.
Versioned ==
    Record!Retained(state) # Null =>
        \E v \in versions : v.cluster = Record!Retained(state).cluster

\* What was stored during the lookup supports the answer.
Supports(s, answer) ==
    \/ answer.kind = "found" /\ s.kind = "positive" /\ s.positive = answer.positive
    \/ answer.kind = "source_changed" /\ s.kind = "reversal_pending"

\* A lookup answers what was stored at some moment since it began, not what an
\* owner has fetched when its lease was gone, and no text already in doubt.
AnswersAreCurrent ==
    \A c \in Client :
        client[c].at \in {"releasing", "answered"} /\ client[c].answer # Indeterminate =>
            \E s \in during[c] : Supports(s, client[c].answer)

\* A lookup to which CourtListener has just said that there is no text never
\* answers with the text it had retained, whoever wins and whatever fails.
AbsenceSuppressesRetained ==
    [][\A c \in Client :
          client[c].fetched = Absent /\ client'[c].at = "answered" /\ client[c].retained # Null =>
              client'[c].answer # Found(client[c].retained)]_vars

\* A state that does not match its row is never read, refreshed or replaced again:
\* the opinion stays unavailable.
Mismatched == state.kind = "positive" /\ state.positive \notin versions
MismatchLasts == [][Mismatched => Mismatched']_vars

\* What a refresh has stored can be read: "refreshes a stale same-byte
\* representation without duplicating R2".
RevalidatedIsReadable == state.kind = "positive" => state.positive \in versions

\* The owner of the lease purges the expired negative it has read: "purges a
\* standalone negative exactly at the twenty-four-hour boundary".
OwnerPurges ==
    \A c \in Client : client[c].at = "purge_refused" => ~OwnsActiveLease(client[c], client[c].now)

\* An absence, once stored, is never refreshed, replaced or purged, whatever
\* CourtListener has later: the consequence of SameJson in production.
NegativeLasts == [][state.kind = "negative" => state' = state]_vars

-----------------------------------------------------------------------------
(* The inductive invariant: of the rows, and of each lookup                *)

\* Lookups are told apart by their tokens.
TokensDiffer ==
    \A c, d \in Client :
        /\ client[c].at # "idle" <=> client[c].token \in Token
        /\ c # d /\ client[c].token = client[d].token => client[c].token = Null

Fetching == {"fetching", "finding", "verifying", "uploading", "filling", "stamping", "committing"}
Filling == {"filling", "stamping", "committing"}

\* The times at which a lookup judges and observes are not ahead of its clock.
Punctual(c, k) ==
    k.at \in {"purging", "purge_refused"} \cup Fetching => k.now \in Instants /\ k.now <= Now(c)

\* As long as the lease is its own, what a lookup has read is what is stored, it
\* matches its row, and there is a reason to fetch.
OwnerSeesState(k) ==
    OwnsRow(k) =>
        /\ k.at \in {"object", "version", "judging"} /\ k.why = "again" /\ k.seen # Null =>
              k.seen = state
        /\ k.at \in {"purging", "stamping", "committing"} => k.seen = state
        /\ k.at = "judging" /\ k.why = "again" /\ k.seen # Null => ~Mismatched
        /\ k.at \in Fetching =>
              RequiresRevalidation(state, k.now) /\ state.kind # "negative" /\ ~Mismatched

PurgeJudged(k) ==
    /\ k.at = "purging" => StaleNegative(k.seen, k.now)
    /\ k.at = "purge_refused" /\ CallerOrder = "schema" => ~OwnsActiveLease(k, k.now)

\* What is about to be committed is in R2: staged by the lookup itself, and then no
\* version has this content while the lease is its own; or taken from a version.
FetchedStored(k) ==
    /\ k.at \in {"finding", "verifying", "uploading", "unstaging"} => k.fetched \in Text
    /\ k.at \in {"finding", "uploading", "unstaging"} => Staged(k)
    /\ k.at = "verifying" => ~Staged(k)
    /\ k.at \in Filling => k.fetched \in Text \cup {Absent}
    /\ k.at \in Filling /\ Staged(k) => ObjectOf(k.fetched) \in objects
    /\ k.at \in Filling \cup {"uploading"} /\ Staged(k) /\ OwnsRow(k) =>
          \A v \in versions : v.cluster.content # k.fetched.content
    /\ k.at \in Filling \cup {"verifying"} /\ k.fetched # Absent /\ ~Staged(k) =>
          \E v \in versions : ObjectOf(v.cluster) = ObjectOf(k.fetched)

\* No version is of a lookup that has still to commit.
Unpublished(k) ==
    /\ \/ k.at \in {"reading", "object", "version", "judging"} /\ k.why # "winner"
       \/ k.at \in {"acquiring", "refused", "waiting", "purging", "purge_refused"} \cup Fetching
       => \A v \in versions : v.cluster.owner # k.token
    /\ k.at = "unstaging" =>
          \A v \in versions : v.cluster.owner = k.token => k.token \in lost

LookupOK(c, k) ==
    /\ Punctual(c, k)
    /\ OwnerSeesState(k)
    /\ PurgeJudged(k)
    /\ FetchedStored(k)
    /\ Unpublished(k)

RowsOK ==
    /\ EvidenceStored
    /\ OneObjectPerContent
    /\ Versioned

IInv ==
    /\ TypeOK
    /\ TokensDiffer
    /\ RowsOK
    /\ \A c \in Client : LookupOK(c, client[c])

\* What a lookup under way has read, has retained or will answer was stored since it began.
ReadsAreCurrent ==
    /\ during \in [Client -> SUBSET Record!SourceState]
    /\ \A c \in Client :
          client[c].at # "idle" =>
              /\ state \in during[c]
              /\ client[c].seen # Null => client[c].seen \in during[c]
              /\ \A reply \in {Fallback(client[c]), client[c].answer} :
                    reply # Indeterminate => \E s \in during[c] : Supports(s, reply)

\* A lookup that was told of an absence has it to store, or reads who won; and where a
\* text has been retained, what is stored after it retains one too.
AbsenceHeard ==
    \A c \in Client :
        LET k == client[c] IN
        /\ k.fetched = Absent =>
              \/ k.at \in Filling
              \/ k.at \in {"reading", "object", "version", "judging"} /\ k.why = "winner"
        /\ k.retained # Null => Record!Retained(state) # Null
        /\ k.seen # Null /\ Record!Retained(k.seen) # Null => Record!Retained(state) # Null
        /\ k.seen # Null /\ k.retained # Null => Record!Retained(k.seen) # Null

\* What the history of a lookup keeps, given IInv.
HistoryInv == ReadsAreCurrent /\ AbsenceHeard
=============================================================================
