------------------------ MODULE CitationCacheProofs ------------------------
(***************************************************************************)
(* The citation cache, for any lookups, clocks and periods: the inductive  *)
(* invariant, and that the two rows behave as the record of CitationRecord.*)
(***************************************************************************)
EXTENDS CitationCache, TLAPS

USE DEF Empty, PositiveState, NegativeState, ReversalPending

-----------------------------------------------------------------------------
(* The pure operators                                                      *)

LEMMA RecordObservationType ==
    ASSUME NEW s \in SourceState, NEW observation \in Observation, NEW now \in Int
    PROVE  RecordObservation(s, observation, now) \in SourceState
<1>1. CASE observation # Absent
      BY <1>1 DEF Observation, Positive, SourceState, RecordObservation
<1>2. CASE observation = Absent
  <2>1. CASE s.kind = "empty"
        BY <1>2, <2>1 DEF SourceState, RecordObservation
  <2>2. CASE s.kind = "positive"
        BY <1>2, <2>2 DEF SourceState, RecordObservation
  <2>3. CASE s.kind = "negative"
        BY <1>2, <2>3 DEF SourceState, RecordObservation
  <2>4. CASE s.kind = "reversal_pending"
        BY <1>2, <2>4 DEF SourceState, RecordObservation
  <2> QED BY <2>1, <2>2, <2>3, <2>4 DEF SourceState
<1> QED BY <1>1, <1>2

LEMMA PurgeType ==
    ASSUME NEW s \in SourceState, NEW now \in Int, StaleNegative(s, now)
    PROVE  /\ PurgeExpiredNegative(s, now) \in SourceState
           /\ PurgeExpiredNegative(s, now).kind \in {"empty", "reversal_pending"}
<1>1. /\ s.kind = "negative" /\ s.negative \in Int
      /\ s.superseded \in Positive \cup {Null}
      BY DEF StaleNegative, SourceState
<1>2. CASE s.superseded = Null
      BY <1>2 DEF PurgeExpiredNegative, SourceState
<1>3. CASE s.superseded # Null
      BY <1>1, <1>3 DEF PurgeExpiredNegative, SourceState
<1> QED BY <1>2, <1>3

\* What needs refreshing still does later.
LEMMA RevalidationLasts ==
    ASSUME NEW s \in SourceState, NEW now \in Int, NEW later \in Int, now <= later,
           RequiresRevalidation(s, now)
    PROVE  RequiresRevalidation(s, later)
<1> USE SourceAssumption DEF RequiresRevalidation, StaleNegative, IsFresh
<1>1. CASE s.kind = "positive"
  <2>1. s.positive.retrievedAt \in Int
        BY <1>1 DEF SourceState, Positive
  <2> QED BY <1>1, <2>1
<1>2. CASE s.kind = "negative"
  <2>1. s.negative \in Int
        BY <1>2 DEF SourceState
  <2> QED BY <1>2, <2>1
<1> QED BY <1>1, <1>2 DEF SourceState

LEMMA ObservationForType ==
    ASSUME NEW s \in SourceState, NEW now \in Int
    PROVE  ObservationFor(s, now) \in Reply
<1>1. CASE s.kind = "positive"
  <2>1. s.positive \in Positive
        BY <1>1 DEF SourceState
  <2>2. IsFresh(s.positive.retrievedAt, now, PositiveFreshness) \in BOOLEAN
        BY DEF IsFresh
  <2> QED BY <1>1, <2>1, <2>2 DEF ObservationFor, Reply
<1>2. CASE s.kind = "negative"
  <2>1. s.negative \in Int
        BY <1>2 DEF SourceState
  <2> QED BY <1>2, <2>1 DEF ObservationFor, Reply
<1> QED BY <1>1, <1>2 DEF ObservationFor, Reply, SourceState

LEMMA RetainedObservationType ==
    ASSUME NEW s \in SourceState, NEW now \in Int, NEW otherwise \in Reply
    PROVE  RetainedObservation(s, now, otherwise) \in Reply
BY ObservationForType DEF RetainedObservation

LEMMA NowType ==
    ASSUME TypeOK, NEW c \in Client
    PROVE  Now(c) \in Int /\ Now(c) \in Instants
BY CacheAssumption DEF TypeOK, Now, Instants

LEMMA InstantsAreInt == Instants \subseteq Int
BY CacheAssumption DEF Instants

-----------------------------------------------------------------------------
(* One lookup at a time                                                    *)

\* What the invariant says of the lookup c, were it in the state k.
LookupOK(c, k) ==
    /\ k.at \in {"purging", "purge_refused", "changed", "changed_read", "fetching",
                 "fetched", "filling"} =>
          k.now \in Instants /\ k.now <= Now(c)
    /\ OwnsRow(k) =>
          /\ k.at \in {"reread", "purging", "filling"} => k.seen = source
          /\ k.at \in {"fetching", "fetched", "filling"} =>
                RequiresRevalidation(source, k.now) /\ source.kind # "negative"
    /\ k.at = "purging" => StaleNegative(k.seen, k.now)
    /\ k.at = "purge_refused" => ~OwnsActiveLease(k)
    /\ k.at \in {"fetched", "filling"} => k.fetched \in Observation
    /\ k.at \notin {"changed", "changed_read"}

LEMMA EachLookup ==
    IInv <=> TypeOK /\ TokensDiffer /\ \A c \in Client : LookupOK(c, client[c])
BY DEF IInv, ClocksAdvance, OwnerSeesSource, PurgesJudged, FetchedSomething, NoRacingWriter, LookupOK

LEMMA EachLookupAfter ==
    ASSUME TypeOK', TokensDiffer', \A c \in Client : LookupOK(c, client[c])'
    PROVE  IInv'
BY DEF IInv, ClocksAdvance, OwnerSeesSource, PurgesJudged, FetchedSomething, NoRacingWriter, LookupOK

\* A step of one lookup that writes nothing to D1 needs a look at it alone.
LEMMA LocalStep ==
    ASSUME IInv, NEW c \in Client, NEW k \in ClientState,
           client[c].at # "idle", k.at # "idle", k.token = client[c].token,
           Becomes(c, k), UNCHANGED <<source, lease, clock>>, LookupOK(c, k)
    PROVE  IInv'
<1>1. TypeOK /\ TokensDiffer /\ \A d \in Client : LookupOK(d, client[d])
      BY EachLookup
<1>2. /\ client' \in [Client -> ClientState]
      /\ client'[c] = k
      /\ \A d \in Client \ {c} : client'[d] = client[d]
      BY <1>1 DEF TypeOK, Becomes
<1>3. TypeOK'
      BY <1>1, <1>2 DEF TypeOK
<1>4. TokensDiffer'
  <2>1. \A d \in Client : /\ client'[d].token = client[d].token
                          /\ client'[d].at = "idle" <=> client[d].at = "idle"
        BY <1>2
  <2> QED BY <1>1, <2>1 DEF TokensDiffer
<1>5. \A d \in Client : LookupOK(d, client'[d])
      BY <1>1, <1>2
<1>6. \A d \in Client : LookupOK(d, client[d])'
      BY <1>5 DEF LookupOK, OwnsRow, OwnsActiveLease, Now
<1> QED BY <1>3, <1>4, <1>6, EachLookupAfter

\* Nothing is said of a lookup in any of these places.
LEMMA QuietLookup ==
    ASSUME NEW c \in Client, NEW k,
           k.at \in {"acquiring", "refused", "waiting", "sleeping", "rechecked", "leased",
                     "releasing", "answering", "answered"}
    PROVE  LookupOK(c, k)
BY DEF LookupOK

LEMMA AnsweredType ==
    ASSUME NEW k \in ClientState, k.token \in Token \cup {Null}, NEW answer \in Reply
    PROVE  /\ Answered(k, answer) \in ClientState
           /\ Answered(k, answer).at = "answered"
           /\ Answered(k, answer).token = k.token
<1>1. Unavailable \in Reply /\ Empty \in SourceState
      BY DEF Reply, SourceState
<1>2. Idle \in ClientState
      BY <1>1 DEF Idle, ClientState
<1> QED BY <1>2 DEF Answered, ClientState, Step

LEMMA AnsweredStep ==
    ASSUME IInv, NEW c \in Client, client[c].at # "idle", NEW answer \in Reply,
           Becomes(c, Answered(client[c], answer)), UNCHANGED <<source, lease, clock>>
    PROVE  IInv'
<1>1. client[c] \in ClientState
      BY DEF IInv, TypeOK
<1>2. client[c].token \in Token \cup {Null}
      BY <1>1 DEF ClientState
<1> DEFINE k == Answered(client[c], answer)
<1>3. k \in ClientState /\ k.at = "answered" /\ k.token = client[c].token
      BY <1>1, <1>2, AnsweredType
<1>4. LookupOK(c, k)
      BY <1>3, QuietLookup
<1> HIDE DEF k
<1> QED BY <1>3, <1>4, LocalStep DEF k

\* The steps of a lookup that write nothing to D1.
LocalSteps(c) ==
    \/ Begin(c) \/ ReadHeldLease(c) \/ Wait(c) \/ Recheck(c) \/ JudgeRecheck(c)
    \/ Reread(c) \/ JudgeReread(c) \/ JudgeRefusedPurge(c) \/ Fetch(c) \/ ReadForFill(c)
    \/ Answer(c) \/ Fail(c)

LEMMA LocalStepsKeep ==
    ASSUME IInv, NEW c \in Client, LocalSteps(c)
    PROVE  IInv'
<1>1. /\ TypeOK /\ TokensDiffer /\ LookupOK(c, client[c])
      /\ source \in SourceState /\ Unavailable \in Reply /\ Empty \in SourceState
      /\ Now(c) \in Int /\ Now(c) \in Instants
      BY EachLookup, NowType DEF TypeOK, Reply, SourceState
<1>2. /\ client[c] \in ClientState
      /\ client[c].seen \in SourceState /\ client[c].now \in Int /\ client[c].ends \in Int
      /\ client[c].fallback \in Reply /\ client[c].answer \in Reply
      /\ client[c].token \in Token \cup {Null}
      /\ client[c].fetched \in Observation \cup {Null}
      BY <1>1 DEF TypeOK, ClientState
<1>3. CASE Begin(c)
  <2> DEFINE k == [client[c] EXCEPT
                     !.at = "acquiring", !.now = Now(c), !.seen = Empty,
                     !.fallback = RetainedObservation(client[c].seen, Now(c), Unavailable)]
  <2>1. RetainedObservation(client[c].seen, Now(c), Unavailable) \in Reply
        BY <1>1, <1>2, RetainedObservationType
  <2>2. /\ k \in ClientState /\ k.at = "acquiring" /\ k.token = client[c].token
        BY <1>1, <1>2, <2>1 DEF ClientState, Step
  <2> HIDE DEF k
  <2>3. LookupOK(c, k)
        BY <2>2, QuietLookup
  <2>4. ObservationFor(client[c].seen, Now(c)) \in Reply
        BY <1>1, <1>2, ObservationForType
  <2>5. \/ Becomes(c, k)
        \/ Becomes(c, Answered(client[c], ObservationFor(client[c].seen, Now(c))))
        BY <1>3 DEF Begin, k
  <2>6. client[c].at # "idle" /\ UNCHANGED <<source, lease, clock>>
        BY <1>3 DEF Begin
  <2> QED BY <2>2, <2>3, <2>4, <2>5, <2>6, AnsweredStep, LocalStep
<1>4. CASE ReadHeldLease(c)
  <2> DEFINE again == [client[c] EXCEPT !.at = "acquiring"]
             wait == [client[c] EXCEPT !.at = "waiting", !.ends = lease.expiresAt]
  <2>1. client[c].at # "idle" /\ UNCHANGED <<source, lease, clock>>
        BY <1>4 DEF ReadHeldLease
  <2>2. CASE lease = Null
    <3>1. again \in ClientState /\ again.at = "acquiring" /\ again.token = client[c].token
          BY <1>2 DEF ClientState, Step
    <3>2. Becomes(c, again)
          BY <1>4, <2>2 DEF ReadHeldLease
    <3> HIDE DEF again
    <3>3. LookupOK(c, again)
          BY <3>1, QuietLookup
    <3> QED BY <2>1, <3>1, <3>2, <3>3, LocalStep
  <2>3. CASE lease # Null
    <3>0. lease.expiresAt \in Int
          BY <1>1, <2>3 DEF TypeOK
    <3>1. wait \in ClientState /\ wait.at = "waiting" /\ wait.token = client[c].token
          BY <1>2, <3>0 DEF ClientState, Step
    <3>2. Becomes(c, wait)
          BY <1>4, <2>3 DEF ReadHeldLease
    <3> HIDE DEF wait
    <3>3. LookupOK(c, wait)
          BY <3>1, QuietLookup
    <3> QED BY <2>1, <3>1, <3>2, <3>3, LocalStep
  <2> QED BY <2>2, <2>3
<1>5. CASE Wait(c)
  <2> DEFINE k == [client[c] EXCEPT !.at = "sleeping", !.now = Now(c)]
  <2>1. k \in ClientState /\ k.at = "sleeping" /\ k.token = client[c].token
        BY <1>1, <1>2 DEF ClientState, Step
  <2> HIDE DEF k
  <2>2. LookupOK(c, k)
        BY <2>1, QuietLookup
  <2>3. Becomes(c, k) \/ Becomes(c, Answered(client[c], client[c].fallback))
        BY <1>5 DEF Wait, k
  <2>4. client[c].at # "idle" /\ UNCHANGED <<source, lease, clock>>
        BY <1>5 DEF Wait
  <2> QED BY <1>2, <2>1, <2>2, <2>3, <2>4, AnsweredStep, LocalStep
<1>6. CASE Recheck(c)
  <2> DEFINE k == [client[c] EXCEPT !.at = "rechecked", !.seen = source]
  <2>1. k \in ClientState /\ k.at = "rechecked" /\ k.token = client[c].token
        BY <1>1, <1>2 DEF ClientState, Step
  <2> HIDE DEF k
  <2>2. LookupOK(c, k)
        BY <2>1, QuietLookup
  <2>3. Becomes(c, k) /\ client[c].at # "idle" /\ UNCHANGED <<source, lease, clock>>
        BY <1>6 DEF Recheck, k
  <2> QED BY <2>1, <2>2, <2>3, LocalStep
<1>7. CASE JudgeRecheck(c)
  <2> DEFINE k == [client[c] EXCEPT !.at = "waiting", !.seen = Empty]
             observation == IF RequiresRevalidation(client[c].seen, Now(c))
                            THEN RetainedObservation(client[c].seen, Now(c), Unavailable)
                            ELSE ObservationFor(client[c].seen, Now(c))
  <2>1. observation \in Reply
        BY <1>1, <1>2, ObservationForType, RetainedObservationType
  <2>2. k \in ClientState /\ k.at = "waiting" /\ k.token = client[c].token
        BY <1>1, <1>2 DEF ClientState, Step
  <2> HIDE DEF k
  <2>3. LookupOK(c, k)
        BY <2>2, QuietLookup
  <2>4. \/ Becomes(c, Answered(client[c], observation))
        \/ Becomes(c, Answered(client[c], client[c].fallback))
        \/ Becomes(c, k)
        BY <1>7 DEF JudgeRecheck, k
  <2>5. client[c].at # "idle" /\ UNCHANGED <<source, lease, clock>>
        BY <1>7 DEF JudgeRecheck
  <2> HIDE DEF observation
  <2> QED BY <1>2, <2>1, <2>2, <2>3, <2>4, <2>5, AnsweredStep, LocalStep
<1>8. CASE Reread(c)
  <2> DEFINE k == [client[c] EXCEPT !.at = "reread", !.seen = source]
  <2>1. k \in ClientState /\ k.at = "reread" /\ k.token = client[c].token /\ k.seen = source
        BY <1>1, <1>2 DEF ClientState, Step
  <2>2. client[c].at = "leased"
        BY <1>1, <1>8 DEF Reread, LookupOK
  <2>3. Becomes(c, k) /\ UNCHANGED <<source, lease, clock>>
        BY <1>8, <2>2 DEF Reread
  <2>4. LookupOK(c, k)
        BY <2>1 DEF LookupOK
  <2> HIDE DEF k
  <2> QED BY <2>1, <2>2, <2>3, <2>4, LocalStep
<1>9. CASE JudgeReread(c)
  <2> DEFINE seen == client[c].seen
             fallback == RetainedObservation(seen, Now(c), client[c].fallback)
             judged == [client[c] EXCEPT !.now = Now(c), !.fallback = fallback]
             fresh == [judged EXCEPT !.at = "releasing",
                                     !.answer = ObservationFor(judged.seen, Now(c))]
             purge == [judged EXCEPT !.at = "purging"]
             fetch == [judged EXCEPT !.at = "fetching"]
  <2>1. client[c].at = "reread"
        BY <1>1, <1>9 DEF JudgeReread, LookupOK
  <2>2. fallback \in Reply /\ ObservationFor(seen, Now(c)) \in Reply
        BY <1>1, <1>2, ObservationForType, RetainedObservationType
  <2>3. /\ judged \in ClientState /\ judged.token = client[c].token
        /\ judged.seen = seen /\ judged.now = Now(c) /\ judged.at = "reread"
        BY <1>1, <1>2, <2>1, <2>2 DEF ClientState
  <2>4. UNCHANGED <<source, lease, clock>>
        BY <1>9 DEF JudgeReread
  <2>5. Becomes(c, CASE ~RequiresRevalidation(judged.seen, Now(c)) -> fresh
                     [] StaleNegative(judged.seen, Now(c)) /\ judged.at = "reread" -> purge
                     [] StaleNegative(judged.seen, Now(c)) /\ judged.at = "changed_read" ->
                           [judged EXCEPT !.at = "releasing"]
                     [] OTHER -> fetch)
        BY <1>9 DEF JudgeReread
  <2> HIDE DEF fallback, judged
  <2>6. CASE ~RequiresRevalidation(seen, Now(c))
    <3>1. ~StaleNegative(seen, Now(c))
          BY <2>6 DEF RequiresRevalidation
    <3>2. Becomes(c, fresh)
          BY <2>3, <2>5, <2>6, <3>1
    <3>3. fresh \in ClientState /\ fresh.at = "releasing" /\ fresh.token = client[c].token
          BY <2>2, <2>3 DEF ClientState, Step
    <3> HIDE DEF fresh
    <3>4. LookupOK(c, fresh)
          BY <3>3, QuietLookup
    <3> QED BY <2>1, <2>4, <3>2, <3>3, <3>4, LocalStep
  <2>7. CASE StaleNegative(seen, Now(c))
    <3>1. RequiresRevalidation(seen, Now(c))
          BY <2>7 DEF RequiresRevalidation
    <3>2. Becomes(c, purge)
          BY <2>3, <2>5, <2>7, <3>1
    <3>3. /\ purge \in ClientState /\ purge.at = "purging" /\ purge.token = client[c].token
          /\ purge.seen = seen /\ purge.now = Now(c)
          BY <2>3 DEF ClientState, Step
    <3>4. OwnsRow(purge) => purge.seen = source
          BY <1>1, <2>1, <3>3 DEF LookupOK, OwnsRow
    <3>5. LookupOK(c, purge)
          BY <1>1, <2>7, <3>3, <3>4 DEF LookupOK
    <3> HIDE DEF purge
    <3> QED BY <2>1, <2>4, <3>2, <3>3, <3>5, LocalStep
  <2>8. CASE RequiresRevalidation(seen, Now(c)) /\ ~StaleNegative(seen, Now(c))
    <3>1. Becomes(c, fetch)
          BY <2>3, <2>5, <2>8
    <3>2. /\ fetch \in ClientState /\ fetch.at = "fetching" /\ fetch.token = client[c].token
          /\ fetch.now = Now(c)
          BY <2>3 DEF ClientState, Step
    <3>3. OwnsRow(fetch) => seen = source
          BY <1>1, <2>1, <3>2 DEF LookupOK, OwnsRow
    <3>4. seen.kind # "negative"
          BY <2>8 DEF RequiresRevalidation
    <3>5. LookupOK(c, fetch)
          BY <1>1, <2>8, <3>2, <3>3, <3>4 DEF LookupOK
    <3> HIDE DEF fetch
    <3> QED BY <2>1, <2>4, <3>1, <3>2, <3>5, LocalStep
  <2> QED BY <2>6, <2>7, <2>8
<1>10. CASE JudgeRefusedPurge(c)
  <2>1. /\ client[c].at = "purge_refused" /\ ~OwnsActiveLease(client[c])
        /\ UNCHANGED <<source, lease, clock>>
        BY <1>1, <1>10 DEF JudgeRefusedPurge, LookupOK
  <2>2. Becomes(c, Answered(client[c], client[c].fallback))
        BY <1>10, <2>1 DEF JudgeRefusedPurge
  <2> QED BY <1>2, <2>1, <2>2, AnsweredStep
<1>11. CASE Fetch(c)
  <2>1. client[c].at = "fetching" /\ UNCHANGED <<source, lease, clock>>
        BY <1>11 DEF Fetch
  <2>2. ASSUME NEW k, Becomes(c, k),
               k = [client[c] EXCEPT
                      !.at = "releasing", !.seen = Empty, !.ends = 0,
                      !.answer = RetainedObservation(client[c].seen, client[c].now, Unavailable)]
        PROVE  IInv'
    <3>1. RetainedObservation(client[c].seen, client[c].now, Unavailable) \in Reply
          BY <1>1, <1>2, RetainedObservationType
    <3>2. k = [at |-> "releasing", token |-> client[c].token, seen |-> Empty,
               now |-> client[c].now, ends |-> 0, fetched |-> client[c].fetched,
               fallback |-> client[c].fallback,
               answer |-> RetainedObservation(client[c].seen, client[c].now, Unavailable)]
          BY <1>2, <2>2 DEF ClientState
    <3>3. k \in ClientState /\ k.at = "releasing" /\ k.token = client[c].token
          BY <1>1, <1>2, <3>1, <3>2 DEF ClientState, Step
    <3>4. LookupOK(c, k)
          BY <3>3, QuietLookup
    <3> QED BY <2>1, <2>2, <3>3, <3>4, LocalStep
  <2>3. ASSUME NEW o \in Observation, NEW k, Becomes(c, k),
               k = [client[c] EXCEPT !.at = "fetched", !.fetched = o, !.now = Now(c),
                                     !.seen = Empty, !.ends = 0]
        PROVE  IInv'
    <3>0. o \in Observation
          BY <2>3
    <3>1. k = [at |-> "fetched", token |-> client[c].token, seen |-> Empty,
               now |-> Now(c), ends |-> 0, fetched |-> o,
               fallback |-> client[c].fallback, answer |-> client[c].answer]
          BY <1>2, <2>3 DEF ClientState
    <3>2. /\ k \in ClientState /\ k.at = "fetched" /\ k.now = Now(c)
          /\ k.token = client[c].token /\ k.fetched = o
          BY <1>1, <1>2, <3>0, <3>1 DEF ClientState, Step
    <3>3. OwnsRow(k) => RequiresRevalidation(source, Now(c)) /\ source.kind # "negative"
      <4>1. OwnsRow(k) =>
               RequiresRevalidation(source, client[c].now) /\ source.kind # "negative"
            BY <1>1, <2>1, <3>2 DEF LookupOK, OwnsRow
      <4>2. client[c].now <= Now(c)
            BY <1>1, <2>1 DEF LookupOK
      <4> QED BY <1>1, <1>2, <4>1, <4>2, RevalidationLasts
    <3>4. LookupOK(c, k)
          BY <1>1, <3>0, <3>2, <3>3 DEF LookupOK
    <3> QED BY <2>1, <2>3, <3>2, <3>4, LocalStep
  <2> QED BY <1>11, <2>2, <2>3 DEF Fetch
<1>12. CASE ReadForFill(c)
  <2> DEFINE k == [client[c] EXCEPT !.at = "filling", !.seen = source]
  <2>1. /\ client[c].at = "fetched" /\ Becomes(c, k) /\ UNCHANGED <<source, lease, clock>>
        BY <1>12 DEF ReadForFill
  <2>2. /\ k \in ClientState /\ k.at = "filling" /\ k.token = client[c].token
        /\ k.seen = source /\ k.now = client[c].now /\ k.fetched = client[c].fetched
        BY <1>1, <1>2 DEF ClientState, Step
  <2>3. LookupOK(c, k)
        BY <1>1, <2>1, <2>2 DEF LookupOK, OwnsRow
  <2> HIDE DEF k
  <2> QED BY <2>1, <2>2, <2>3, LocalStep
<1>13. CASE Answer(c)
  <2>1. /\ client[c].at # "idle" /\ Becomes(c, Answered(client[c], client[c].answer))
        /\ UNCHANGED <<source, lease, clock>>
        BY <1>13 DEF Answer
  <2> QED BY <1>2, <2>1, AnsweredStep
<1>14. CASE Fail(c)
  <2>1. /\ client[c].at # "idle" /\ Becomes(c, Answered(client[c], client[c].fallback))
        /\ UNCHANGED <<source, lease, clock>>
        BY <1>14 DEF Fail
  <2> QED BY <1>2, <2>1, AnsweredStep
<1> QED BY <1>3, <1>4, <1>5, <1>6, <1>7, <1>8, <1>9, <1>10, <1>11, <1>12, <1>13, <1>14
        DEF LocalSteps

-----------------------------------------------------------------------------
(* The steps that write to D1, begin or end a lookup, or pass time         *)

\* A step of the lookup c leaves every other lookup what it is.
LEMMA OneMoves ==
    ASSUME TypeOK, NEW c \in Client, NEW k, Becomes(c, k)
    PROVE  /\ client'[c] = k
           /\ \A d \in Client \ {c} : client'[d] = client[d]
           /\ k \in ClientState => client' \in [Client -> ClientState]
BY DEF TypeOK, Becomes

\* With the same tokens, lookups stay apart.
LEMMA SameTokens ==
    ASSUME TypeOK, TokensDiffer, NEW c \in Client, NEW k, Becomes(c, k),
           k.token = client[c].token, k.at # "idle", client[c].at # "idle"
    PROVE  TokensDiffer'
<1>1. \A d \in Client : /\ client'[d].token = client[d].token
                        /\ client'[d].at = "idle" <=> client[d].at = "idle"
      BY OneMoves
<1> QED BY <1>1 DEF TokensDiffer

\* Who owns the lease is the only one who does.
LEMMA OneOwner ==
    ASSUME TypeOK, TokensDiffer, NEW c \in Client, NEW d \in Client, c # d,
           client[c].at # "idle", OwnsRow(client[c])
    PROVE  ~OwnsRow(client[d])
BY CacheAssumption DEF TokensDiffer, OwnsRow

LEMMA LookKeeps ==
    ASSUME IInv, NEW c \in Client, NEW token \in Token, Look(c, token)
    PROVE  IInv'
<1>1. TypeOK /\ TokensDiffer /\ \A d \in Client : LookupOK(d, client[d])
      BY EachLookup
<1>0. PICK k : /\ k = [Idle EXCEPT !.at = "looked", !.token = token, !.seen = source]
               /\ Becomes(c, k)
      BY DEF Look
<1>2. k = [at |-> "looked", token |-> token, seen |-> source, now |-> 0, ends |-> 0,
           fetched |-> Null, fallback |-> Unavailable, answer |-> Unavailable]
      BY <1>0 DEF Idle
<1>3. Becomes(c, k) /\ UNCHANGED <<source, lease, clock>> /\ Fresh(token)
      BY <1>0 DEF Look
<1>4. k \in ClientState /\ k.at = "looked" /\ k.token = token
  <2>1. Unavailable \in Reply /\ source \in SourceState
        BY <1>1 DEF Reply, TypeOK
  <2> QED BY <1>2, <2>1 DEF ClientState, Step
<1>5. /\ client' \in [Client -> ClientState]
      /\ client'[c] = k /\ \A d \in Client \ {c} : client'[d] = client[d]
      BY <1>1, <1>3, <1>4, OneMoves
<1>6. TypeOK'
      BY <1>1, <1>3, <1>5 DEF TypeOK
<1>7. TokensDiffer'
      BY <1>1, <1>3, <1>4, <1>5, CacheAssumption DEF TokensDiffer, Fresh
<1>8. \A d \in Client : LookupOK(d, client'[d])
      BY <1>1, <1>4, <1>5 DEF LookupOK
<1>9. \A d \in Client : LookupOK(d, client[d])'
      BY <1>3, <1>8 DEF LookupOK, OwnsRow, OwnsActiveLease, Now
<1> QED BY <1>6, <1>7, <1>9, EachLookupAfter

LEMMA EndKeeps ==
    ASSUME IInv, NEW c \in Client, Becomes(c, Idle), UNCHANGED <<source, lease, clock>>
    PROVE  IInv'
<1>1. TypeOK /\ TokensDiffer /\ \A d \in Client : LookupOK(d, client[d])
      BY EachLookup
<1>2. /\ Idle \in ClientState /\ Idle.at = "idle" /\ Idle.token = Null
  <2>1. Unavailable \in Reply /\ Empty \in SourceState
        BY DEF Reply, SourceState
  <2> QED BY <2>1 DEF Idle, ClientState
<1>3. /\ client' \in [Client -> ClientState]
      /\ client'[c] = Idle /\ \A d \in Client \ {c} : client'[d] = client[d]
      BY <1>1, <1>2, OneMoves
<1>4. TypeOK'
      BY <1>1, <1>3 DEF TypeOK
<1>5. TokensDiffer'
      BY <1>1, <1>2, <1>3, CacheAssumption DEF TokensDiffer
<1>6. \A d \in Client : LookupOK(d, client'[d])
  <2>1. ~OwnsRow(Idle)
        BY <1>1, <1>2, CacheAssumption DEF OwnsRow, TypeOK
  <2> QED BY <1>1, <1>2, <1>3, <2>1 DEF LookupOK
<1>7. \A d \in Client : LookupOK(d, client[d])'
      BY <1>6 DEF LookupOK, OwnsRow, OwnsActiveLease, Now
<1> QED BY <1>4, <1>5, <1>7, EachLookupAfter

LEMMA AcquireLeaseKeeps ==
    ASSUME IInv, NEW c \in Client, AcquireLease(c)
    PROVE  IInv'
<1>1. TypeOK /\ TokensDiffer /\ \A d \in Client : LookupOK(d, client[d])
      BY EachLookup
<1>2. /\ client[c] \in ClientState /\ client[c].at = "acquiring" /\ client[c].now \in Int
      /\ client[c].token \in Token
      BY <1>1 DEF TypeOK, ClientState, AcquireLease, TokensDiffer
<1>3. UNCHANGED <<source, clock>>
      BY DEF AcquireLease
<1>4. CASE lease = Null \/ lease.expiresAt <= client[c].now
  <2> DEFINE k == [client[c] EXCEPT !.at = "leased", !.ends = client[c].now + Lease]
  <2>1. /\ lease' = [owner |-> client[c].token, expiresAt |-> client[c].now + Lease]
        /\ Becomes(c, k)
        BY <1>4 DEF AcquireLease
  <2>2. k \in ClientState /\ k.at = "leased" /\ k.token = client[c].token
    <3>1. client[c].now + Lease \in Int
          BY <1>2, CacheAssumption
    <3> QED BY <1>2, <3>1 DEF ClientState, Step
  <2> HIDE DEF k
  <2>3. /\ client' \in [Client -> ClientState]
        /\ client'[c] = k /\ \A d \in Client \ {c} : client'[d] = client[d]
        BY <1>1, <2>1, <2>2, OneMoves
  <2>4. TypeOK'
        BY <1>1, <1>2, <1>3, <2>1, <2>3, CacheAssumption DEF TypeOK
  <2>5. TokensDiffer'
        BY <1>1, <1>2, <2>1, <2>2, SameTokens
  <2>6. \A d \in Client \ {c} : ~(lease' # Null /\ lease'.owner = client[d].token)
        BY <1>1, <1>2, <2>1, CacheAssumption DEF TokensDiffer
  <2>7. \A d \in Client : LookupOK(d, client[d])'
        BY <1>1, <1>3, <2>2, <2>3, <2>6 DEF LookupOK, OwnsRow, OwnsActiveLease, Now
  <2> QED BY <2>4, <2>5, <2>7, EachLookupAfter
<1>5. CASE ~(lease = Null \/ lease.expiresAt <= client[c].now)
  <2> DEFINE k == [client[c] EXCEPT !.at = "refused"]
  <2>1. Becomes(c, k) /\ UNCHANGED lease
        BY <1>5 DEF AcquireLease
  <2>2. k \in ClientState /\ k.at = "refused" /\ k.token = client[c].token
        BY <1>2 DEF ClientState, Step
  <2> HIDE DEF k
  <2>3. LookupOK(c, k)
        BY <2>2, QuietLookup
  <2> QED BY <1>2, <1>3, <2>1, <2>2, <2>3, LocalStep
<1> QED BY <1>4, <1>5

LEMMA ReleaseLeaseKeeps ==
    ASSUME IInv, NEW c \in Client, ReleaseLease(c)
    PROVE  IInv'
<1>1. TypeOK /\ TokensDiffer /\ \A d \in Client : LookupOK(d, client[d])
      BY EachLookup
<1>2. client[c] \in ClientState /\ client[c].at = "releasing"
      BY <1>1 DEF TypeOK, ReleaseLease
<1> DEFINE k == [client[c] EXCEPT !.at = "answering"]
<1>3. /\ Becomes(c, k) /\ UNCHANGED <<source, clock>>
      /\ lease' = Null \/ lease' = lease
      BY DEF ReleaseLease
<1>4. k \in ClientState /\ k.at = "answering" /\ k.token = client[c].token
      BY <1>2 DEF ClientState, Step
<1> HIDE DEF k
<1>5. /\ client' \in [Client -> ClientState]
      /\ client'[c] = k /\ \A d \in Client \ {c} : client'[d] = client[d]
      BY <1>1, <1>3, <1>4, OneMoves
<1>6. TypeOK'
      BY <1>1, <1>3, <1>5 DEF TypeOK
<1>7. TokensDiffer'
      BY <1>1, <1>2, <1>3, <1>4, SameTokens
<1>8. \A d \in Client : LookupOK(d, client[d])'
      BY <1>1, <1>3, <1>4, <1>5 DEF LookupOK, OwnsRow, OwnsActiveLease, Now
<1> QED BY <1>6, <1>7, <1>8, EachLookupAfter

\* A purge or a fill that writes the state: only the owner of the lease can, so
\* what the other lookups have read is not relied upon.
LEMMA OwnerWrites ==
    ASSUME IInv, NEW c \in Client, client[c].at # "idle", OwnsRow(client[c]),
           NEW k \in ClientState, k.at # "idle", k.token = client[c].token, Becomes(c, k),
           source' \in SourceState, lease' = lease \/ lease' = Null, UNCHANGED clock,
           LookupOK(c, client[c])'
    PROVE  IInv'
<1>1. TypeOK /\ TokensDiffer /\ \A d \in Client : LookupOK(d, client[d])
      BY EachLookup
<1>2. /\ client' \in [Client -> ClientState]
      /\ client'[c] = k /\ \A d \in Client \ {c} : client'[d] = client[d]
      BY <1>1, OneMoves
<1>3. TypeOK'
      BY <1>1, <1>2 DEF TypeOK
<1>4. TokensDiffer'
      BY <1>1, SameTokens
<1>5. \A d \in Client \ {c} : ~OwnsRow(client[d])
      BY <1>1, OneOwner
<1>6. \A d \in Client \ {c} : LookupOK(d, client[d])'
      BY <1>1, <1>2, <1>5 DEF LookupOK, OwnsRow, OwnsActiveLease, Now
<1> QED BY <1>3, <1>4, <1>6, EachLookupAfter

\* A purge that succeeds is a Forget of the record, and any other no step of it.
LEMMA PurgeKeeps ==
    ASSUME IInv, NEW c \in Client, PurgeExpiredNegativeLease(c)
    PROVE  /\ IInv'
           /\ \/ UNCHANGED <<source, evidence>>
              \/ \E now \in Instants : Record!Forget(now)
<1>1. TypeOK /\ TokensDiffer /\ LookupOK(c, client[c])
      BY EachLookup
<1>2. /\ client[c] \in ClientState /\ client[c].at = "purging"
      /\ client[c].seen \in SourceState /\ client[c].now \in Int
      /\ client[c].token \in Token \cup {Null} /\ client[c].fallback \in Reply
      /\ client[c].answer \in Reply /\ client[c].ends \in Int
      /\ client[c].fetched \in Observation \cup {Null}
      BY <1>1 DEF TypeOK, ClientState, PurgeExpiredNegativeLease
<1>3. /\ StaleNegative(client[c].seen, client[c].now)
      /\ client[c].now \in Instants /\ client[c].now <= Now(c)
      BY <1>1, <1>2 DEF LookupOK
<1>4. UNCHANGED <<lease, clock, evidence>>
      BY DEF PurgeExpiredNegativeLease
<1>5. CASE OwnsActiveLease(client[c]) /\ source = client[c].seen
  <2> DEFINE next == PurgeExpiredNegative(client[c].seen, client[c].now)
             fallback == RetainedObservation(next, client[c].now, client[c].fallback)
  <2>1. next \in SourceState /\ next.kind \in {"empty", "reversal_pending"}
        BY <1>2, <1>3, PurgeType
  <2>2. fallback \in Reply
        BY <1>2, <2>1, RetainedObservationType
  <2>3. source' = next
        BY <1>2, <1>5 DEF PurgeExpiredNegativeLease, Store
  <2>4. PICK k : /\ k = [client[c] EXCEPT !.at = "fetching", !.seen = next, !.fallback = fallback]
                 /\ Becomes(c, k)
        BY <1>5 DEF PurgeExpiredNegativeLease
  <2>5. \E now \in Instants : Record!Forget(now)
        BY <1>3, <1>4, <1>5, <2>3
        DEF Record!Forget, Record!StaleNegative, Record!IsFresh, Record!PurgeExpiredNegative,
            Record!Empty, Record!ReversalPending, StaleNegative, IsFresh, PurgeExpiredNegative
  <2> HIDE DEF next, fallback
  <2>6. /\ k = [at |-> "fetching", token |-> client[c].token, seen |-> next,
                now |-> client[c].now, ends |-> client[c].ends,
                fetched |-> client[c].fetched, fallback |-> fallback,
                answer |-> client[c].answer]
        BY <1>2, <2>4 DEF ClientState
  <2>7. k \in ClientState /\ k.at = "fetching" /\ k.token = client[c].token /\ k.now = client[c].now
        BY <1>2, <2>1, <2>2, <2>6 DEF ClientState, Step
  <2>8. client'[c] = k
        BY <1>1, <2>4, OneMoves
  <2>9. LookupOK(c, client[c])'
    <3>1. RequiresRevalidation(next, client[c].now) /\ next.kind # "negative"
          BY <2>1 DEF RequiresRevalidation
    <3> QED BY <1>3, <1>4, <2>3, <2>7, <2>8, <3>1 DEF LookupOK, Now
  <2>10. OwnsRow(client[c])
        BY <1>5 DEF OwnsActiveLease
  <2>11. IInv'
        BY <1>2, <1>4, <2>1, <2>3, <2>4, <2>7, <2>9, <2>10, OwnerWrites
  <2> QED BY <2>5, <2>11
<1>6. CASE ~(OwnsActiveLease(client[c]) /\ source = client[c].seen)
  <2> DEFINE k == [client[c] EXCEPT !.at = "purge_refused"]
  <2>1. Becomes(c, k) /\ UNCHANGED source
        BY <1>6 DEF PurgeExpiredNegativeLease
  <2>2. /\ k \in ClientState /\ k.at = "purge_refused" /\ k.token = client[c].token
        /\ k.now = client[c].now
        BY <1>2 DEF ClientState, Step
  <2> HIDE DEF k
  <2>3. ~OwnsActiveLease(k)
        BY <1>1, <1>2, <1>6, <2>2 DEF LookupOK, OwnsActiveLease, OwnsRow
  <2>4. LookupOK(c, k)
        BY <1>3, <2>2, <2>3 DEF LookupOK
  <2>5. IInv'
        BY <1>2, <1>4, <2>1, <2>2, <2>4, LocalStep
  <2> QED BY <1>4, <2>1, <2>5
<1> QED BY <1>5, <1>6

\* A fill that is accepted is a Learn of the record, and any other no step of it.
LEMMA FillKeeps ==
    ASSUME IInv, NEW c \in Client, FillLease(c)
    PROVE  /\ IInv'
           /\ \/ UNCHANGED <<source, evidence>>
              \/ \E now \in Instants : \E o \in Observation : Record!Learn(o, now)
<1>1. TypeOK /\ TokensDiffer /\ LookupOK(c, client[c]) /\ Now(c) \in Int
      BY EachLookup, NowType
<1>2. /\ client[c] \in ClientState /\ client[c].at = "filling"
      /\ client[c].seen \in SourceState /\ client[c].now \in Int
      /\ client[c].token \in Token \cup {Null} /\ client[c].fallback \in Reply
      BY <1>1 DEF TypeOK, ClientState, FillLease
<1>3. client[c].now \in Instants /\ client[c].fetched \in Observation
      BY <1>1, <1>2 DEF LookupOK
<1>4. UNCHANGED clock
      BY DEF FillLease
<1>5. CASE OwnsActiveLease(client[c])
  <2> DEFINE next == RecordObservation(client[c].seen, client[c].fetched, client[c].now)
             answer == ObservationFor(next, Now(c))
             k == [client[c] EXCEPT !.at = "answering", !.answer = answer]
  <2>1. next \in SourceState
        BY <1>2, <1>3, RecordObservationType
  <2>2. answer \in Reply
        BY <1>1, <2>1, ObservationForType
  <2>3. /\ source' = next /\ lease' = Null /\ Becomes(c, k)
        /\ evidence' = Record!Heard(evidence, client[c].fetched, client[c].now)
        BY <1>2, <1>5 DEF FillLease, Store
  <2>4. OwnsRow(client[c])
        BY <1>5 DEF OwnsActiveLease
  <2>5. /\ client[c].seen = source /\ source.kind # "negative"
        /\ RequiresRevalidation(source, client[c].now)
        BY <1>1, <1>2, <2>4 DEF LookupOK
  <2>6. next = Record!RecordObservation(source, client[c].fetched, client[c].now)
        BY <2>5
        DEF RecordObservation, IsFresh, Record!RecordObservation, Record!IsFresh,
            Record!PositiveState, Record!NegativeState, Record!ReversalPending
  <2>7. Record!RequiresRevalidation(source, client[c].now)
        BY <2>5
        DEF RequiresRevalidation, StaleNegative, IsFresh, Record!RequiresRevalidation,
            Record!StaleNegative, Record!IsFresh
  <2>8. Record!Learn(client[c].fetched, client[c].now)
        BY <2>3, <2>5, <2>6, <2>7 DEF Record!Learn
  <2> HIDE DEF next, answer
  <2>9. k \in ClientState /\ k.at = "answering" /\ k.token = client[c].token
        BY <1>2, <2>2 DEF ClientState, Step
  <2> HIDE DEF k
  <2>10. client'[c] = k
        BY <1>1, <2>3, OneMoves
  <2>11. LookupOK(c, client[c])'
        BY <2>3, <2>9, <2>10 DEF LookupOK, OwnsRow
  <2>12. IInv'
        BY <1>2, <1>4, <2>1, <2>3, <2>4, <2>9, <2>11, OwnerWrites
  <2> QED BY <1>3, <2>8, <2>12
<1>6. CASE ~OwnsActiveLease(client[c])
  <2>1. /\ Becomes(c, Answered(client[c], client[c].fallback))
        /\ UNCHANGED <<source, lease, evidence>>
        BY <1>6 DEF FillLease
  <2>2. IInv'
        BY <1>2, <1>4, <2>1, AnsweredStep
  <2> QED BY <2>1, <2>2
<1> QED BY <1>5, <1>6

-----------------------------------------------------------------------------
(* The theorems                                                            *)

LEMMA PassTimeKeeps ==
    ASSUME IInv, PassTime
    PROVE  IInv'
<1>1. TypeOK /\ TokensDiffer /\ \A d \in Client : LookupOK(d, client[d])
      BY EachLookup
<1>2. clock' = clock + 1 /\ clock' \in 0 .. MaxClock /\ UNCHANGED <<source, lease, client>>
      BY <1>1, CacheAssumption DEF TypeOK, PassTime
<1>3. TypeOK' /\ TokensDiffer'
      BY <1>1, <1>2 DEF TypeOK, TokensDiffer
<1>4. ASSUME NEW d \in Client PROVE LookupOK(d, client[d])'
  <2>1. Now(d) \in Int /\ Now(d)' = Now(d) + 1
        BY <1>1, <1>2, CacheAssumption DEF Now, TypeOK
  <2>2. client[d].now \in Int
        BY <1>1 DEF TypeOK, ClientState
  <2>3. client[d].now <= Now(d) => client[d].now <= Now(d)'
        BY <2>1, <2>2
  <2> QED BY <1>1, <1>2, <2>3 DEF LookupOK, OwnsRow, OwnsActiveLease
<1> QED BY <1>3, <1>4, EachLookupAfter

\* One step keeps the invariant, and is a step of the record or none.
LEMMA NextKeeps ==
    ASSUME IInv, [Next]_vars
    PROVE  IInv' /\ [Record!RecordNext]_(Record!recordVars)
<1> USE DEF Record!recordVars
<1>1. CASE UNCHANGED vars
      BY <1>1
      DEF vars, IInv, TypeOK, TokensDiffer, ClocksAdvance, OwnerSeesSource, PurgesJudged,
          FetchedSomething, NoRacingWriter, OwnsRow, OwnsActiveLease, Now
<1>2. CASE PassTime
      BY <1>2, PassTimeKeeps DEF PassTime
<1>3. ASSUME NEW c \in Client, LocalSteps(c)
      PROVE  IInv' /\ [Record!RecordNext]_(Record!recordVars)
  <2>1. UNCHANGED <<source, evidence>>
        BY <1>3
        DEF LocalSteps, Begin, ReadHeldLease, Wait, Recheck, JudgeRecheck, Reread, JudgeReread,
            JudgeRefusedPurge, Fetch, ReadForFill, Answer, Fail
  <2> QED BY <1>3, <2>1, LocalStepsKeep
<1>4. ASSUME NEW c \in Client, AcquireLease(c)
      PROVE  IInv' /\ [Record!RecordNext]_(Record!recordVars)
      BY <1>4, AcquireLeaseKeeps DEF AcquireLease
<1>5. ASSUME NEW c \in Client, ReleaseLease(c)
      PROVE  IInv' /\ [Record!RecordNext]_(Record!recordVars)
      BY <1>5, ReleaseLeaseKeeps DEF ReleaseLease
<1>6. ASSUME NEW c \in Client, Finish(c) \/ Die(c)
      PROVE  IInv' /\ [Record!RecordNext]_(Record!recordVars)
      BY <1>6, EndKeeps DEF Finish, Die
<1>7. ASSUME NEW c \in Client, NEW token \in Token, Look(c, token)
      PROVE  IInv' /\ [Record!RecordNext]_(Record!recordVars)
      BY <1>7, LookKeeps DEF Look
<1>8. ASSUME NEW c \in Client, PurgeExpiredNegativeLease(c)
      PROVE  IInv' /\ [Record!RecordNext]_(Record!recordVars)
      BY <1>8, PurgeKeeps DEF Record!RecordNext
<1>9. ASSUME NEW c \in Client, FillLease(c)
      PROVE  IInv' /\ [Record!RecordNext]_(Record!recordVars)
      BY <1>9, FillKeeps DEF Record!RecordNext, Record!Observation, Observation
<1> QED BY <1>1, <1>2, <1>3, <1>4, <1>5, <1>6, <1>7, <1>8, <1>9 DEF Next, Proceed, LocalSteps

LEMMA InitKeeps ==
    ASSUME Init
    PROVE  IInv /\ Record!RecordInit
<1>1. Unavailable \in Reply /\ Empty \in SourceState
      BY DEF Reply, SourceState
<1>2. Idle \in ClientState /\ Idle.at = "idle" /\ Idle.token = Null
      BY <1>1 DEF Idle, ClientState
<1>3. TypeOK
      BY <1>1, <1>2, CacheAssumption DEF Init, TypeOK
<1>4. \A c \in Client : client[c] = Idle
      BY DEF Init
<1>5. TokensDiffer /\ \A c \in Client : LookupOK(c, client[c])
      BY <1>2, <1>4 DEF Init, TokensDiffer, LookupOK, OwnsRow
<1>6. Record!RecordInit
      BY DEF Init, Record!RecordInit, Record!Empty
<1> QED BY <1>3, <1>5, <1>6, EachLookup

\* The inductive invariant: while a lookup owns the lease, what it has read is
\* what is stored.
THEOREM CacheInvariant == Spec => []IInv
<1>1. Init => IInv
      BY InitKeeps
<1>2. IInv /\ [Next]_vars => IInv'
      BY NextKeeps
<1> QED BY <1>1, <1>2, PTL DEF Spec

\* ImplementsRecord: however many lookups race, die or come late, the rows of D1
\* learn one observation at a time, each when the last one has been used up.
THEOREM CacheImplementsRecord == Spec => ImplementsRecord
<1>1. Init => Record!RecordInit
      BY InitKeeps
<1>2. IInv /\ [Next]_vars => [Record!RecordNext]_(Record!recordVars)
      BY NextKeeps
<1> QED BY <1>1, <1>2, CacheInvariant, PTL DEF Spec, ImplementsRecord, Record!RecordSpec

\* NoRacingWriter: the branch for a state that changed under its owner is dead.
THEOREM OwnersAreAlone == Spec => []NoRacingWriter
<1>1. IInv => NoRacingWriter
      BY DEF IInv
<1> QED BY <1>1, CacheInvariant, PTL

\* FetchOnlyWhenNeeded: the owner of the lease goes to CourtListener only when
\* nothing fresh is stored.
THEOREM OwnersFetchForAReason == Spec => FetchOnlyWhenNeeded
<1>1. ASSUME IInv, IInv', [Next]_vars, NEW c \in Client,
             client[c].at # "fetching", client'[c].at = "fetching", OwnsRow(client[c])'
      PROVE  RequiresRevalidation(source', Now(c)) /\ source'.kind # "negative"
  <2>1. UNCHANGED clock
        BY <1>1
        DEF vars, Next, PassTime, Proceed, Begin, AcquireLease, ReadHeldLease, Wait, Recheck,
            JudgeRecheck, Reread, JudgeReread, PurgeExpiredNegativeLease, JudgeRefusedPurge, Fetch,
            ReadForFill, FillLease, ReleaseLease, Answer, Finish, Fail, Die, Look
  <2>2. /\ RequiresRevalidation(source', client'[c].now) /\ source'.kind # "negative"
        /\ client'[c].now <= Now(c)'
        BY <1>1 DEF IInv, OwnerSeesSource, ClocksAdvance, RequiresRevalidation, StaleNegative
  <2>3. client'[c].now \in Int /\ source' \in SourceState /\ Now(c) \in Int /\ Now(c)' = Now(c)
        BY <1>1, <2>1, NowType DEF IInv, TypeOK, ClientState, Now
  <2> QED BY <2>2, <2>3, RevalidationLasts
<1>2. IInv /\ IInv' /\ [Next]_vars =>
         [\A c \in Client :
             client[c].at # "fetching" /\ client'[c].at = "fetching" /\ OwnsRow(client[c])' =>
                 RequiresRevalidation(source', Now(c)) /\ source'.kind # "negative"]_vars
      BY <1>1
<1> QED BY <1>2, CacheInvariant, PTL DEF Spec, FetchOnlyWhenNeeded

-----------------------------------------------------------------------------
(* What is answered, and who may fetch                                     *)

\* A reply that says something was stored in one of the states.
Backed(states, reply) == reply # Unavailable => \E s \in states : Supports(s, reply)

\* What ReadsAreCurrent says of a lookup in the state k.
ReadsFrom(states, k) ==
    /\ k.at \in {"looked", "rechecked", "reread", "purging", "fetching"} => k.seen \in states
    /\ Backed(states, k.fallback) /\ Backed(states, k.answer)

\* What LeasesHeld says of it.
HoldsLease(c, k) ==
    /\ k.at \in {"acquiring", "refused"} => k.now <= Now(c)
    /\ k.at \in {"leased", "reread", "purging", "fetching"} =>
          \/ OwnsRow(k) /\ lease.expiresAt = k.ends
          \/ \E e \in Client : k.ends <= Now(e)

LEMMA HistoryParts ==
    /\ ReadsAreCurrent <=>
          /\ during \in [Client -> SUBSET SourceState]
          /\ \A c \in Client :
                client[c].at # "idle" => source \in during[c] /\ ReadsFrom(during[c], client[c])
    /\ LeasesHeld <=> \A c \in Client : HoldsLease(c, client[c])
BY DEF ReadsAreCurrent, LeasesHeld, ReadsFrom, HoldsLease, Backed

LEMMA ReadsPartsAfter ==
    ASSUME during' \in [Client -> SUBSET SourceState],
           \A c \in Client : client'[c].at # "idle" =>
               source' \in during'[c] /\ ReadsFrom(during'[c], client'[c])
    PROVE  ReadsAreCurrent'
BY DEF ReadsAreCurrent, ReadsFrom, Backed

LEMMA HoldsPartsAfter ==
    ASSUME \A c \in Client : HoldsLease(c, client[c])'
    PROVE  LeasesHeld'
BY DEF LeasesHeld, HoldsLease

LEMMA ObservationBacked ==
    ASSUME NEW states, NEW s \in SourceState, s \in states, NEW now
    PROVE  Backed(states, ObservationFor(s, now))
<1>1. CASE s.kind = "positive"
      BY <1>1 DEF ObservationFor, Backed, Supports
<1>2. CASE s.kind = "negative"
      BY <1>2 DEF ObservationFor, Backed, Supports, Unavailable
<1>3. CASE s.kind \in {"empty", "reversal_pending"}
      BY <1>3 DEF ObservationFor, Backed, Supports, Unavailable
<1> QED BY <1>1, <1>2, <1>3 DEF SourceState

LEMMA RetainedBacked ==
    ASSUME NEW states, NEW s \in SourceState, s \in states, NEW now, NEW otherwise,
           Backed(states, otherwise)
    PROVE  Backed(states, RetainedObservation(s, now, otherwise))
BY ObservationBacked DEF RetainedObservation

LEMMA NothingBacked ==
    ASSUME NEW states
    PROVE  Backed(states, Unavailable)
BY DEF Backed

LEMMA MoreBacked ==
    ASSUME NEW states, NEW more, NEW k, ReadsFrom(states, k)
    PROVE  ReadsFrom(states \cup more, k)
BY DEF ReadsFrom, Backed

LEMMA AnsweredReads ==
    ASSUME NEW states, NEW k, NEW answer, Backed(states, answer)
    PROVE  ReadsFrom(states, Answered(k, answer))
<1>1. /\ Answered(k, answer).at = "answered" /\ Answered(k, answer).answer = answer
      /\ Answered(k, answer).fallback = Unavailable
      BY DEF Answered, Idle
<1> HIDE DEF Unavailable
<1> QED BY <1>1, NothingBacked DEF ReadsFrom

\* Steps that neither store anything nor begin or end a lookup read what is stored.
LEMMA LocalReads ==
    ASSUME IInv, ReadsAreCurrent, NEW c \in Client, client[c].at # "idle",
           LocalSteps(c) \/ AcquireLease(c) \/ ReleaseLease(c)
    PROVE  ReadsFrom(during[c], client'[c])
<1> DEFINE states == during[c]
<1>1. /\ TypeOK /\ client[c] \in ClientState /\ client[c].at \notin {"changed", "changed_read"}
      /\ source \in states /\ ReadsFrom(states, client[c])
      /\ states \subseteq SourceState
      BY HistoryParts DEF IInv, TypeOK, NoRacingWriter
<1>2. \A k : Becomes(c, k) => client'[c] = k
      BY <1>1, OneMoves
<1>3. /\ Backed(states, client[c].fallback) /\ Backed(states, client[c].answer)
      BY <1>1 DEF ReadsFrom
<1>4. \A k : k.at \notin {"looked", "rechecked", "reread", "purging", "fetching"}
             /\ Backed(states, k.fallback) /\ Backed(states, k.answer) => ReadsFrom(states, k)
      BY DEF ReadsFrom
<1>5. Backed(states, Unavailable)
      BY NothingBacked
<1>6. /\ \A s \in states : \A now : Backed(states, ObservationFor(s, now))
      /\ \A s \in states : \A now, otherwise :
            Backed(states, otherwise) => Backed(states, RetainedObservation(s, now, otherwise))
      BY <1>1, ObservationBacked, RetainedBacked
<1> DEFINE k0 == client[c]
<1>7. k0 = [at |-> k0.at, token |-> k0.token, seen |-> k0.seen, now |-> k0.now, ends |-> k0.ends,
            fetched |-> k0.fetched, fallback |-> k0.fallback, answer |-> k0.answer]
      BY <1>1 DEF ClientState
<1>8. \A answer : Backed(states, answer) /\ Becomes(c, Answered(k0, answer)) =>
                     ReadsFrom(states, client'[c])
      BY <1>2, AnsweredReads
<1> SUFFICES ReadsFrom(states, client'[c])
    OBVIOUS
<1> HIDE DEF Unavailable, states
<1>10. CASE Begin(c)
  <2>1. k0.at = "looked" /\ k0.seen \in states
        BY <1>1, <1>10 DEF Begin, ReadsFrom
  <2>2. CASE RequiresRevalidation(k0.seen, Now(c))
    <3>1. PICK k : /\ k = [k0 EXCEPT !.at = "acquiring", !.now = Now(c), !.seen = Empty,
                              !.fallback = RetainedObservation(k0.seen, Now(c), Unavailable)]
                   /\ Becomes(c, k)
          BY <1>10, <2>2 DEF Begin
    <3>2. /\ k.at = "acquiring" /\ k.answer = k0.answer
          /\ k.fallback = RetainedObservation(k0.seen, Now(c), Unavailable)
          BY <1>7, <3>1
    <3>3. Backed(states, k.fallback)
          BY <1>5, <1>6, <2>1, <3>2
    <3> QED BY <1>2, <1>3, <1>4, <3>1, <3>2, <3>3
  <2>3. CASE ~RequiresRevalidation(k0.seen, Now(c))
    <3>1. Becomes(c, Answered(k0, ObservationFor(k0.seen, Now(c))))
          BY <1>10, <2>3 DEF Begin
    <3> QED BY <1>6, <1>8, <2>1, <3>1
  <2> QED BY <2>2, <2>3
<1>11. CASE AcquireLease(c)
  <2>1. PICK k : /\ Becomes(c, k)
                 /\ \/ k = [k0 EXCEPT !.at = "leased", !.ends = k0.now + Lease]
                    \/ k = [k0 EXCEPT !.at = "refused"]
        BY <1>11 DEF AcquireLease
  <2>2. k.at \in {"leased", "refused"} /\ k.fallback = k0.fallback /\ k.answer = k0.answer
        BY <1>7, <2>1
  <2> QED BY <1>2, <1>3, <1>4, <2>1, <2>2
<1>12. CASE ReleaseLease(c)
  <2>1. PICK k : Becomes(c, k) /\ k = [k0 EXCEPT !.at = "answering"]
        BY <1>12 DEF ReleaseLease
  <2>2. k.at = "answering" /\ k.fallback = k0.fallback /\ k.answer = k0.answer
        BY <1>7, <2>1
  <2> QED BY <1>2, <1>3, <1>4, <2>1, <2>2
<1>13. CASE ReadHeldLease(c)
  <2>1. PICK k : /\ Becomes(c, k)
                 /\ \/ k = [k0 EXCEPT !.at = "acquiring"]
                    \/ k = [k0 EXCEPT !.at = "waiting", !.ends = lease.expiresAt]
        BY <1>13 DEF ReadHeldLease
  <2>2. k.at \in {"acquiring", "waiting"} /\ k.fallback = k0.fallback /\ k.answer = k0.answer
        BY <1>7, <2>1
  <2> QED BY <1>2, <1>3, <1>4, <2>1, <2>2
<1>14. CASE Wait(c)
  <2>1. \/ Becomes(c, Answered(k0, k0.fallback))
        \/ Becomes(c, [k0 EXCEPT !.at = "sleeping", !.now = Now(c)])
        BY <1>14 DEF Wait
  <2>2. ASSUME NEW k, k = [k0 EXCEPT !.at = "sleeping", !.now = Now(c)], Becomes(c, k)
        PROVE  ReadsFrom(states, client'[c])
    <3>1. k.at = "sleeping" /\ k.fallback = k0.fallback /\ k.answer = k0.answer
          BY <1>7, <2>2
    <3> QED BY <1>2, <1>3, <1>4, <2>2, <3>1
  <2> QED BY <1>3, <1>8, <2>1, <2>2
<1>15. CASE Recheck(c) \/ Reread(c)
  <2>1. PICK k : /\ Becomes(c, k)
                 /\ \E at \in {"rechecked", "reread", "changed_read"} :
                       k = [k0 EXCEPT !.at = at, !.seen = source]
        BY <1>15 DEF Recheck, Reread
  <2>2. k.seen = source /\ k.fallback = k0.fallback /\ k.answer = k0.answer
        BY <1>7, <2>1
  <2>3. source \in states
        BY <1>1
  <2> QED BY <1>2, <1>3, <2>1, <2>2, <2>3 DEF ReadsFrom
<1>16. CASE JudgeRecheck(c)
  <2> DEFINE observation == IF RequiresRevalidation(k0.seen, Now(c))
                            THEN RetainedObservation(k0.seen, Now(c), Unavailable)
                            ELSE ObservationFor(k0.seen, Now(c))
  <2>1. k0.at = "rechecked" /\ k0.seen \in states
        BY <1>1, <1>16 DEF JudgeRecheck, ReadsFrom
  <2>2. Backed(states, observation)
        BY <1>5, <1>6, <2>1
  <2>3. \/ Becomes(c, Answered(k0, observation))
        \/ Becomes(c, Answered(k0, k0.fallback))
        \/ Becomes(c, [k0 EXCEPT !.at = "waiting", !.seen = Empty])
        BY <1>16 DEF JudgeRecheck
  <2> HIDE DEF observation
  <2>4. ASSUME NEW k, k = [k0 EXCEPT !.at = "waiting", !.seen = Empty], Becomes(c, k)
        PROVE  ReadsFrom(states, client'[c])
    <3>1. k.at = "waiting" /\ k.fallback = k0.fallback /\ k.answer = k0.answer
          BY <1>7, <2>4
    <3> QED BY <1>2, <1>3, <1>4, <2>4, <3>1
  <2> QED BY <1>3, <1>8, <2>2, <2>3, <2>4
<1>17. CASE JudgeReread(c)
  <2> DEFINE fallback == RetainedObservation(k0.seen, Now(c), k0.fallback)
             judged == [k0 EXCEPT !.now = Now(c), !.fallback = fallback]
             observation == ObservationFor(k0.seen, Now(c))
  <2>1. k0.at = "reread" /\ k0.seen \in states
        BY <1>1, <1>17 DEF JudgeReread, ReadsFrom
  <2>2. Backed(states, fallback) /\ Backed(states, observation)
        BY <1>3, <1>6, <2>1
  <2>3. /\ judged.at = "reread" /\ judged.seen = k0.seen /\ judged.answer = k0.answer
        /\ judged.fallback = fallback
        BY <1>7, <2>1
  <2>4. DOMAIN judged = {"at", "token", "seen", "now", "ends", "fetched", "fallback", "answer"}
        BY <1>7
  <2>5. PICK k : /\ Becomes(c, k)
                 /\ \/ k = [judged EXCEPT !.at = "releasing",
                                          !.answer = ObservationFor(judged.seen, Now(c))]
                    \/ \E at \in {"purging", "releasing", "fetching"} : k = [judged EXCEPT !.at = at]
        BY <1>17 DEF JudgeReread
  <2> HIDE DEF judged, fallback, observation
  <2>6. k.seen = k0.seen /\ k.fallback = fallback /\ k.answer \in {observation, k0.answer}
        BY <2>3, <2>4, <2>5 DEF observation
  <2> QED BY <1>2, <1>3, <2>1, <2>2, <2>5, <2>6 DEF ReadsFrom
<1>18. CASE JudgeRefusedPurge(c)
  <2>1. \/ Becomes(c, Answered(k0, k0.fallback))
        \/ Becomes(c, [k0 EXCEPT !.at = "changed"])
        BY <1>18 DEF JudgeRefusedPurge
  <2>2. ASSUME NEW k, k = [k0 EXCEPT !.at = "changed"], Becomes(c, k)
        PROVE  ReadsFrom(states, client'[c])
    <3>1. k.at = "changed" /\ k.fallback = k0.fallback /\ k.answer = k0.answer
          BY <1>7, <2>2
    <3> QED BY <1>2, <1>3, <1>4, <2>2, <3>1
  <2> QED BY <1>3, <1>8, <2>1, <2>2
<1>19. CASE Fetch(c)
  <2>1. k0.at = "fetching" /\ k0.seen \in states
        BY <1>1, <1>19 DEF Fetch, ReadsFrom
  <2> DEFINE answer == RetainedObservation(k0.seen, k0.now, Unavailable)
  <2>2. Backed(states, answer)
        BY <1>5, <1>6, <2>1
  <2>3. PICK k : /\ Becomes(c, k)
                 /\ \/ \E o \in Observation :
                          k = [k0 EXCEPT !.at = "fetched", !.fetched = o, !.now = Now(c),
                                         !.seen = Empty, !.ends = 0]
                    \/ k = [k0 EXCEPT !.at = "releasing", !.seen = Empty, !.ends = 0,
                                      !.answer = answer]
        BY <1>19 DEF Fetch
  <2> HIDE DEF answer
  <2>4. /\ k.at \in {"fetched", "releasing"} /\ k.fallback = k0.fallback
        /\ k.answer \in {answer, k0.answer}
        BY <1>7, <2>3
  <2> QED BY <1>2, <1>3, <1>4, <2>2, <2>3, <2>4
<1>20. CASE ReadForFill(c)
  <2>1. PICK k : Becomes(c, k) /\ k = [k0 EXCEPT !.at = "filling", !.seen = source]
        BY <1>20 DEF ReadForFill
  <2>2. k.at = "filling" /\ k.fallback = k0.fallback /\ k.answer = k0.answer
        BY <1>7, <2>1
  <2> QED BY <1>2, <1>3, <1>4, <2>1, <2>2
<1>21. CASE Answer(c) \/ Fail(c)
  <2>1. Becomes(c, Answered(k0, k0.answer)) \/ Becomes(c, Answered(k0, k0.fallback))
        BY <1>21 DEF Answer, Fail
  <2> QED BY <1>3, <1>8, <2>1
<1> QED BY <1>10, <1>11, <1>12, <1>13, <1>14, <1>15, <1>16, <1>17, <1>18, <1>19, <1>20, <1>21
        DEF LocalSteps

\* What is stored is added to what every lookup under way may answer from.
LEMMA StoreReads ==
    ASSUME IInv, ReadsAreCurrent, NEW c \in Client, client[c].at # "idle",
           NEW s \in SourceState, Store(s), NEW k, k.at # "idle", Becomes(c, k),
           ReadsFrom(during[c] \cup {s}, k)
    PROVE  ReadsAreCurrent'
<1>1. /\ TypeOK /\ during \in [Client -> SUBSET SourceState]
      /\ \A d \in Client : client[d].at # "idle" => ReadsFrom(during[d], client[d])
      BY HistoryParts DEF IInv
<1>2. /\ source' = s
      /\ \A d \in Client :
            during'[d] = IF client[d].at = "idle" THEN {} ELSE during[d] \cup {s}
      /\ during' = [d \in Client |-> IF client[d].at = "idle" THEN {} ELSE during[d] \cup {s}]
      BY DEF Store
<1>3. during' \in [Client -> SUBSET SourceState]
      BY <1>1, <1>2
<1>4. client'[c] = k /\ \A d \in Client \ {c} : client'[d] = client[d]
      BY <1>1, OneMoves
<1>5. ASSUME NEW d \in Client, client'[d].at # "idle"
      PROVE  source' \in during'[d] /\ ReadsFrom(during'[d], client'[d])
  <2>1. CASE d = c
        BY <1>2, <1>4, <2>1
  <2>2. CASE d # c
    <3>1. client'[d] = client[d] /\ client[d].at # "idle"
          BY <1>4, <1>5, <2>2
    <3>2. ReadsFrom(during[d] \cup {s}, client[d])
          BY <1>1, <3>1, MoreBacked
    <3> QED BY <1>2, <3>1, <3>2
  <2> QED BY <2>1, <2>2
<1> QED BY <1>3, <1>5, ReadsPartsAfter

LEMMA PurgeReads ==
    ASSUME IInv, ReadsAreCurrent, NEW c \in Client, PurgeExpiredNegativeLease(c)
    PROVE  ReadsAreCurrent'
<1> DEFINE k0 == client[c]
           next == PurgeExpiredNegative(k0.seen, k0.now)
           fallback == RetainedObservation(next, k0.now, k0.fallback)
<1>1. /\ TypeOK /\ k0 \in ClientState /\ k0.at = "purging" /\ k0.seen \in SourceState
      /\ k0.now \in Int /\ StaleNegative(k0.seen, k0.now)
      BY EachLookup DEF TypeOK, ClientState, PurgeExpiredNegativeLease, LookupOK
<1>2. /\ during \in [Client -> SUBSET SourceState]
      /\ \A d \in Client : client[d].at # "idle" =>
            source \in during[d] /\ ReadsFrom(during[d], client[d])
      BY HistoryParts
<1>3. Backed(during[c], k0.fallback) /\ Backed(during[c], k0.answer) /\ k0.seen \in during[c]
      BY <1>1, <1>2 DEF ReadsFrom
<1>4. k0 = [at |-> k0.at, token |-> k0.token, seen |-> k0.seen, now |-> k0.now, ends |-> k0.ends,
            fetched |-> k0.fetched, fallback |-> k0.fallback, answer |-> k0.answer]
      BY <1>1 DEF ClientState
<1>5. CASE OwnsActiveLease(k0) /\ source = k0.seen
  <2>1. next \in SourceState
        BY <1>1, PurgeType
  <2>2. PICK k : /\ k = [k0 EXCEPT !.at = "fetching", !.seen = next, !.fallback = fallback]
                 /\ Becomes(c, k) /\ Store(next)
        BY <1>5 DEF PurgeExpiredNegativeLease
  <2> HIDE DEF next, fallback
  <2>3. k.at = "fetching" /\ k.seen = next /\ k.fallback = fallback /\ k.answer = k0.answer
        BY <1>4, <2>2
  <2>4. Backed(during[c] \cup {next}, k0.fallback) /\ Backed(during[c] \cup {next}, k0.answer)
        BY <1>3 DEF Backed
  <2>5. Backed(during[c] \cup {next}, fallback)
        BY <2>1, <2>4, RetainedBacked DEF fallback
  <2>6. ReadsFrom(during[c] \cup {next}, k)
        BY <2>3, <2>4, <2>5 DEF ReadsFrom
  <2> QED BY <1>1, <2>1, <2>2, <2>3, <2>6, StoreReads
<1>6. CASE ~(OwnsActiveLease(k0) /\ source = k0.seen)
  <2>1. PICK k : k = [k0 EXCEPT !.at = "purge_refused"] /\ Becomes(c, k)
        BY <1>6 DEF PurgeExpiredNegativeLease
  <2>2. UNCHANGED <<source, during>>
        BY <1>6 DEF PurgeExpiredNegativeLease
  <2>3. k.at = "purge_refused" /\ k.fallback = k0.fallback /\ k.answer = k0.answer
        BY <1>4, <2>1
  <2>4. ReadsFrom(during[c], k)
        BY <1>3, <2>3 DEF ReadsFrom
  <2>5. client'[c] = k /\ \A d \in Client \ {c} : client'[d] = client[d]
        BY <1>1, <2>1, OneMoves
  <2>6. \A d \in Client : client'[d].at # "idle" =>
            source \in during[d] /\ ReadsFrom(during[d], client'[d])
        BY <1>1, <1>2, <2>4, <2>5
  <2> QED BY <1>2, <2>2, <2>6, ReadsPartsAfter
<1> QED BY <1>5, <1>6

LEMMA FillReads ==
    ASSUME IInv, ReadsAreCurrent, NEW c \in Client, FillLease(c)
    PROVE  ReadsAreCurrent'
<1> DEFINE k0 == client[c]
           next == RecordObservation(k0.seen, k0.fetched, k0.now)
           answer == ObservationFor(next, Now(c))
<1>1. /\ TypeOK /\ k0 \in ClientState /\ k0.at = "filling" /\ k0.seen \in SourceState
      /\ k0.now \in Int /\ k0.fetched \in Observation
      BY EachLookup DEF TypeOK, ClientState, FillLease, LookupOK
<1>2. /\ during \in [Client -> SUBSET SourceState]
      /\ \A d \in Client : client[d].at # "idle" =>
            source \in during[d] /\ ReadsFrom(during[d], client[d])
      BY HistoryParts
<1>3. Backed(during[c], k0.fallback) /\ Backed(during[c], k0.answer)
      BY <1>1, <1>2 DEF ReadsFrom
<1>4. k0 = [at |-> k0.at, token |-> k0.token, seen |-> k0.seen, now |-> k0.now, ends |-> k0.ends,
            fetched |-> k0.fetched, fallback |-> k0.fallback, answer |-> k0.answer]
      BY <1>1 DEF ClientState
<1>5. CASE OwnsActiveLease(k0)
  <2>1. next \in SourceState
        BY <1>1, RecordObservationType
  <2>2. PICK k : /\ k = [k0 EXCEPT !.at = "answering", !.answer = answer]
                 /\ Becomes(c, k) /\ Store(next)
        BY <1>5 DEF FillLease
  <2>3. Backed(during[c] \cup {next}, answer)
        BY <2>1, ObservationBacked
  <2> HIDE DEF next, answer
  <2>4. k.at = "answering" /\ k.fallback = k0.fallback /\ k.answer = answer
        BY <1>4, <2>2
  <2>5. Backed(during[c] \cup {next}, k0.fallback)
        BY <1>3 DEF Backed
  <2>6. ReadsFrom(during[c] \cup {next}, k)
        BY <2>3, <2>4, <2>5 DEF ReadsFrom
  <2> QED BY <1>1, <2>1, <2>2, <2>4, <2>6, StoreReads
<1>6. CASE ~OwnsActiveLease(k0)
  <2>1. Becomes(c, Answered(k0, k0.fallback)) /\ UNCHANGED <<source, during>>
        BY <1>6 DEF FillLease
  <2>2. ReadsFrom(during[c], Answered(k0, k0.fallback))
        BY <1>3, AnsweredReads
  <2>3. /\ client'[c] = Answered(k0, k0.fallback)
        /\ \A d \in Client \ {c} : client'[d] = client[d]
        BY <1>1, <2>1, OneMoves
  <2>4. \A d \in Client : client'[d].at # "idle" =>
            source \in during[d] /\ ReadsFrom(during[d], client'[d])
        BY <1>1, <1>2, <2>2, <2>3
  <2> QED BY <1>2, <2>1, <2>4, ReadsPartsAfter
<1> QED BY <1>5, <1>6

\* A lookup that begins starts from what is stored; one that ends leaves nothing behind.
LEMMA LookReads ==
    ASSUME IInv, ReadsAreCurrent, NEW c \in Client, NEW token \in Token, Look(c, token)
    PROVE  ReadsAreCurrent'
<1>1. /\ TypeOK /\ during \in [Client -> SUBSET SourceState] /\ source \in SourceState
      /\ \A d \in Client : client[d].at # "idle" =>
            source \in during[d] /\ ReadsFrom(during[d], client[d])
      BY HistoryParts DEF IInv, TypeOK
<1>2. PICK k : /\ k = [Idle EXCEPT !.at = "looked", !.token = token, !.seen = source]
               /\ Becomes(c, k)
      BY DEF Look
<1>3. during' = [during EXCEPT ![c] = {source}] /\ source' = source
      BY DEF Look
<1>4. k.seen = source /\ k.fallback = Unavailable /\ k.answer = Unavailable
      BY <1>2 DEF Idle
<1>5. ReadsFrom({source}, k)
      BY <1>4, NothingBacked DEF ReadsFrom
<1>6. client'[c] = k /\ \A d \in Client \ {c} : client'[d] = client[d]
      BY <1>1, <1>2, OneMoves
<1>7. \A d \in Client : client'[d].at # "idle" =>
          source' \in during'[d] /\ ReadsFrom(during'[d], client'[d])
      BY <1>1, <1>3, <1>5, <1>6
<1>8. during' \in [Client -> SUBSET SourceState]
      BY <1>1, <1>3
<1> QED BY <1>7, <1>8, ReadsPartsAfter

LEMMA EndReads ==
    ASSUME IInv, ReadsAreCurrent, NEW c \in Client, Finish(c) \/ Die(c)
    PROVE  ReadsAreCurrent'
<1>1. /\ TypeOK /\ during \in [Client -> SUBSET SourceState]
      /\ \A d \in Client : client[d].at # "idle" =>
            source \in during[d] /\ ReadsFrom(during[d], client[d])
      BY HistoryParts DEF IInv
<1>2. Becomes(c, Idle) /\ during' = [during EXCEPT ![c] = {}] /\ source' = source
      BY DEF Finish, Die
<1>3. client'[c] = Idle /\ \A d \in Client \ {c} : client'[d] = client[d]
      BY <1>1, <1>2, OneMoves
<1>4. Idle.at = "idle"
      BY DEF Idle
<1>5. \A d \in Client : client'[d].at # "idle" =>
          source' \in during'[d] /\ ReadsFrom(during'[d], client'[d])
      BY <1>1, <1>2, <1>3, <1>4
<1>6. during' \in [Client -> SUBSET SourceState]
      BY <1>1, <1>2
<1> QED BY <1>5, <1>6, ReadsPartsAfter

\* These steps are of a lookup under way, and leave the others where they are.
LEMMA LocalMoves ==
    ASSUME TypeOK, NEW c \in Client, LocalSteps(c) \/ AcquireLease(c) \/ ReleaseLease(c)
    PROVE  client[c].at # "idle" /\ \A d \in Client \ {c} : client'[d] = client[d]
<1>1. ASSUME \E k : Becomes(c, k)
      PROVE  \A d \in Client \ {c} : client'[d] = client[d]
      BY <1>1, OneMoves
<1>2. CASE Begin(c) \/ ReadHeldLease(c) \/ Wait(c) \/ Recheck(c)
      BY <1>1, <1>2 DEF Begin, ReadHeldLease, Wait, Recheck
<1>3. CASE JudgeRecheck(c)
      BY <1>1, <1>3 DEF JudgeRecheck
<1>4. CASE Reread(c) \/ JudgeRefusedPurge(c)
      BY <1>1, <1>4 DEF Reread, JudgeRefusedPurge
<1>5. CASE JudgeReread(c)
      BY <1>1, <1>5 DEF JudgeReread
<1>6. CASE Fetch(c)
      BY <1>1, <1>6 DEF Fetch
<1>7. CASE ReadForFill(c) \/ ReleaseLease(c) \/ Answer(c) \/ Fail(c)
      BY <1>1, <1>7 DEF ReadForFill, ReleaseLease, Answer, Fail
<1>8. CASE AcquireLease(c)
      BY <1>1, <1>8 DEF AcquireLease
<1> QED BY <1>2, <1>3, <1>4, <1>5, <1>6, <1>7, <1>8 DEF LocalSteps

LEMMA ReadsKept ==
    ASSUME IInv, ReadsAreCurrent, [Next]_vars
    PROVE  ReadsAreCurrent'
<1>1. CASE UNCHANGED vars \/ PassTime
      BY <1>1 DEF vars, PassTime, ReadsAreCurrent
<1>2. ASSUME NEW c \in Client, LocalSteps(c) \/ AcquireLease(c) \/ ReleaseLease(c)
      PROVE  ReadsAreCurrent'
  <2>1. /\ TypeOK /\ during \in [Client -> SUBSET SourceState]
        /\ \A d \in Client : client[d].at # "idle" =>
              source \in during[d] /\ ReadsFrom(during[d], client[d])
        BY HistoryParts DEF IInv
  <2>2. UNCHANGED <<source, during>>
        BY <1>2
        DEF LocalSteps, Begin, AcquireLease, ReadHeldLease, Wait, Recheck, JudgeRecheck, Reread,
            JudgeReread, JudgeRefusedPurge, Fetch, ReadForFill, ReleaseLease, Answer, Fail
  <2>3. ReadsFrom(during[c], client'[c])
        BY <1>2, <2>1, LocalMoves, LocalReads
  <2>4. \A d \in Client \ {c} : client'[d] = client[d]
        BY <1>2, <2>1, LocalMoves
  <2>5. \A d \in Client : client'[d].at # "idle" =>
            source \in during[d] /\ ReadsFrom(during[d], client'[d])
        BY <1>2, <2>1, <2>3, <2>4, LocalMoves
  <2> QED BY <2>1, <2>2, <2>5, ReadsPartsAfter
<1> QED BY <1>1, <1>2, PurgeReads, FillReads, LookReads, EndReads DEF Next, Proceed, LocalSteps

\* A step of one lookup that leaves the lease alone needs a look at it alone.
LEMMA LocalHolds ==
    ASSUME TypeOK, LeasesHeld, NEW c \in Client, NEW k, Becomes(c, k), UNCHANGED <<lease, clock>>,
           HoldsLease(c, k)
    PROVE  LeasesHeld'
<1>1. client'[c] = k /\ \A d \in Client \ {c} : client'[d] = client[d]
      BY OneMoves
<1>2. \A d \in Client : HoldsLease(d, client'[d])
      BY <1>1, HistoryParts
<1>3. \A d \in Client : HoldsLease(d, client[d])'
      BY <1>2 DEF HoldsLease, OwnsRow, Now
<1> QED BY <1>3, HoldsPartsAfter

\* A lookup that holds no lease and asks for none.
LEMMA QuietHolds ==
    ASSUME NEW c, NEW k,
           k.at \notin {"acquiring", "refused", "leased", "reread", "purging", "fetching"}
    PROVE  HoldsLease(c, k)
BY DEF HoldsLease

\* One that goes on with the same lease.
LEMMA GoesOnHolding ==
    ASSUME NEW c, NEW k0, NEW k, HoldsLease(c, k0),
           k0.at \in {"leased", "reread", "purging", "fetching"},
           k.token = k0.token, k.ends = k0.ends, k.at \notin {"acquiring", "refused"}
    PROVE  HoldsLease(c, k)
BY DEF HoldsLease, OwnsRow

\* A lease that is released was its owner's, and nobody else's.
LEMMA ReleaseHolds ==
    ASSUME TypeOK, TokensDiffer, LeasesHeld, NEW c \in Client, client[c].at # "idle",
           NEW k, Becomes(c, k), UNCHANGED clock,
           lease' = lease \/ (lease' = Null /\ OwnsRow(client[c])),
           k.at \notin {"acquiring", "refused", "leased", "reread", "purging", "fetching"}
    PROVE  LeasesHeld'
<1>1. client'[c] = k /\ \A d \in Client \ {c} : client'[d] = client[d]
      BY OneMoves
<1>2. \A d \in Client : HoldsLease(d, client[d])
      BY HistoryParts
<1>3. CASE lease' = lease
      BY <1>3, QuietHolds, LocalHolds
<1>4. CASE lease' = Null /\ OwnsRow(client[c])
  <2>1. \A d \in Client \ {c} : ~OwnsRow(client[d])
        BY <1>4, OneOwner
  <2>2. \A d \in Client : HoldsLease(d, client[d])'
        BY <1>1, <1>2, <2>1 DEF HoldsLease, Now
  <2> QED BY <2>2, HoldsPartsAfter
<1> QED BY <1>3, <1>4

\* A lease that is taken over had run out by the clock of the one who took it.
LEMMA AcquireHolds ==
    ASSUME IInv, LeasesHeld, NEW c \in Client, AcquireLease(c)
    PROVE  LeasesHeld'
<1> DEFINE k0 == client[c]
<1>1. /\ TypeOK /\ TokensDiffer /\ k0 \in ClientState /\ k0.at = "acquiring" /\ k0.now \in Int
      /\ k0.token \in Token /\ Now(c) \in Int
      BY NowType DEF IInv, TypeOK, ClientState, AcquireLease, TokensDiffer
<1>2. (\A d \in Client : HoldsLease(d, client[d])) /\ UNCHANGED clock
      BY HistoryParts DEF AcquireLease
<1>3. k0.now <= Now(c)
      BY <1>1, <1>2 DEF HoldsLease
<1>4. k0 = [at |-> k0.at, token |-> k0.token, seen |-> k0.seen, now |-> k0.now, ends |-> k0.ends,
            fetched |-> k0.fetched, fallback |-> k0.fallback, answer |-> k0.answer]
      BY <1>1 DEF ClientState
<1>5. CASE lease = Null \/ lease.expiresAt <= k0.now
  <2>1. PICK k : /\ k = [k0 EXCEPT !.at = "leased", !.ends = k0.now + Lease] /\ Becomes(c, k)
                 /\ lease' = [owner |-> k0.token, expiresAt |-> k0.now + Lease]
        BY <1>5 DEF AcquireLease
  <2>2. k.at = "leased" /\ k.ends = k0.now + Lease /\ k.token = k0.token
        BY <1>4, <2>1
  <2>3. client'[c] = k /\ \A d \in Client \ {c} : client'[d] = client[d]
        BY <1>1, <2>1, OneMoves
  <2>4. ASSUME NEW d \in Client \ {c} PROVE HoldsLease(d, client[d])'
    <3>1. CASE OwnsRow(client[d])
      <4>1. lease # Null /\ lease.expiresAt \in Int /\ lease.expiresAt <= Now(c)
            BY <1>1, <1>3, <1>5, <3>1 DEF OwnsRow, TypeOK
      <4>2. client[d].at \in {"leased", "reread", "purging", "fetching"} =>
               \E e \in Client : client[d].ends <= Now(e)
            BY <1>2, <3>1, <4>1 DEF HoldsLease
      <4> QED BY <1>2, <2>3, <4>2 DEF HoldsLease, Now
    <3>2. CASE ~OwnsRow(client[d])
          BY <1>2, <2>3, <3>2 DEF HoldsLease, Now
    <3> QED BY <3>1, <3>2
  <2>5. HoldsLease(c, client[c])'
    <3>1. k0.now + Lease \in Int
          BY <1>1, CacheAssumption
    <3>2. OwnsRow(k)' /\ lease'.expiresAt = k.ends
          BY <1>1, <2>1, <2>2, <3>1, CacheAssumption DEF OwnsRow
    <3> QED BY <2>2, <2>3, <3>2 DEF HoldsLease, OwnsRow
  <2> QED BY <2>4, <2>5, HoldsPartsAfter
<1>6. CASE ~(lease = Null \/ lease.expiresAt <= k0.now)
  <2>1. PICK k : k = [k0 EXCEPT !.at = "refused"] /\ Becomes(c, k) /\ UNCHANGED lease
        BY <1>6 DEF AcquireLease
  <2>2. k.at = "refused" /\ k.now = k0.now
        BY <1>4, <2>1
  <2>3. HoldsLease(c, k)
        BY <1>3, <2>2 DEF HoldsLease
  <2> QED BY <1>1, <1>2, <2>1, <2>3, LocalHolds
<1> QED BY <1>5, <1>6

LEMMA StepsHold ==
    ASSUME IInv, LeasesHeld, NEW c \in Client, LocalSteps(c) \/ PurgeExpiredNegativeLease(c)
    PROVE  LeasesHeld'
<1> DEFINE k0 == client[c]
           Quiet == {"idle", "looked", "waiting", "sleeping", "rechecked", "purge_refused", "changed",
                     "changed_read", "fetched", "filling", "releasing", "answering", "answered"}
<1>1. /\ TypeOK /\ k0 \in ClientState /\ k0.at \notin {"changed", "changed_read"}
      /\ HoldsLease(c, k0) /\ Now(c) \in Int
      BY HistoryParts, NowType DEF IInv, TypeOK, NoRacingWriter
<1>2. UNCHANGED <<lease, clock>>
      BY DEF LocalSteps, Begin, ReadHeldLease, Wait, Recheck, JudgeRecheck, Reread, JudgeReread,
             JudgeRefusedPurge, Fetch, ReadForFill, Answer, Fail, PurgeExpiredNegativeLease
<1>3. k0 = [at |-> k0.at, token |-> k0.token, seen |-> k0.seen, now |-> k0.now, ends |-> k0.ends,
            fetched |-> k0.fetched, fallback |-> k0.fallback, answer |-> k0.answer]
      BY <1>1 DEF ClientState
<1>4. \A k : k.at \in Quiet /\ Becomes(c, k) => LeasesHeld'
      BY <1>1, <1>2, QuietHolds, LocalHolds
<1>5. \A k : HoldsLease(c, k) /\ Becomes(c, k) => LeasesHeld'
      BY <1>1, <1>2, LocalHolds
<1>6. \A answer : Answered(k0, answer).at = "answered"
      BY DEF Answered, Idle
<1>7. \A answer : Becomes(c, Answered(k0, answer)) => LeasesHeld'
      BY <1>4, <1>6
<1>10. CASE Begin(c)
  <2>1. \/ \E seen, fallback : Becomes(c, [k0 EXCEPT !.at = "acquiring", !.now = Now(c),
                                                     !.seen = seen, !.fallback = fallback])
        \/ \E answer : Becomes(c, Answered(k0, answer))
        BY <1>10 DEF Begin
  <2>2. ASSUME NEW k, NEW seen, NEW fallback, Becomes(c, k),
               k = [k0 EXCEPT !.at = "acquiring", !.now = Now(c), !.seen = seen,
                              !.fallback = fallback]
        PROVE  LeasesHeld'
    <3>1. k.at = "acquiring" /\ k.now = Now(c)
          BY <1>3, <2>2
    <3>2. HoldsLease(c, k)
          BY <1>1, <3>1 DEF HoldsLease
    <3> QED BY <1>5, <2>2, <3>2
  <2> QED BY <1>7, <2>1, <2>2
<1>11. CASE ReadHeldLease(c)
  <2>1. PICK k : /\ Becomes(c, k)
                 /\ \/ k = [k0 EXCEPT !.at = "acquiring"]
                    \/ k = [k0 EXCEPT !.at = "waiting", !.ends = lease.expiresAt]
        BY <1>11 DEF ReadHeldLease
  <2>2. k0.at = "refused"
        BY <1>11 DEF ReadHeldLease
  <2>3. (k.at = "acquiring" /\ k.now = k0.now) \/ k.at = "waiting"
        BY <1>3, <2>1
  <2>4. HoldsLease(c, k)
        BY <1>1, <2>2, <2>3 DEF HoldsLease
  <2> QED BY <1>5, <2>1, <2>4
<1>12. CASE Wait(c)
  <2>1. \/ \E answer : Becomes(c, Answered(k0, answer))
        \/ \E k : k = [k0 EXCEPT !.at = "sleeping", !.now = Now(c)] /\ Becomes(c, k)
        BY <1>12 DEF Wait
  <2>2. \A k : k = [k0 EXCEPT !.at = "sleeping", !.now = Now(c)] => k.at = "sleeping"
        BY <1>3
  <2> QED BY <1>4, <1>7, <2>1, <2>2
<1>13. CASE Recheck(c)
  <2>1. PICK k : k = [k0 EXCEPT !.at = "rechecked", !.seen = source] /\ Becomes(c, k)
        BY <1>13 DEF Recheck
  <2>2. k.at = "rechecked"
        BY <1>3, <2>1
  <2> QED BY <1>4, <2>1, <2>2
<1>14. CASE JudgeRecheck(c)
  <2>1. \/ \E answer : Becomes(c, Answered(k0, answer))
        \/ \E k : k = [k0 EXCEPT !.at = "waiting", !.seen = Empty] /\ Becomes(c, k)
        BY <1>14 DEF JudgeRecheck
  <2>2. \A k : k = [k0 EXCEPT !.at = "waiting", !.seen = Empty] => k.at = "waiting"
        BY <1>3
  <2> QED BY <1>4, <1>7, <2>1, <2>2
<1>15. CASE Reread(c)
  <2>1. PICK k : k = [k0 EXCEPT !.at = "reread", !.seen = source] /\ Becomes(c, k)
        BY <1>1, <1>15 DEF Reread
  <2>2. k0.at = "leased" /\ k.at = "reread" /\ k.token = k0.token /\ k.ends = k0.ends
        BY <1>1, <1>3, <1>15, <2>1 DEF Reread
  <2>3. HoldsLease(c, k)
        BY <1>1, <2>2, GoesOnHolding
  <2> QED BY <1>5, <2>1, <2>3
<1>16. CASE JudgeReread(c)
  <2> DEFINE judged == [k0 EXCEPT !.now = Now(c),
                                  !.fallback = RetainedObservation(k0.seen, Now(c), k0.fallback)]
  <2>1. k0.at = "reread"
        BY <1>1, <1>16 DEF JudgeReread
  <2>2. PICK k : /\ Becomes(c, k)
                 /\ \/ k = [judged EXCEPT !.at = "releasing",
                                          !.answer = ObservationFor(judged.seen, Now(c))]
                    \/ \E at \in {"purging", "releasing", "fetching"} : k = [judged EXCEPT !.at = at]
        BY <1>16 DEF JudgeReread
  <2>3. /\ judged.token = k0.token /\ judged.ends = k0.ends
        /\ DOMAIN judged = {"at", "token", "seen", "now", "ends", "fetched", "fallback", "answer"}
        BY <1>3
  <2> HIDE DEF judged
  <2>4. k.at \in {"purging", "releasing", "fetching"} /\ k.token = k0.token /\ k.ends = k0.ends
        BY <2>2, <2>3
  <2>5. HoldsLease(c, k)
        BY <1>1, <2>1, <2>4, GoesOnHolding
  <2> QED BY <1>5, <2>2, <2>5
<1>17. CASE JudgeRefusedPurge(c)
  <2>1. \/ \E answer : Becomes(c, Answered(k0, answer))
        \/ \E k : k = [k0 EXCEPT !.at = "changed"] /\ Becomes(c, k)
        BY <1>17 DEF JudgeRefusedPurge
  <2>2. \A k : k = [k0 EXCEPT !.at = "changed"] => k.at = "changed"
        BY <1>3
  <2> QED BY <1>4, <1>7, <2>1, <2>2
<1>18. CASE Fetch(c)
  <2>1. PICK k : /\ Becomes(c, k)
                 /\ \/ \E o \in Observation :
                          k = [k0 EXCEPT !.at = "fetched", !.fetched = o, !.now = Now(c),
                                         !.seen = Empty, !.ends = 0]
                    \/ \E answer : k = [k0 EXCEPT !.at = "releasing", !.seen = Empty, !.ends = 0,
                                                  !.answer = answer]
        BY <1>18 DEF Fetch
  <2>2. k.at \in {"fetched", "releasing"}
        BY <1>3, <2>1
  <2> QED BY <1>4, <2>1, <2>2
<1>19. CASE ReadForFill(c)
  <2>1. PICK k : k = [k0 EXCEPT !.at = "filling", !.seen = source] /\ Becomes(c, k)
        BY <1>19 DEF ReadForFill
  <2>2. k.at = "filling"
        BY <1>3, <2>1
  <2> QED BY <1>4, <2>1, <2>2
<1>20. CASE Answer(c) \/ Fail(c)
  <2>1. \E answer : Becomes(c, Answered(k0, answer))
        BY <1>20 DEF Answer, Fail
  <2> QED BY <1>7, <2>1
<1>21. CASE PurgeExpiredNegativeLease(c)
  <2>1. k0.at = "purging"
        BY <1>21 DEF PurgeExpiredNegativeLease
  <2>2. PICK k : /\ Becomes(c, k)
                 /\ \/ \E seen, fallback :
                          k = [k0 EXCEPT !.at = "fetching", !.seen = seen, !.fallback = fallback]
                    \/ k = [k0 EXCEPT !.at = "purge_refused"]
        BY <1>21 DEF PurgeExpiredNegativeLease
  <2>3. k.at \in {"fetching", "purge_refused"} /\ k.token = k0.token /\ k.ends = k0.ends
        BY <1>3, <2>2
  <2>4. HoldsLease(c, k)
        BY <1>1, <2>1, <2>3, GoesOnHolding
  <2> QED BY <1>5, <2>2, <2>4
<1> QED BY <1>10, <1>11, <1>12, <1>13, <1>14, <1>15, <1>16, <1>17, <1>18, <1>19, <1>20, <1>21
        DEF LocalSteps

LEMMA LeasesKept ==
    ASSUME IInv, LeasesHeld, [Next]_vars
    PROVE  LeasesHeld'
<1>1. TypeOK /\ TokensDiffer
      BY DEF IInv
<1>2. CASE UNCHANGED vars
      BY <1>2 DEF vars, LeasesHeld, OwnsRow, Now
<1>3. CASE PassTime
  <2>1. \A e \in Client : Now(e) \in Int /\ Now(e)' = Now(e) + 1
        BY <1>1, <1>3, CacheAssumption DEF Now, TypeOK, PassTime
  <2>2. \A d \in Client : client[d].now \in Int /\ client[d].ends \in Int
        BY <1>1 DEF TypeOK, ClientState
  <2>3. \A d, e \in Client : /\ client[d].now <= Now(e) => client[d].now <= Now(e)'
                             /\ client[d].ends <= Now(e) => client[d].ends <= Now(e)'
        BY <2>1, <2>2
  <2>4. UNCHANGED <<lease, client>>
        BY <1>3 DEF PassTime
  <2> QED BY <2>3, <2>4 DEF LeasesHeld, OwnsRow
<1>4. ASSUME NEW c \in Client, ReleaseLease(c) PROVE LeasesHeld'
  <2>1. PICK k : k = [client[c] EXCEPT !.at = "answering"] /\ Becomes(c, k)
        BY <1>4 DEF ReleaseLease
  <2>2. k.at = "answering" /\ client[c].at # "idle"
        BY <1>1, <1>4, <2>1 DEF TypeOK, ClientState, ReleaseLease
  <2>3. UNCHANGED clock /\ (lease' = lease \/ (lease' = Null /\ OwnsRow(client[c])))
        BY <1>4 DEF ReleaseLease
  <2> QED BY <1>1, <2>1, <2>2, <2>3, ReleaseHolds
<1>5. ASSUME NEW c \in Client, FillLease(c) PROVE LeasesHeld'
  <2>1. PICK k : /\ Becomes(c, k)
                 /\ \/ \E answer : k = [client[c] EXCEPT !.at = "answering", !.answer = answer]
                    \/ \E answer : k = Answered(client[c], answer)
        BY <1>5 DEF FillLease
  <2>2. client[c].at # "idle" /\ client[c] \in ClientState
        BY <1>1, <1>5 DEF TypeOK, FillLease
  <2>3. k.at \in {"answering", "answered"}
        BY <2>1, <2>2 DEF ClientState, Answered, Idle
  <2>4. UNCHANGED clock /\ (lease' = lease \/ (lease' = Null /\ OwnsRow(client[c])))
        BY <1>5 DEF FillLease, OwnsActiveLease
  <2> QED BY <1>1, <2>1, <2>2, <2>3, <2>4, ReleaseHolds
<1>6. ASSUME NEW c \in Client, Finish(c) \/ Die(c) \/ \E token \in Token : Look(c, token)
      PROVE  LeasesHeld'
  <2>1. CASE Finish(c) \/ Die(c)
    <3>1. Becomes(c, Idle) /\ Idle.at = "idle"
          BY <2>1 DEF Finish, Die, Idle
    <3>2. UNCHANGED <<lease, clock>>
          BY <2>1 DEF Finish, Die
    <3> QED BY <1>1, <3>1, <3>2, QuietHolds, LocalHolds
  <2>2. ASSUME NEW token, Look(c, token) PROVE LeasesHeld'
    <3>1. PICK k : /\ k = [Idle EXCEPT !.at = "looked", !.token = token, !.seen = source]
                   /\ Becomes(c, k)
          BY <2>2 DEF Look
    <3>2. k.at = "looked"
          BY <3>1 DEF Idle
    <3>3. UNCHANGED <<lease, clock>>
          BY <2>2 DEF Look
    <3> QED BY <1>1, <3>1, <3>2, <3>3, QuietHolds, LocalHolds
  <2> QED BY <1>6, <2>1, <2>2
<1> QED BY <1>2, <1>3, <1>4, <1>5, <1>6, StepsHold, AcquireHolds DEF Next, Proceed, LocalSteps

\* What a lookup may answer, and which lease it holds, along every behaviour.
THEOREM CacheHistory == Spec => []HistoryInv
<1>1. Init => HistoryInv
  <2>1. SUFFICES ASSUME Init PROVE HistoryInv
        OBVIOUS
  <2>2. \A c \in Client : client[c].at = "idle"
        BY <2>1 DEF Init, Idle
  <2>3. during \in [Client -> SUBSET SourceState]
        BY <2>1 DEF Init
  <2> QED BY <2>2, <2>3 DEF HistoryInv, LeasesHeld, ReadsAreCurrent
<1>2. IInv /\ HistoryInv /\ [Next]_vars => HistoryInv'
      BY ReadsKept, LeasesKept DEF HistoryInv
<1> QED BY <1>1, <1>2, CacheInvariant, PTL DEF Spec

\* AnswersAreCurrent: what a lookup answers was stored while it ran, and never only fetched.
THEOREM LookupsAnswerWhatIsStored == Spec => []AnswersAreCurrent
<1>1. HistoryInv => AnswersAreCurrent
      BY DEF HistoryInv, ReadsAreCurrent, AnswersAreCurrent
<1> QED BY <1>1, CacheHistory, PTL

\* OneFetchPerLease: two lookups fetch at once only when a lease has run out by some clock.
THEOREM FetchesTakeTurns == Spec => []OneFetchPerLease
<1>1. IInv /\ HistoryInv => OneFetchPerLease
  <2>1. SUFFICES ASSUME IInv, LeasesHeld, NEW c \in Client, NEW d \in Client, c # d,
                        client[c].at = "fetching", client[d].at = "fetching"
                 PROVE  \E e \in Client : client[c].ends <= Now(e) \/ client[d].ends <= Now(e)
        BY DEF HistoryInv, OneFetchPerLease
  <2>2. ~(OwnsRow(client[c]) /\ OwnsRow(client[d]))
        BY <2>1, OneOwner DEF IInv
  <2> QED BY <2>1, <2>2 DEF LeasesHeld
<1> QED BY <1>1, CacheInvariant, CacheHistory, PTL

-----------------------------------------------------------------------------
(* What is proved of the record holds of the cache                          *)

RecordProofs == INSTANCE CitationRecordProofs WITH Instant <- Instants

\* The record of CitationCache is the one of CitationRecordProofs.
LEMMA RecordsAgree == ImplementsRecord => RecordProofs!RecordSpec
<1>1. Record!RecordInit => RecordProofs!RecordInit
      BY DEF Record!RecordInit, RecordProofs!RecordInit, Record!Empty, RecordProofs!Empty
<1>2. [Record!RecordNext]_(Record!recordVars) => [RecordProofs!RecordNext]_(RecordProofs!recordVars)
      BY DEF Record!RecordNext, RecordProofs!RecordNext, Record!recordVars, RecordProofs!recordVars,
             Record!Learn, RecordProofs!Learn, Record!Forget, RecordProofs!Forget,
             Record!Heard, RecordProofs!Heard, Record!Observation, RecordProofs!Observation,
             Record!RecordObservation, RecordProofs!RecordObservation,
             Record!RequiresRevalidation, RecordProofs!RequiresRevalidation,
             Record!PurgeExpiredNegative, RecordProofs!PurgeExpiredNegative,
             Record!StaleNegative, RecordProofs!StaleNegative,
             Record!IsFresh, RecordProofs!IsFresh, Record!Empty, RecordProofs!Empty,
             Record!PositiveState, RecordProofs!PositiveState,
             Record!NegativeState, RecordProofs!NegativeState,
             Record!ReversalPending, RecordProofs!ReversalPending
<1> QED BY <1>1, <1>2, PTL DEF ImplementsRecord, Record!RecordSpec, RecordProofs!RecordSpec

LEMMA InstantsAreTimes == Instants \subseteq Int
BY CacheAssumption DEF Instants

\* PositiveKept: whatever lookups race, the last positive stored stays known.
THEOREM CacheKeepsEvidence == Spec => []PositiveKept
<1>1. RecordProofs!RecordSpec => []RecordProofs!PositiveKept
      BY InstantsAreTimes, SourceAssumption, RecordProofs!EvidenceSurvives
<1>2. RecordProofs!PositiveKept => PositiveKept
      BY DEF RecordProofs!PositiveKept, PositiveKept, Record!PositiveKept,
             RecordProofs!Retained, Record!Retained
<1> QED BY <1>1, <1>2, RecordsAgree, CacheImplementsRecord, PTL

\* ReversalConfirmed: a single absence, however clocks and lookups race, never
\* turns a positive into "not found".
THEOREM CacheConfirmsReversals == Spec => []ReversalConfirmed
<1>1. RecordProofs!RecordSpec => []RecordProofs!ReversalConfirmed
      BY InstantsAreTimes, SourceAssumption, RecordProofs!ReversalsAreConfirmed
<1>2. RecordProofs!ReversalConfirmed => ReversalConfirmed
      BY DEF RecordProofs!ReversalConfirmed, ReversalConfirmed, Record!ReversalConfirmed
<1> QED BY <1>1, <1>2, RecordsAgree, CacheImplementsRecord, PTL
=============================================================================
