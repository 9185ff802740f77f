------------------------- MODULE OpinionStoreProofs -------------------------
(***************************************************************************)
(* The opinion store, for any lookups, texts, clocks and periods: the      *)
(* inductive invariant, that the rows behave as the record of              *)
(* CitationRecord, and what the store does to an opinion for good.         *)
(***************************************************************************)
EXTENDS OpinionStore, TLAPS

USE DEF Record!Empty, Record!PositiveState, Record!NegativeState, Record!ReversalPending

-----------------------------------------------------------------------------
(* The pure operators                                                      *)

LEMMA RecordObservationType ==
    ASSUME NEW s \in Record!SourceState, NEW observation \in Text \cup {Absent}, NEW now \in Int
    PROVE  RecordObservation(s, observation, now) \in Record!SourceState
<1> USE DEF RecordObservation, Record!RecordObservation, Record!SourceState, Record!Positive
<1>1. CASE observation # Absent
      BY <1>1
<1>2. CASE observation = Absent
  <2>1. CASE s.kind = "empty"
        BY <1>2, <2>1
  <2>2. CASE s.kind = "positive"
        BY <1>2, <2>2
  <2>3. CASE s.kind = "negative"
        BY <1>2, <2>3
  <2>4. CASE s.kind = "reversal_pending"
        BY <1>2, <2>4
  <2> QED BY <2>1, <2>2, <2>3, <2>4
<1> QED BY <1>1, <1>2

LEMMA PurgeType ==
    ASSUME NEW s \in Record!SourceState, NEW now \in Int, StaleNegative(s, now)
    PROVE  /\ PurgeExpiredNegative(s, now) \in Record!SourceState
           /\ PurgeExpiredNegative(s, now).kind \in {"empty", "reversal_pending"}
           /\ Record!Retained(PurgeExpiredNegative(s, now)) = Record!Retained(s)
<1> USE DEF PurgeExpiredNegative, Record!PurgeExpiredNegative, Record!SourceState,
            StaleNegative, Record!StaleNegative, Record!Retained
<1>1. /\ s.kind = "negative" /\ s.negative \in Int
      /\ s.superseded \in Record!Positive \cup {Null}
      OBVIOUS
<1>2. CASE s.superseded = Null
      BY <1>1, <1>2
<1>3. CASE s.superseded # Null
      BY <1>1, <1>3
<1> QED BY <1>2, <1>3

\* What needs refreshing still does later.
LEMMA RevalidationLasts ==
    ASSUME NEW s \in Record!SourceState, NEW now \in Int, NEW later \in Int, now <= later,
           RequiresRevalidation(s, now)
    PROVE  RequiresRevalidation(s, later)
<1> USE OpinionAssumption
    DEF RequiresRevalidation, Record!RequiresRevalidation, Record!StaleNegative, Record!IsFresh
<1>1. CASE s.kind = "positive"
  <2>1. s.positive.retrievedAt \in Int
        BY <1>1 DEF Record!SourceState, Record!Positive
  <2> QED BY <1>1, <2>1
<1>2. CASE s.kind = "negative"
  <2>1. s.negative \in Int
        BY <1>2 DEF Record!SourceState
  <2> QED BY <1>2, <2>1
<1> QED BY <1>1, <1>2 DEF Record!SourceState

LEMMA NowType ==
    ASSUME TypeOK, NEW c \in Client
    PROVE  Now(c) \in Int /\ Now(c) \in Instants
BY OpinionAssumption DEF TypeOK, Now, Instants

LEMMA InstantsAreInt == Instants \subseteq Int
BY OpinionAssumption DEF Instants

-----------------------------------------------------------------------------
(* Where a lookup may go                                                   *)

LEMMA Replies ==
    /\ Indeterminate \in Reply /\ SourceChanged \in Reply
    /\ \A p \in Positive : Found(p) \in Reply
BY DEF Reply, Found

LEMMA LookupType ==
    ASSUME NEW at \in Step \cup {"idle"}, NEW why \in Purpose, NEW token \in Token \cup {Null},
           NEW now \in Int, NEW retained \in Positive \cup {Null},
           NEW fetched \in Text \cup {Absent, Null}, NEW answer \in Reply
    PROVE  Lookup(at, why, token, now, retained, fetched, answer) \in ClientState
BY DEF Lookup, ClientState

LEMMA PlacesType ==
    ASSUME NEW k \in ClientState, NEW why \in Purpose, NEW now \in Int, NEW answer \in Reply
    PROVE  /\ Idle \in ClientState
           /\ Reading(k, why) \in ClientState
           /\ Acquiring(k, now) \in ClientState
           /\ Releasing(k, now, answer) \in ClientState
           /\ Answered(k, answer) \in ClientState
<1>1. /\ k.token \in Token \cup {Null} /\ k.retained \in Positive \cup {Null}
      /\ k.fetched \in Text \cup {Absent, Null}
      BY DEF ClientState
<1>2. /\ {"idle", "reading", "acquiring", "releasing", "answered"} \subseteq Step \cup {"idle"}
      /\ "first" \in Purpose /\ Indeterminate \in Reply /\ 0 \in Int
      BY Replies DEF Step, Purpose
<1> QED BY <1>1, <1>2, LookupType DEF Idle, Reading, Acquiring, Releasing, Answered

LEMMA Places ==
    ASSUME NEW k, NEW why, NEW now, NEW answer
    PROVE  /\ Idle.at = "idle" /\ Idle.token = Null
           /\ Reading(k, why).at = "reading" /\ Reading(k, why).why = why
           /\ Reading(k, why).token = k.token
           /\ Acquiring(k, now).at = "acquiring" /\ Acquiring(k, now).token = k.token
           /\ Releasing(k, now, answer).at = "releasing"
           /\ Releasing(k, now, answer).token = k.token
           /\ Answered(k, answer).at = "answered" /\ Answered(k, answer).token = k.token
BY DEF Idle, Reading, Acquiring, Releasing, Answered, Lookup

LEMMA UnstagingType ==
    ASSUME NEW k \in ClientState
    PROVE  /\ Unstaging(k) \in ClientState
           /\ Unstaging(k).token = k.token
           /\ \/ Staged(k) /\ Unstaging(k) = [k EXCEPT !.at = "unstaging"]
              \/ ~Staged(k) /\ Unstaging(k) = Reading(k, "winner")
<1>1. Reading(k, "winner") \in ClientState /\ Reading(k, "winner").token = k.token
      BY PlacesType, Places, Replies, 0 \in Int DEF Purpose
<1> QED BY <1>1 DEF Unstaging, ClientState, Step

LEMMA FallbackType ==
    ASSUME NEW k \in ClientState
    PROVE  Fallback(k) \in Reply
BY Replies DEF Fallback, ClientState

LEMMA AnswersType ==
    ASSUME NEW s \in Record!SourceState
    PROVE  AnswerFrom(s) \in Reply /\ CommitAnswer(s) \in Reply
<1>1. s.kind = "positive" => s.positive \in Positive
      BY DEF Record!SourceState, Positive
<1> QED BY <1>1, Replies DEF AnswerFrom, CommitAnswer

LEMMA WinnerAnswerType ==
    ASSUME NEW k \in ClientState, k.seen # Null
    PROVE  WinnerAnswer(k) \in Reply
<1>1. k.seen \in Record!SourceState
      BY DEF ClientState
<1>2. k.seen.kind = "positive" => k.seen.positive \in Positive
      BY <1>1 DEF Record!SourceState, Positive
<1> QED BY <1>2, Replies, FallbackType DEF WinnerAnswer

-----------------------------------------------------------------------------
(* One lookup moves                                                        *)

LEMMA OneMoves ==
    ASSUME client \in [Client -> ClientState], NEW c \in Client, NEW k \in ClientState,
           Becomes(c, k)
    PROVE  /\ client' \in [Client -> ClientState]
           /\ client'[c] = k
           /\ \A d \in Client \ {c} : client'[d] = client[d]
BY DEF Becomes

LEMMA TokensKept ==
    ASSUME TypeOK, TokensDiffer, NEW c \in Client, NEW k \in ClientState, Becomes(c, k),
           k.token = client[c].token, client[c].at # "idle", k.at # "idle"
    PROVE  TokensDiffer'
<1>1. /\ client'[c] = k
      /\ \A d \in Client \ {c} : client'[d] = client[d]
      BY OneMoves DEF TypeOK
<1>2. \A d \in Client : /\ client'[d].token = client[d].token
                        /\ client'[d].at = "idle" <=> client[d].at = "idle"
      BY <1>1
<1> QED BY <1>2 DEF TokensDiffer

\* The token of a lookup under way is its own.
LEMMA OwnToken ==
    ASSUME TokensDiffer, NEW c \in Client, client[c].at # "idle"
    PROVE  /\ client[c].token \in Token /\ client[c].token # Null
           /\ \A d \in Client \ {c} : client[d].token # client[c].token
BY OpinionAssumption DEF TokensDiffer

\* A step of one lookup that takes nobody's lease, and writes to D1 only with its own,
\* leaves the others as they are.
LEMMA OthersKeep ==
    ASSUME IInv, NEW c \in Client, client[c].at # "idle", UNCHANGED clock,
           lease' = lease \/ lease' = Null \/ lease'.owner = client[c].token,
           OwnsRow(client[c]) \/ UNCHANGED <<state, versions>>,
           versions \subseteq versions', lost \subseteq lost',
           \A v \in versions' \ versions :
              v.cluster.owner = client[c].token
                 \/ \E w \in versions : v.cluster.owner = w.cluster.owner,
           \A o \in objects \ objects' : o.owner = client[c].token,
           NEW d \in Client \ {c}, client'[d] = client[d]
    PROVE  LookupOK(d, client[d])'
<1> DEFINE k == client[d]
<1>1. LookupOK(d, k) /\ k.token # client[c].token
      BY OwnToken DEF IInv
<1>2. OwnsRow(k)' => OwnsRow(k) /\ lease' = lease /\ UNCHANGED <<state, versions>>
      BY <1>1 DEF OwnsRow
<1>3. Punctual(d, k)'
      BY <1>1 DEF LookupOK, Punctual, Now
<1>4. OwnerSeesState(k)'
      BY <1>1, <1>2 DEF LookupOK, OwnerSeesState, Mismatched
<1>5. PurgeJudged(k)'
      BY <1>1, <1>2 DEF LookupOK, PurgeJudged, OwnsActiveLease
<1>6. FetchedStored(k)'
  <2>1. k.at \in Filling /\ k.fetched \in Text /\ Staged(k) => ObjectOf(k.fetched) \in objects'
        BY <1>1 DEF LookupOK, FetchedStored, Staged, ObjectOf
  <2>2. k.at \in Filling /\ Staged(k) => ObjectOf(k.fetched) \in objects'
        BY <1>1, <2>1 DEF LookupOK, FetchedStored, Staged
  <2> QED BY <1>1, <1>2, <2>2 DEF LookupOK, FetchedStored, Staged
<1>7. Unpublished(k)'
      BY <1>1 DEF LookupOK, Unpublished
<1> QED BY <1>3, <1>4, <1>5, <1>6, <1>7 DEF LookupOK

\* A step that writes nothing at all needs a look at its lookup alone.
LEMMA LocalStep ==
    ASSUME IInv, NEW c \in Client, NEW k \in ClientState,
           client[c].at # "idle", k.at # "idle", k.token = client[c].token, Becomes(c, k),
           UNCHANGED <<state, versions, objects, lease, clock, lost>>, LookupOK(c, k)
    PROVE  IInv'
<1>1. /\ client' \in [Client -> ClientState]
      /\ client'[c] = k
      /\ \A d \in Client \ {c} : client'[d] = client[d]
      BY OneMoves DEF IInv, TypeOK
<1>2. TypeOK'
      BY <1>1 DEF IInv, TypeOK
<1>3. TokensDiffer'
      BY TokensKept DEF IInv
<1>4. RowsOK'
      BY DEF IInv, RowsOK, EvidenceStored, OneObjectPerContent, Versioned
<1>5. \A d \in Client \ {c} : LookupOK(d, client[d])'
      BY <1>1, OthersKeep
<1>6. LookupOK(c, k)'
      BY DEF LookupOK, Punctual, Now, OwnerSeesState, OwnsRow, Mismatched, PurgeJudged,
             OwnsActiveLease, FetchedStored, Staged, Unpublished
<1>7. LookupOK(c, client[c])'
      BY <1>1, <1>6
<1> QED BY <1>2, <1>3, <1>4, <1>5, <1>7 DEF IInv

\* Where a lookup says nothing but that it has still to commit, or not even that.
Quiet(k) ==
    \/ k.at \in {"acquiring", "refused", "waiting", "releasing", "answered", "reading"}
    \/ k.at \in {"object", "version", "judging"} /\ (k.why # "again" \/ k.seen = Null)
Early(k) ==
    \/ k.at \in {"reading", "object", "version", "judging"} /\ k.why # "winner"
    \/ k.at \in {"acquiring", "refused", "waiting", "purging", "purge_refused"} \cup Fetching
Late(k) ==
    \/ k.at \in {"reading", "object", "version", "judging"} /\ k.why = "winner"
    \/ k.at \in {"releasing", "answered"}

LEMMA QuietLookup ==
    ASSUME NEW c \in Client, NEW k, Quiet(k), Late(k) \/ Unpublished(k)
    PROVE  LookupOK(c, k)
<1>1. k.at \notin Fetching \cup {"purging", "purge_refused", "unstaging", "idle"}
      BY DEF Quiet, Fetching
<1>2. Unpublished(k)
      BY <1>1 DEF Late, Unpublished
<1> QED BY <1>1, <1>2
        DEF LookupOK, Punctual, OwnerSeesState, PurgeJudged, FetchedStored, Quiet, Fetching, Filling

LEMMA StillUnpublished ==
    ASSUME IInv, NEW c \in Client, Early(client[c]), NEW k, Early(k), k.token = client[c].token
    PROVE  Unpublished(k)
<1>1. \A v \in versions : v.cluster.owner # k.token
      BY DEF IInv, LookupOK, Unpublished, Early
<1>2. k.at # "unstaging"
      BY DEF Early, Fetching
<1> QED BY <1>1, <1>2 DEF Unpublished

LEMMA QuietStep ==
    ASSUME IInv, NEW c \in Client, client[c].at # "idle", NEW k \in ClientState,
           Quiet(k), Late(k) \/ (Early(client[c]) /\ Early(k)),
           k.token = client[c].token, Becomes(c, k),
           UNCHANGED <<state, versions, objects, lease, clock, lost>>
    PROVE  IInv'
<1>1. k.at # "idle"
      BY DEF Quiet
<1>2. LookupOK(c, k)
      BY QuietLookup, StillUnpublished
<1> QED BY <1>1, <1>2, LocalStep

LEMMA AnsweredStep ==
    ASSUME IInv, NEW c \in Client, client[c].at # "idle", NEW answer \in Reply,
           Becomes(c, Answered(client[c], answer)),
           UNCHANGED <<state, versions, objects, lease, clock, lost>>
    PROVE  IInv'
<1> DEFINE k == Answered(client[c], answer)
<1>1. client[c] \in ClientState
      BY DEF IInv, TypeOK
<1>2. k \in ClientState /\ k.at = "answered" /\ k.token = client[c].token
  <2>1. "first" \in Purpose /\ 0 \in Int
        BY DEF Purpose
  <2>2. k \in ClientState
        BY <1>1, <2>1, PlacesType
  <2> QED BY <2>2, Places
<1> HIDE DEF k
<1>3. Quiet(k) /\ Late(k)
      BY <1>2 DEF Quiet, Late
<1> QED BY <1>2, <1>3, QuietStep DEF k

LEMMA ReadingStep ==
    ASSUME IInv, NEW c \in Client, client[c].at # "idle", NEW why \in Purpose,
           why = "winner" \/ Early(client[c]),
           Becomes(c, Reading(client[c], why)),
           UNCHANGED <<state, versions, objects, lease, clock, lost>>
    PROVE  IInv'
<1> DEFINE k == Reading(client[c], why)
<1>1. client[c] \in ClientState
      BY DEF IInv, TypeOK
<1>2. k \in ClientState /\ k.at = "reading" /\ k.why = why /\ k.token = client[c].token
      BY <1>1, PlacesType, Places, 0 \in Int, Replies
<1> HIDE DEF k
<1>3. Quiet(k) /\ (Late(k) \/ (Early(client[c]) /\ Early(k)))
      BY <1>2 DEF Quiet, Late, Early
<1> QED BY <1>2, <1>3, QuietStep DEF k

LEMMA AcquiringStep ==
    ASSUME IInv, NEW c \in Client, client[c].at # "idle", NEW k \in ClientState,
           k.at \in {"acquiring", "waiting"}, k.token = client[c].token, Early(client[c]),
           Becomes(c, k),
           UNCHANGED <<state, versions, objects, lease, clock, lost>>
    PROVE  IInv'
<1>1. Quiet(k) /\ Early(k)
      BY DEF Quiet, Early
<1> QED BY <1>1, QuietStep

LEMMA ReleasingStep ==
    ASSUME IInv, NEW c \in Client, client[c].at # "idle", NEW k \in ClientState,
           k.at = "releasing", k.token = client[c].token, Becomes(c, k),
           UNCHANGED <<state, versions, objects, lease, clock, lost>>
    PROVE  IInv'
<1>1. Quiet(k) /\ Late(k)
      BY DEF Quiet, Late
<1> QED BY <1>1, QuietStep

\* What every action may assume of the lookup that takes it.
LEMMA Known ==
    ASSUME IInv, NEW c \in Client
    PROVE  /\ TypeOK /\ TokensDiffer /\ RowsOK /\ LookupOK(c, client[c])
           /\ client \in [Client -> ClientState] /\ client[c] \in ClientState
           /\ state \in Record!SourceState
           /\ Now(c) \in Int /\ Now(c) \in Instants
           /\ client[c].seen \in Record!SourceState \cup {Null}
           /\ client[c].now \in Int /\ client[c].ends \in Int
           /\ client[c].token \in Token \cup {Null}
           /\ client[c].fetched \in Text \cup {Absent, Null}
           /\ client[c].retained \in Positive \cup {Null}
           /\ client[c].answer \in Reply
           /\ Fallback(client[c]) \in Reply
BY NowType, FallbackType DEF IInv, TypeOK, ClientState

-----------------------------------------------------------------------------
(* The steps of a lookup that write nothing                                *)

Moved(k, at) == [k EXCEPT !.at = at]
Emptied(k, at) == [k EXCEPT !.at = at, !.seen = Null]

LEMMA MovedType ==
    ASSUME NEW k \in ClientState, NEW at \in Step
    PROVE  /\ Moved(k, at) \in ClientState /\ Moved(k, at).at = at
           /\ Moved(k, at).why = k.why /\ Moved(k, at).token = k.token
           /\ Moved(k, at).seen = k.seen
           /\ Emptied(k, at) \in ClientState /\ Emptied(k, at).at = at
           /\ Emptied(k, at).why = k.why /\ Emptied(k, at).token = k.token
           /\ Emptied(k, at).seen = Null
BY DEF ClientState, Moved, Emptied

Retaining(k, retained) == [k EXCEPT !.retained = retained]
LEMMA RetainingType ==
    ASSUME NEW k \in ClientState, NEW retained \in Positive \cup {Null}
    PROVE  /\ Retaining(k, retained) \in ClientState
           /\ Retaining(k, retained).at = k.at /\ Retaining(k, retained).token = k.token
BY DEF Retaining, ClientState

LEMMA Steps ==
    {"reading", "object", "version", "judging", "acquiring", "refused", "waiting",
     "purging", "purge_refused", "fetching", "finding", "verifying", "uploading",
     "filling", "stamping", "committing", "unstaging", "releasing", "answered"} \subseteq Step
BY DEF Step

LEMMA ReadByType ==
    ASSUME NEW k \in ClientState, state \in Record!SourceState
    PROVE  /\ ReadBy(k) \in ClientState /\ ReadBy(k).token = k.token
           /\ ReadBy(k).why = k.why /\ ReadBy(k).seen = state
           /\ \/ state.kind = "positive" /\ ReadBy(k).at = "object"
              \/ state.kind # "positive" /\ ReadBy(k).at = "judging"
BY DEF ReadBy, ClientState, Step

LEMMA ReadStateKeeps ==
    ASSUME IInv, NEW c \in Client, ReadState(c)
    PROVE  IInv'
<1> DEFINE k == ReadBy(client[c])
<1>1. client[c].at = "reading" /\ Becomes(c, k)
      BY DEF ReadState
<1>2. k \in ClientState /\ k.at \in {"object", "judging"} /\ k.token = client[c].token
         /\ k.why = client[c].why /\ k.seen = state
         /\ (k.at = "judging" => state.kind # "positive")
      BY Known, ReadByType
<1> HIDE DEF k
<1>3. OwnerSeesState(k)
      BY <1>2 DEF OwnerSeesState, Mismatched, Fetching
<1>4. k.why # "winner" => Unpublished(k)
      BY <1>1, <1>2, StillUnpublished DEF Early
<1>5. LookupOK(c, k)
      BY <1>2, <1>3, <1>4
      DEF LookupOK, Punctual, PurgeJudged, FetchedStored, Unpublished, Fetching, Filling
<1> QED BY <1>1, <1>2, <1>5, LocalStep DEF ReadState

\* A read that goes on, or that has failed.
LEMMA ReadOn ==
    ASSUME IInv, NEW c \in Client, NEW k \in ClientState,
           client[c].at \in {"object", "version"}, k.at \in {"version", "judging"},
           k.why = client[c].why, k.token = client[c].token,
           \/ k.seen = client[c].seen /\ k.at = "version"
           \/ k.seen = client[c].seen /\ k.seen.positive \in versions
           \/ k.seen = Null
    PROVE  LookupOK(c, k)
<1>1. OwnerSeesState(k)
      BY Known DEF LookupOK, OwnerSeesState, Mismatched, OwnsRow, Fetching
<1>2. k.why # "winner" => Unpublished(k)
      BY StillUnpublished DEF Early
<1> QED BY <1>1, <1>2
    DEF LookupOK, Punctual, PurgeJudged, FetchedStored, Unpublished, Fetching, Filling

LEMMA ReadObjectKeeps ==
    ASSUME IInv, NEW c \in Client, ReadObject(c)
    PROVE  IInv'
<1> DEFINE found == ObjectOf(client[c].seen.positive.cluster) \in objects
           k == IF found THEN Moved(client[c], "version") ELSE Emptied(client[c], "judging")
<1>1. client[c].at = "object" /\ Becomes(c, k)
      BY DEF ReadObject, Moved, Emptied
<1>2. client[c] \in ClientState /\ "version" \in Step /\ "judging" \in Step
      BY Known, Steps
<1>3. \/ k = Moved(client[c], "version") /\ found
      \/ k = Emptied(client[c], "judging")
      OBVIOUS
<1> HIDE DEF k
<1>4. /\ k \in ClientState /\ k.why = client[c].why /\ k.token = client[c].token
      /\ k.at \in {"version", "judging"}
      /\ \/ k.seen = client[c].seen /\ k.at = "version"
         \/ k.seen = Null
  <2>1. CASE k = Moved(client[c], "version") /\ found
        BY <1>2, <2>1, MovedType
  <2>2. CASE k = Emptied(client[c], "judging")
        BY <1>2, <2>2, MovedType
  <2> QED BY <1>3, <2>1, <2>2
<1>5. LookupOK(c, k)
      BY <1>1, <1>4, ReadOn
<1> QED BY <1>1, <1>4, <1>5, LocalStep DEF ReadObject

LEMMA ValidateVersionKeeps ==
    ASSUME IInv, NEW c \in Client, ValidateVersion(c)
    PROVE  IInv'
<1> DEFINE found == client[c].seen.positive \in versions
           k == IF found THEN Moved(client[c], "judging") ELSE Emptied(client[c], "judging")
<1>1. client[c].at = "version" /\ Becomes(c, k)
      BY DEF ValidateVersion, Moved, Emptied
<1>2. client[c] \in ClientState /\ "version" \in Step /\ "judging" \in Step
      BY Known, Steps
<1>3. \/ k = Moved(client[c], "judging") /\ found
      \/ k = Emptied(client[c], "judging")
      OBVIOUS
<1> HIDE DEF k
<1>4. /\ k \in ClientState /\ k.why = client[c].why /\ k.token = client[c].token
      /\ k.at \in {"version", "judging"}
      /\ \/ k.seen = client[c].seen /\ k.seen.positive \in versions
         \/ k.seen = Null
  <2>1. CASE k = Moved(client[c], "judging") /\ found
        BY <1>2, <2>1, MovedType
  <2>2. CASE k = Emptied(client[c], "judging")
        BY <1>2, <2>2, MovedType
  <2> QED BY <1>3, <2>1, <2>2
<1>5. LookupOK(c, k)
      BY <1>1, <1>4, ReadOn
<1> QED BY <1>1, <1>4, <1>5, LocalStep DEF ValidateVersion

LEMMA JudgeFirstKeeps ==
    ASSUME IInv, NEW c \in Client, JudgeFirst(c)
    PROVE  IInv'
<1> DEFINE r == IF client[c].seen.kind = "positive" THEN client[c].seen.positive ELSE Null
<1>1. /\ client[c].at = "judging" /\ client[c].why = "first"
      /\ UNCHANGED <<state, versions, objects, lease, clock, lost>>
      BY DEF JudgeFirst
<1>2. CASE client[c].seen = Null
      BY <1>1, <1>2, AnsweredStep, Replies DEF JudgeFirst
<1>3. CASE client[c].seen # Null
  <2>1. client[c].seen \in Record!SourceState
        BY <1>3, Known
  <2>2. CASE ~RequiresRevalidation(client[c].seen, Now(c))
        BY <1>1, <1>3, <2>1, <2>2, AnsweredStep, AnswersType DEF JudgeFirst
  <2>3. CASE RequiresRevalidation(client[c].seen, Now(c))
    <3>1. r \in Positive \cup {Null}
          BY <2>1 DEF Record!SourceState, Positive
    <3>2. Becomes(c, Retaining(Acquiring(client[c], Now(c)), r))
          BY <1>3, <2>3 DEF JudgeFirst, Retaining
    <3> DEFINE k == Retaining(Acquiring(client[c], Now(c)), r)
    <3> HIDE DEF r
    <3>3. k \in ClientState /\ k.at = "acquiring" /\ k.token = client[c].token
      <4>1. "first" \in Purpose /\ Indeterminate \in Reply
            BY Replies DEF Purpose
      <4>2. Acquiring(client[c], Now(c)) \in ClientState
            BY <4>1, Known, PlacesType
      <4>3. /\ Acquiring(client[c], Now(c)).at = "acquiring"
            /\ Acquiring(client[c], Now(c)).token = client[c].token
            BY Places
      <4> QED BY <3>1, <4>2, <4>3, RetainingType
    <3>4. Early(client[c])
          BY <1>1 DEF Early
    <3> HIDE DEF k
    <3> QED BY <1>1, <3>2, <3>3, <3>4, AcquiringStep DEF k
  <2> QED BY <2>2, <2>3
<1> QED BY <1>2, <1>3

LEMMA ReadHeldLeaseKeeps ==
    ASSUME IInv, NEW c \in Client, ReadHeldLease(c)
    PROVE  IInv'
<1>1. /\ client[c].at = "refused"
      /\ UNCHANGED <<state, versions, objects, lease, clock, lost>>
      BY DEF ReadHeldLease
<1>2. Early(client[c])
      BY <1>1 DEF Early
<1>3. CASE lease # Null
  <2> DEFINE k == [client[c] EXCEPT !.at = "waiting", !.ends = lease.expiresAt]
  <2>1. Becomes(c, k)
        BY <1>3 DEF ReadHeldLease
  <2>2. lease.expiresAt \in Int
        BY <1>3 DEF IInv, TypeOK
  <2>3. k \in ClientState /\ k.at = "waiting" /\ k.token = client[c].token
        BY <2>2, Known, Steps DEF ClientState
  <2> HIDE DEF k
  <2> QED BY <1>1, <1>2, <2>1, <2>3, AcquiringStep
<1>4. CASE lease = Null /\ client[c].retried
      BY <1>1, <1>4, Known, AnsweredStep DEF ReadHeldLease
<1>5. CASE lease = Null /\ ~client[c].retried
  <2> DEFINE k == [client[c] EXCEPT !.at = "acquiring", !.retried = TRUE]
  <2>1. Becomes(c, k)
        BY <1>5 DEF ReadHeldLease
  <2>2. k \in ClientState /\ k.at = "acquiring" /\ k.token = client[c].token
        BY Known, Steps DEF ClientState
  <2> HIDE DEF k
  <2> QED BY <1>1, <1>2, <2>1, <2>2, AcquiringStep
<1> QED BY <1>3, <1>4, <1>5

LEMMA AcquiringType ==
    ASSUME IInv, NEW c \in Client
    PROVE  /\ Acquiring(client[c], Now(c)) \in ClientState
           /\ Acquiring(client[c], Now(c)).at = "acquiring"
           /\ Acquiring(client[c], Now(c)).token = client[c].token
<1>1. "first" \in Purpose /\ Indeterminate \in Reply
      BY Replies DEF Purpose
<1>2. Acquiring(client[c], Now(c)) \in ClientState
      BY <1>1, Known, PlacesType
<1> QED BY <1>2, Places

LEMMA ReadingType ==
    ASSUME IInv, NEW c \in Client, NEW why \in Purpose
    PROVE  /\ Reading(client[c], why) \in ClientState
           /\ Reading(client[c], why).at = "reading"
           /\ Reading(client[c], why).why = why
           /\ Reading(client[c], why).token = client[c].token
<1>1. Indeterminate \in Reply /\ 0 \in Int
      BY Replies
<1>2. Reading(client[c], why) \in ClientState
      BY <1>1, Known, PlacesType
<1> QED BY <1>2, Places

LEMMA ReleasingType ==
    ASSUME IInv, NEW c \in Client, NEW answer \in Reply
    PROVE  /\ Releasing(client[c], Now(c), answer) \in ClientState
           /\ Releasing(client[c], Now(c), answer).at = "releasing"
           /\ Releasing(client[c], Now(c), answer).token = client[c].token
<1>1. "first" \in Purpose
      BY DEF Purpose
<1>2. Releasing(client[c], Now(c), answer) \in ClientState
      BY <1>1, Known, PlacesType
<1> QED BY <1>2, Places

LEMMA WaitKeeps ==
    ASSUME IInv, NEW c \in Client, Wait(c)
    PROVE  IInv'
<1>1. /\ client[c].at = "waiting"
      /\ UNCHANGED <<state, versions, objects, lease, clock, lost>>
      BY DEF Wait
<1>2. Early(client[c])
      BY <1>1 DEF Early
<1>3. CASE client[c].ends <= Now(c)
  <2>1. Becomes(c, Acquiring(client[c], Now(c)))
        BY <1>3 DEF Wait
  <2> QED BY <1>1, <1>2, <2>1, AcquiringType, AcquiringStep
<1>4. CASE ~(client[c].ends <= Now(c))
  <2> DEFINE r == Reading(client[c], "waited")
             k == [r EXCEPT !.now = Now(c)]
  <2>1. Becomes(c, k)
        BY <1>4 DEF Wait
  <2>2. /\ r \in ClientState /\ r.at = "reading" /\ r.why = "waited"
        /\ r.token = client[c].token
        BY ReadingType DEF Purpose
  <2> HIDE DEF r
  <2>3. k \in ClientState /\ k.at = "reading" /\ k.why = "waited" /\ k.token = client[c].token
        BY <2>2, Known DEF ClientState
  <2> HIDE DEF k
  <2>4. Quiet(k) /\ Early(k)
        BY <2>3 DEF Quiet, Early
  <2> QED BY <1>1, <1>2, <2>1, <2>3, <2>4, QuietStep
<1> QED BY <1>3, <1>4

LEMMA JudgeWaitedKeeps ==
    ASSUME IInv, NEW c \in Client, JudgeWaited(c)
    PROVE  IInv'
<1>1. /\ client[c].at = "judging" /\ client[c].why = "waited"
      /\ UNCHANGED <<state, versions, objects, lease, clock, lost>>
      BY DEF JudgeWaited
<1>2. Early(client[c])
      BY <1>1 DEF Early
<1>3. CASE client[c].seen = Null
      BY <1>1, <1>3, Known, AnsweredStep DEF JudgeWaited
<1>4. CASE client[c].seen # Null
  <2>1. client[c].seen \in Record!SourceState
        BY <1>4, Known
  <2>2. CASE ~RequiresRevalidation(client[c].seen, Now(c))
        BY <1>1, <1>4, <2>1, <2>2, AnsweredStep, AnswersType DEF JudgeWaited
  <2>3. CASE RequiresRevalidation(client[c].seen, Now(c)) /\ Now(c) <= client[c].now
    <3>1. Becomes(c, Acquiring(client[c], Now(c)))
          BY <1>4, <2>3 DEF JudgeWaited
    <3> QED BY <1>1, <1>2, <3>1, AcquiringType, AcquiringStep
  <2>4. CASE RequiresRevalidation(client[c].seen, Now(c)) /\ ~(Now(c) <= client[c].now)
    <3>1. Becomes(c, Emptied(client[c], "waiting"))
          BY <1>4, <2>4 DEF JudgeWaited, Emptied
    <3>2. client[c] \in ClientState /\ "waiting" \in Step
          BY Known, Steps
    <3>3. /\ Emptied(client[c], "waiting") \in ClientState
          /\ Emptied(client[c], "waiting").at = "waiting"
          /\ Emptied(client[c], "waiting").token = client[c].token
          BY <3>2, MovedType
    <3> QED BY <1>1, <1>2, <3>1, <3>3, AcquiringStep
  <2> QED BY <2>2, <2>3, <2>4
<1> QED BY <1>3, <1>4

LEMMA JudgeRefusedPurgeKeeps ==
    ASSUME IInv, NEW c \in Client, JudgeRefusedPurge(c)
    PROVE  IInv'
<1>1. /\ client[c].at = "purge_refused"
      /\ UNCHANGED <<state, versions, objects, lease, clock, lost>>
      BY DEF JudgeRefusedPurge
<1>2. CASE OwnsActiveLease(client[c], client[c].now)
  <2> DEFINE r == Releasing(client[c], Now(c), Indeterminate)
             k == [r EXCEPT !.why = "winner"]
  <2>1. Becomes(c, k)
        BY <1>2 DEF JudgeRefusedPurge
  <2>2. r \in ClientState /\ r.at = "releasing" /\ r.token = client[c].token
        BY ReleasingType, Replies
  <2> HIDE DEF r
  <2>3. k \in ClientState /\ k.at = "releasing" /\ k.token = client[c].token
        BY <2>2 DEF ClientState, Purpose
  <2> HIDE DEF k
  <2> QED BY <1>1, <2>1, <2>3, ReleasingStep
<1>3. CASE ~OwnsActiveLease(client[c], client[c].now)
      BY <1>1, <1>3, Replies, AnsweredStep DEF JudgeRefusedPurge
<1> QED BY <1>2, <1>3

LEMMA JudgeWinnerKeeps ==
    ASSUME IInv, NEW c \in Client, JudgeWinner(c)
    PROVE  IInv'
<1>1. /\ client[c].at = "judging"
      /\ UNCHANGED <<state, versions, objects, lease, clock, lost>>
      BY DEF JudgeWinner
<1>2. CASE client[c].seen = Null
      BY <1>1, <1>2, Replies, AnsweredStep DEF JudgeWinner
<1>3. CASE client[c].seen # Null
      BY <1>1, <1>3, Known, WinnerAnswerType, AnsweredStep DEF JudgeWinner
<1> QED BY <1>2, <1>3

\* The owner has nothing more to do than to let go of the lease.
LEMMA LettingGoStep ==
    ASSUME IInv, NEW c \in Client, client[c].at # "idle", NEW answer \in Reply,
           Becomes(c, Releasing(client[c], Now(c), answer)),
           UNCHANGED <<state, versions, objects, lease, clock, lost>>
    PROVE  IInv'
BY ReleasingType, ReleasingStep

LEMMA OwnerReads ==
    ASSUME IInv, NEW c \in Client, JudgeAgain(c), client[c].seen # Null,
           RequiresRevalidation(client[c].seen, Now(c))
    PROVE  /\ IInv'
<1> DEFINE k == client[c]
<1>1. /\ k.at = "judging" /\ k.why = "again"
      /\ UNCHANGED <<state, versions, objects, lease, clock, lost>>
      BY DEF JudgeAgain
<1>2. OwnsRow(k) => k.seen = state /\ ~Mismatched
      BY <1>1, Known DEF LookupOK, OwnerSeesState
<1>3. Early(k)
      BY <1>1 DEF Early
<1>4. /\ Now(c) \in Int /\ Now(c) \in Instants /\ k \in ClientState
      /\ k.seen \in Record!SourceState
      BY Known
<1>5. CASE StaleNegative(k.seen, Now(c))
  <2> DEFINE n == [k EXCEPT !.at = "purging", !.now = Now(c)]
  <2>1. Becomes(c, n)
        BY <1>5 DEF JudgeAgain
  <2>2. /\ n \in ClientState /\ n.at = "purging" /\ n.token = k.token
        /\ n.seen = k.seen /\ n.now = Now(c)
        BY <1>4, Steps DEF ClientState
  <2> HIDE DEF n
  <2>3. OwnsRow(n) <=> OwnsRow(k)
        BY <2>2 DEF OwnsRow
  <2>4. Unpublished(n)
        BY <1>3, <2>2, StillUnpublished DEF Early
  <2>5. LookupOK(c, n)
        BY <1>2, <1>4, <1>5, <2>2, <2>3, <2>4
        DEF LookupOK, Punctual, OwnerSeesState, PurgeJudged, FetchedStored, Fetching, Filling
  <2> HIDE DEF k
  <2> QED BY <1>1, <2>1, <2>2, <2>5, LocalStep DEF k
<1>6. CASE ~StaleNegative(k.seen, Now(c))
  <2> DEFINE n == [k EXCEPT !.at = "fetching", !.now = Now(c), !.seen = Null]
  <2>1. Becomes(c, n)
        BY <1>6 DEF JudgeAgain
  <2>2. /\ n \in ClientState /\ n.at = "fetching" /\ n.token = k.token /\ n.now = Now(c)
        BY <1>4, Steps DEF ClientState
  <2> HIDE DEF n
  <2>3. OwnsRow(n) <=> OwnsRow(k)
        BY <2>2 DEF OwnsRow
  <2>4. Unpublished(n)
        BY <1>3, <2>2, StillUnpublished DEF Early, Fetching
  <2>5. k.seen.kind # "negative"
        BY <1>6 DEF RequiresRevalidation, Record!RequiresRevalidation,
                    StaleNegative, Record!StaleNegative
  <2>6. OwnerSeesState(n)
        BY <1>2, <2>2, <2>3, <2>5 DEF OwnerSeesState
  <2>7. LookupOK(c, n)
        BY <1>4, <2>2, <2>4, <2>6
        DEF LookupOK, Punctual, PurgeJudged, FetchedStored, Fetching, Filling
  <2> HIDE DEF k
  <2> QED BY <1>1, <2>1, <2>2, <2>7, LocalStep DEF k
<1> QED BY <1>5, <1>6

LEMMA JudgeAgainKeeps ==
    ASSUME IInv, NEW c \in Client, JudgeAgain(c)
    PROVE  IInv'
<1>1. /\ client[c].at = "judging"
      /\ UNCHANGED <<state, versions, objects, lease, clock, lost>>
      BY DEF JudgeAgain
<1>2. CASE client[c].seen = Null
      BY <1>1, <1>2, Replies, LettingGoStep DEF JudgeAgain
<1>3. CASE client[c].seen # Null /\ ~RequiresRevalidation(client[c].seen, Now(c))
      BY <1>1, <1>3, Known, AnswersType, LettingGoStep DEF JudgeAgain
<1> QED BY <1>2, <1>3, OwnerReads

\* The owner goes on, later.
LEMMA FetchingOn ==
    ASSUME IInv, NEW c \in Client, NEW k \in ClientState,
           client[c].at \in Fetching, k.at \in Fetching, k.token = client[c].token,
           k.now \in {client[c].now, Now(c)}, FetchedStored(k),
           k.at \in {"stamping", "committing"} /\ OwnsRow(k) => k.seen = state
    PROVE  LookupOK(c, k)
<1>1. OwnsRow(k) <=> OwnsRow(client[c])
      BY DEF OwnsRow
<1>2. LookupOK(c, client[c]) /\ state \in Record!SourceState
      BY Known
<1>3. client[c].now \in Instants /\ client[c].now <= Now(c)
      BY <1>2 DEF LookupOK, Punctual
<1>4. Now(c) \in Instants /\ Now(c) \in Int /\ client[c].now \in Int
      BY Known
<1>5. OwnsRow(k) => /\ RequiresRevalidation(state, client[c].now)
                    /\ state.kind # "negative" /\ ~Mismatched
      BY <1>1, <1>2 DEF LookupOK, OwnerSeesState
<1>6. OwnsRow(k) => RequiresRevalidation(state, k.now)
      BY <1>2, <1>3, <1>4, <1>5, RevalidationLasts
<1>7. Punctual(c, k)
      BY <1>3, <1>4 DEF Punctual
<1>8. OwnerSeesState(k)
      BY <1>5, <1>6 DEF OwnerSeesState, Fetching
<1>9. Unpublished(k)
      BY StillUnpublished DEF Early
<1> QED BY <1>7, <1>8, <1>9 DEF LookupOK, PurgeJudged, Fetching

LEMMA FetchKeeps ==
    ASSUME IInv, NEW c \in Client, Fetch(c)
    PROVE  IInv'
<1>1. /\ client[c].at = "fetching" /\ client[c].at \in Fetching /\ client[c] \in ClientState
      /\ Now(c) \in Int
      /\ UNCHANGED <<state, versions, objects, lease, clock, lost>>
      BY Known DEF Fetch, Fetching
<1>2. ASSUME NEW content \in Content, NEW representation \in Representation,
             NEW text, text = [content |-> content, owner |-> client[c].token,
                               representation |-> representation],
             Becomes(c, [client[c] EXCEPT !.at = "finding", !.now = Now(c), !.fetched = text])
      PROVE  IInv'
  <2> DEFINE k == [client[c] EXCEPT !.at = "finding", !.now = Now(c), !.fetched = text]
  <2>1. client[c].token \in Token
        BY <1>1, OwnToken, Known
  <2>2. text \in Text /\ text.owner = client[c].token
        BY <1>2, <2>1 DEF Text
  <2>3. /\ k \in ClientState /\ k.at = "finding" /\ k.token = client[c].token
        /\ k.now = Now(c) /\ k.fetched = text
        BY <1>1, <2>2, Steps DEF ClientState
  <2> HIDE DEF k
  <2>4. FetchedStored(k)
        BY <2>2, <2>3, OpinionAssumption DEF FetchedStored, Staged, Filling
  <2>5. LookupOK(c, k)
        BY <1>1, <2>3, <2>4, FetchingOn DEF Fetching
  <2> QED BY <1>1, <1>2, <2>3, <2>5, LocalStep DEF k
<1>3. ASSUME Becomes(c, [client[c] EXCEPT !.at = "filling", !.now = Now(c), !.fetched = Absent])
      PROVE  IInv'
  <2> DEFINE k == [client[c] EXCEPT !.at = "filling", !.now = Now(c), !.fetched = Absent]
  <2>1. /\ k \in ClientState /\ k.at = "filling" /\ k.token = client[c].token
        /\ k.now = Now(c) /\ k.fetched = Absent
        BY <1>1, Steps DEF ClientState
  <2> HIDE DEF k
  <2>2. FetchedStored(k)
        BY <2>1 DEF FetchedStored, Staged, Filling
  <2>3. LookupOK(c, k)
        BY <1>1, <2>1, <2>2, FetchingOn DEF Fetching
  <2> QED BY <1>1, <1>3, <2>1, <2>3, LocalStep DEF k
<1>4. ASSUME Becomes(c, Releasing(client[c], Now(c), Indeterminate))
      PROVE  IInv'
      BY <1>1, <1>4, Replies, LettingGoStep
<1>5. ASSUME Becomes(c, Releasing(client[c], Now(c), Fallback(client[c])))
      PROVE  IInv'
      BY <1>1, <1>5, Known, LettingGoStep
<1> QED BY <1>2, <1>3, <1>4, <1>5 DEF Fetch

LEMMA FindVersionKeeps ==
    ASSUME IInv, NEW c \in Client, FindVersion(c)
    PROVE  IInv'
<1> DEFINE text == client[c].fetched
<1>1. /\ client[c].at = "finding" /\ client[c].at \in Fetching /\ client[c] \in ClientState
      /\ LookupOK(c, client[c]) /\ versions \in SUBSET Positive
      /\ UNCHANGED <<state, versions, objects, lease, clock, lost>>
      BY Known DEF FindVersion, Fetching, TypeOK
<1>2. text \in Text /\ Staged(client[c])
      BY <1>1 DEF LookupOK, FetchedStored
<1>3. ASSUME {v \in versions : v.cluster.content = text.content} = {},
             Becomes(c, Moved(client[c], "uploading"))
      PROVE  IInv'
  <2> DEFINE k == Moved(client[c], "uploading")
  <2>1. /\ k \in ClientState /\ k.at = "uploading" /\ k.token = client[c].token
        /\ k.now = client[c].now /\ k.fetched = text
        BY <1>1, Steps DEF ClientState, Moved
  <2> HIDE DEF k
  <2>2. \A v \in versions : v.cluster.content # text.content
        BY <1>3
  <2>3. FetchedStored(k)
        BY <1>2, <2>1, <2>2 DEF FetchedStored, Staged, Filling
  <2>4. LookupOK(c, k)
        BY <1>1, <2>1, <2>3, FetchingOn DEF Fetching
  <2> QED BY <1>1, <1>3, <2>1, <2>4, LocalStep DEF k
<1>4. ASSUME NEW v \in versions, v.cluster.content = text.content,
             Becomes(c, [client[c] EXCEPT !.at = "verifying", !.fetched.owner = v.cluster.owner])
      PROVE  IInv'
  <2> DEFINE k == [client[c] EXCEPT !.at = "verifying", !.fetched.owner = v.cluster.owner]
  <2>1. v.cluster \in Text
        BY <1>1 DEF Positive, Record!Positive
  <2>2. k = [client[c] EXCEPT !.at = "verifying",
                              !.fetched = [text EXCEPT !.owner = v.cluster.owner]]
        OBVIOUS
  <2>3. [text EXCEPT !.owner = v.cluster.owner] \in Text
        BY <1>2, <2>1 DEF Text
  <2>4. /\ k \in ClientState /\ k.at = "verifying" /\ k.token = client[c].token
        /\ k.now = client[c].now /\ k.fetched = [text EXCEPT !.owner = v.cluster.owner]
    <3> DEFINE other == [text EXCEPT !.owner = v.cluster.owner]
    <3> HIDE DEF other
    <3>1. other \in Text
          BY <2>3 DEF other
    <3> QED BY <1>1, <2>2, <3>1, Steps DEF ClientState, other
  <2> HIDE DEF k
  <2>5. k.fetched \in Text /\ k.fetched.owner = v.cluster.owner
           /\ k.fetched.content = v.cluster.content
        BY <1>2, <1>4, <2>3, <2>4 DEF Text
  <2>6. v.cluster.owner # k.token
        BY <1>1, <2>4 DEF LookupOK, Unpublished, Fetching
  <2>7. ObjectOf(v.cluster) = ObjectOf(k.fetched)
        BY <2>5 DEF ObjectOf
  <2>8. FetchedStored(k)
        BY <2>4, <2>5, <2>6, <2>7 DEF FetchedStored, Staged, Filling
  <2>9. LookupOK(c, k)
        BY <1>1, <2>4, <2>8, FetchingOn DEF Fetching
  <2> QED BY <1>1, <1>4, <2>4, <2>9, LocalStep DEF k
<1> QED BY <1>3, <1>4 DEF FindVersion, Moved

LEMMA VerifyObjectKeeps ==
    ASSUME IInv, NEW c \in Client, VerifyObject(c)
    PROVE  IInv'
<1>1. /\ client[c].at = "verifying" /\ client[c].at \in Fetching /\ client[c] \in ClientState
      /\ LookupOK(c, client[c])
      /\ UNCHANGED <<state, versions, objects, lease, clock, lost>>
      BY Known DEF VerifyObject, Fetching
<1>2. CASE ObjectOf(client[c].fetched) \in objects
  <2> DEFINE k == Moved(client[c], "filling")
  <2>1. Becomes(c, k)
        BY <1>2 DEF VerifyObject, Moved
  <2>2. /\ k \in ClientState /\ k.at = "filling" /\ k.token = client[c].token
        /\ k.now = client[c].now /\ k.fetched = client[c].fetched
        BY <1>1, Steps DEF ClientState, Moved
  <2> HIDE DEF k
  <2>3. FetchedStored(k)
        BY <1>1, <2>2 DEF LookupOK, FetchedStored, Staged, Filling
  <2>4. LookupOK(c, k)
        BY <1>1, <2>2, <2>3, FetchingOn DEF Fetching
  <2> QED BY <1>1, <2>1, <2>2, <2>4, LocalStep
<1>3. CASE ObjectOf(client[c].fetched) \notin objects
  <2>1. Becomes(c, Reading(client[c], "winner"))
        BY <1>3 DEF VerifyObject
  <2> QED BY <1>1, <2>1, ReadingStep DEF Purpose
<1> QED BY <1>2, <1>3

\* The owner reads the state for the commit, and then the clock.
LEMMA FillingOn ==
    ASSUME IInv, NEW c \in Client, NEW k \in ClientState, client[c].at \in Filling,
           k.at \in Filling, k.token = client[c].token, k.now = client[c].now,
           k.fetched = client[c].fetched, OwnsRow(k) => k.seen = state
    PROVE  LookupOK(c, k)
<1>1. LookupOK(c, client[c])
      BY Known
<1>2. FetchedStored(k)
      BY <1>1 DEF LookupOK, FetchedStored, Staged, Filling, OwnsRow
<1> QED BY <1>2, FetchingOn DEF Fetching, Filling

LEMMA ReadForFillKeeps ==
    ASSUME IInv, NEW c \in Client, ReadForFill(c)
    PROVE  IInv'
<1> DEFINE k == [client[c] EXCEPT !.at = "stamping", !.seen = state]
<1>1. /\ client[c].at = "filling" /\ client[c] \in ClientState /\ Becomes(c, k)
      /\ state \in Record!SourceState
      /\ UNCHANGED <<state, versions, objects, lease, clock, lost>>
      BY Known DEF ReadForFill
<1>2. /\ k \in ClientState /\ k.at = "stamping" /\ k.token = client[c].token
      /\ k.now = client[c].now /\ k.fetched = client[c].fetched /\ k.seen = state
      BY <1>1, Steps DEF ClientState
<1> HIDE DEF k
<1>3. LookupOK(c, k)
      BY <1>1, <1>2, FillingOn DEF Filling
<1> QED BY <1>1, <1>2, <1>3, LocalStep

LEMMA StampKeeps ==
    ASSUME IInv, NEW c \in Client, Stamp(c)
    PROVE  IInv'
<1> DEFINE k == [client[c] EXCEPT !.at = "committing", !.commitAt = Now(c)]
<1>1. /\ client[c].at = "stamping" /\ client[c] \in ClientState /\ Becomes(c, k)
      /\ Now(c) \in Int /\ LookupOK(c, client[c])
      /\ UNCHANGED <<state, versions, objects, lease, clock, lost>>
      BY Known DEF Stamp
<1>2. /\ k \in ClientState /\ k.at = "committing" /\ k.token = client[c].token
      /\ k.now = client[c].now /\ k.fetched = client[c].fetched /\ k.seen = client[c].seen
      BY <1>1, Steps DEF ClientState
<1> HIDE DEF k
<1>3. OwnsRow(k) => k.seen = state
      BY <1>1, <1>2 DEF LookupOK, OwnerSeesState, OwnsRow
<1>4. LookupOK(c, k)
      BY <1>1, <1>2, <1>3, FillingOn DEF Filling
<1> QED BY <1>1, <1>2, <1>4, LocalStep

\* A commit that was refused, or has failed.
LEMMA UnstagingStep ==
    ASSUME IInv, NEW c \in Client, client[c].at \in Filling,
           Becomes(c, Unstaging(client[c])),
           UNCHANGED <<state, versions, objects, lease, clock, lost>>
    PROVE  IInv'
<1>1. client[c] \in ClientState /\ LookupOK(c, client[c]) /\ client[c].at # "idle"
      BY Known DEF Filling
<1>2. CASE Staged(client[c])
  <2> DEFINE k == Moved(client[c], "unstaging")
  <2>1. Becomes(c, k)
        BY <1>2 DEF Unstaging, Moved
  <2>2. /\ k \in ClientState /\ k.at = "unstaging" /\ k.token = client[c].token
        /\ k.fetched = client[c].fetched
        BY <1>1, Steps DEF ClientState, Moved
  <2> HIDE DEF k
  <2>3. k.fetched \in Text /\ Staged(k)
        BY <1>1, <1>2, <2>2 DEF LookupOK, FetchedStored, Staged
  <2>4. \A v \in versions : v.cluster.owner # k.token
        BY <1>1, <2>2 DEF LookupOK, Unpublished, Filling, Fetching
  <2>5. LookupOK(c, k)
        BY <2>2, <2>3, <2>4
        DEF LookupOK, Punctual, OwnerSeesState, PurgeJudged, FetchedStored, Unpublished,
            Fetching, Filling
  <2> QED BY <1>1, <2>1, <2>2, <2>5, LocalStep
<1>3. CASE ~Staged(client[c])
  <2>1. Becomes(c, Reading(client[c], "winner"))
        BY <1>3 DEF Unstaging
  <2> QED BY <1>1, <2>1, ReadingStep DEF Purpose
<1> QED BY <1>2, <1>3

LEMMA FailKeeps ==
    ASSUME IInv, NEW c \in Client, Fail(c)
    PROVE  IInv'
<1> DEFINE k == client[c]
<1>1. /\ k \in ClientState /\ k.at # "idle" /\ Becomes(c, AfterFailure(k))
      /\ k.at \in {"reading", "object", "version", "acquiring", "refused", "purging",
                   "purge_refused", "finding", "verifying", "uploading", "unstaging",
                   "filling", "committing", "releasing"}
      /\ Indeterminate \in Reply /\ Fallback(k) \in Reply /\ k.answer \in Reply
      /\ UNCHANGED <<state, versions, objects, lease, clock, lost>>
  <2>1. k.at \in Step \cup {"idle"}
        BY Known DEF ClientState
  <2> QED BY <2>1, Known, Replies DEF Fail, Step
<1>2. CASE k.at \in {"reading", "object", "version"}
  <2> DEFINE n == Emptied(k, "judging")
  <2>1. Becomes(c, n)
        BY <1>1, <1>2 DEF AfterFailure, Emptied
  <2>2. "judging" \in Step
        BY Steps
  <2> HIDE DEF k
  <2>3. /\ n \in ClientState /\ n.at = "judging" /\ n.token = k.token
        /\ n.why = k.why /\ n.seen = Null
        BY <1>1, <2>2, MovedType
  <2> HIDE DEF n
  <2>4. Quiet(n) /\ (Late(n) \/ (Early(k) /\ Early(n)))
        BY <1>2, <2>3 DEF Quiet, Late, Early
  <2> QED BY <1>1, <2>1, <2>3, <2>4, QuietStep DEF k
<1>3. CASE k.at \in {"acquiring", "refused"}
  <2>1. Becomes(c, Answered(k, Fallback(k)))
        BY <1>1, <1>3 DEF AfterFailure
  <2> QED BY <1>1, <2>1, AnsweredStep
<1>4. CASE k.at \in {"purging", "purge_refused"}
  <2>1. Becomes(c, Answered(k, Indeterminate))
        BY <1>1, <1>4 DEF AfterFailure
  <2> QED BY <1>1, <2>1, AnsweredStep
<1>5. ASSUME Becomes(c, Reading(k, "winner")) PROVE IInv'
      BY <1>1, <1>5, ReadingStep DEF Purpose
<1>6. CASE k.at \in {"finding", "verifying", "uploading", "unstaging"}
      BY <1>1, <1>5, <1>6 DEF AfterFailure
<1>7. CASE k.at \in {"filling", "committing"}
  <2>1. Becomes(c, Unstaging(k)) /\ k.at \in Filling
        BY <1>1, <1>7 DEF AfterFailure, Filling
  <2> QED BY <1>1, <2>1, UnstagingStep
<1>8. CASE k.at = "releasing"
  <2>1. \/ Becomes(c, Reading(k, "winner"))
        \/ Becomes(c, Answered(k, k.answer))
        BY <1>1, <1>8 DEF AfterFailure
  <2> QED BY <1>1, <1>5, <2>1, AnsweredStep
<1> QED BY <1>1, <1>2, <1>3, <1>4, <1>6, <1>7, <1>8

-----------------------------------------------------------------------------
(* The lease, and R2                                                       *)

\* A step that writes to R2 or to the lease: what there is to show of it.
LEMMA WritingStep ==
    ASSUME IInv, NEW c \in Client, NEW k \in ClientState, client[c].at # "idle", k.at # "idle",
           k.token = client[c].token, Becomes(c, k), UNCHANGED <<state, versions, clock, lost>>,
           lease' \in [owner : Token, expiresAt : Int] \cup {Null},
           lease' = lease \/ lease' = Null \/ lease'.owner = client[c].token,
           objects' \in SUBSET [content : Content, owner : Token],
           \A o \in objects \ objects' : o.owner = client[c].token,
           EvidenceStored', LookupOK(c, k)'
    PROVE  IInv'
<1>1. /\ client' \in [Client -> ClientState]
      /\ client'[c] = k
      /\ \A d \in Client \ {c} : client'[d] = client[d]
      BY OneMoves DEF IInv, TypeOK
<1>2. TypeOK'
      BY <1>1 DEF IInv, TypeOK
<1>3. TokensDiffer'
      BY TokensKept DEF IInv
<1>4. RowsOK'
      BY DEF IInv, RowsOK, OneObjectPerContent, Versioned
<1>5. \A d \in Client \ {c} : LookupOK(d, client[d])'
      BY <1>1, OthersKeep
<1>6. LookupOK(c, client[c])'
      BY <1>1
<1> QED BY <1>2, <1>3, <1>4, <1>5, <1>6 DEF IInv

LEMMA AcquireLeaseKeeps ==
    ASSUME IInv, NEW c \in Client, AcquireLease(c)
    PROVE  IInv'
<1>1. /\ client[c].at = "acquiring" /\ client[c] \in ClientState
      /\ client[c].token \in Token /\ client[c].now \in Int
      /\ UNCHANGED <<state, versions, objects, clock, lost>>
      BY Known, OwnToken DEF AcquireLease
<1>2. Early(client[c])
      BY <1>1 DEF Early
<1>3. CASE lease = Null \/ lease.expiresAt <= client[c].now
  <2>1. lease' = [owner |-> client[c].token, expiresAt |-> client[c].now + Lease]
        BY <1>3 DEF AcquireLease
  <2>2. PICK k \in ClientState : /\ Becomes(c, k) /\ k.at = "reading" /\ k.why = "again"
                                 /\ k.token = client[c].token
        BY <1>3, ReadingType DEF AcquireLease, Purpose
  <2>3. lease' \in [owner : Token, expiresAt : Int] /\ lease'.owner = client[c].token
        BY <1>1, <2>1, OpinionAssumption
  <2>4. Unpublished(k)'
        BY <1>1, <1>2, <2>2, StillUnpublished DEF Early, Unpublished
  <2>5. LookupOK(c, k)'
        BY <2>2, <2>4
        DEF LookupOK, Punctual, OwnerSeesState, PurgeJudged, FetchedStored, Fetching, Filling
  <2>6. EvidenceStored' /\ objects' \in SUBSET [content : Content, owner : Token]
        BY <1>1 DEF IInv, TypeOK, RowsOK, EvidenceStored
  <2> QED BY <1>1, <2>1, <2>2, <2>3, <2>5, <2>6, WritingStep
<1>4. CASE ~(lease = Null \/ lease.expiresAt <= client[c].now)
  <2> DEFINE k == Moved(client[c], "refused")
  <2>1. Becomes(c, k) /\ UNCHANGED lease
        BY <1>4 DEF AcquireLease, Moved
  <2>2. "refused" \in Step
        BY Steps
  <2>3. k \in ClientState /\ k.at = "refused" /\ k.token = client[c].token
        BY <1>1, <2>2, MovedType
  <2> HIDE DEF k
  <2>4. Quiet(k) /\ Early(k)
        BY <2>3 DEF Quiet, Early
  <2> QED BY <1>1, <1>2, <2>1, <2>3, <2>4, QuietStep
<1> QED BY <1>3, <1>4

LEMMA ReleaseLeaseKeeps ==
    ASSUME IInv, NEW c \in Client, ReleaseLease(c)
    PROVE  IInv'
<1>1. /\ client[c].at = "releasing" /\ client[c] \in ClientState /\ client[c].answer \in Reply
      /\ lease' \in {lease, Null}
      /\ UNCHANGED <<state, versions, objects, clock, lost>>
      BY Known DEF ReleaseLease
<1>2. PICK k \in ClientState : /\ Becomes(c, k) /\ k.at \in {"reading", "answered"}
                               /\ k.token = client[c].token
                               /\ k.at = "reading" => k.why = "winner"
  <2>1. CASE client[c].why = "winner"
        BY <2>1, ReadingType DEF ReleaseLease, Purpose
  <2>2. CASE client[c].why # "winner"
    <3>1. Becomes(c, Answered(client[c], client[c].answer))
          BY <2>2 DEF ReleaseLease
    <3>2. "first" \in Purpose /\ 0 \in Int
          BY DEF Purpose
    <3>3. Answered(client[c], client[c].answer) \in ClientState
          BY <1>1, <3>2, PlacesType
    <3> QED BY <3>1, <3>3, Places
  <2> QED BY <2>1, <2>2
<1>3. LookupOK(c, k)'
      BY <1>2
      DEF LookupOK, Punctual, OwnerSeesState, PurgeJudged, FetchedStored, Unpublished, Fetching,
          Filling
<1>4. /\ EvidenceStored' /\ objects' \in SUBSET [content : Content, owner : Token]
      /\ lease' \in [owner : Token, expiresAt : Int] \cup {Null}
      BY <1>1 DEF IInv, TypeOK, RowsOK, EvidenceStored
<1> QED BY <1>1, <1>2, <1>3, <1>4, WritingStep

LEMMA UploadKeeps ==
    ASSUME IInv, NEW c \in Client, Upload(c)
    PROVE  IInv'
<1>1. /\ client[c].at = "uploading" /\ client[c].at \in Fetching /\ client[c] \in ClientState
      /\ LookupOK(c, client[c]) /\ Becomes(c, Moved(client[c], "filling"))
      /\ objects' = objects \cup {ObjectOf(client[c].fetched)}
      /\ UNCHANGED <<state, versions, lease, clock, lost>>
      BY Known DEF Upload, Fetching, Moved
<1>2. PICK k \in ClientState : /\ Becomes(c, k) /\ k.at = "filling"
                               /\ k.token = client[c].token /\ k.now = client[c].now
                               /\ k.fetched = client[c].fetched
      BY <1>1, Steps DEF ClientState, Moved
<1>3. k.fetched \in Text /\ Staged(k)
      BY <1>1, <1>2 DEF LookupOK, FetchedStored, Staged
<1>4. objects' \in SUBSET [content : Content, owner : Token]
      BY <1>1, <1>2, <1>3 DEF IInv, TypeOK, ObjectOf, Text
<1>5. EvidenceStored'
      BY <1>1 DEF IInv, RowsOK, EvidenceStored
<1>6. FetchedStored(k)'
      BY <1>1, <1>2, <1>3 DEF LookupOK, FetchedStored, Staged, Filling, OwnsRow
<1>7. LookupOK(c, k)'
  <2>1. OwnsRow(k) <=> OwnsRow(client[c])
        BY <1>2 DEF OwnsRow
  <2> QED BY <1>1, <1>2, <1>6, <2>1
          DEF LookupOK, Punctual, Now, OwnerSeesState, Mismatched, OwnsRow, PurgeJudged,
              Unpublished, Fetching
<1>8. lease' \in [owner : Token, expiresAt : Int] \cup {Null}
      BY <1>1 DEF IInv, TypeOK
<1> QED BY <1>1, <1>2, <1>4, <1>5, <1>7, <1>8, WritingStep

LEMMA UnstageKeeps ==
    ASSUME IInv, NEW c \in Client, Unstage(c)
    PROVE  IInv'
<1>1. /\ client[c].at = "unstaging" /\ LookupOK(c, client[c])
      /\ objects' = objects \ {ObjectOf(client[c].fetched)}
      /\ UNCHANGED <<state, versions, lease, clock, lost>>
      BY Known DEF Unstage
<1>2. PICK k \in ClientState : /\ Becomes(c, k) /\ k.at = "reading" /\ k.why = "winner"
                               /\ k.token = client[c].token
      BY ReadingType DEF Unstage, Purpose
<1>3. ObjectOf(client[c].fetched).owner = client[c].token
      BY <1>1 DEF LookupOK, FetchedStored, Staged, ObjectOf
<1>4. EvidenceStored'
  <2>1. SUFFICES ASSUME NEW v \in versions
                 PROVE  ObjectOf(v.cluster) \in objects' \/ v.cluster.owner \in lost
        BY <1>1 DEF EvidenceStored
  <2>2. ObjectOf(v.cluster) \in objects \/ v.cluster.owner \in lost
        BY DEF IInv, RowsOK, EvidenceStored
  <2>3. CASE ObjectOf(v.cluster) = ObjectOf(client[c].fetched)
    <3>1. v.cluster.owner = client[c].token
          BY <1>3, <2>3 DEF ObjectOf
    <3> QED BY <1>1, <3>1 DEF LookupOK, Unpublished
  <2> QED BY <1>1, <2>2, <2>3
<1>5. LookupOK(c, k)'
      BY <1>2
      DEF LookupOK, Punctual, OwnerSeesState, PurgeJudged, FetchedStored, Unpublished, Fetching,
          Filling
<1>6. /\ objects' \in SUBSET [content : Content, owner : Token]
      /\ lease' \in [owner : Token, expiresAt : Int] \cup {Null}
      BY <1>1 DEF IInv, TypeOK
<1> QED BY <1>1, <1>2, <1>3, <1>4, <1>5, <1>6, WritingStep

-----------------------------------------------------------------------------
(* The steps of D1: each is one of the record                              *)

\* A step of the owner that writes to D1: what there is to show of it.
LEMMA StoringStep ==
    ASSUME IInv, NEW c \in Client, NEW k \in ClientState, client[c].at # "idle", k.at # "idle",
           k.token = client[c].token, Becomes(c, k), UNCHANGED <<objects, clock>>,
           OwnsRow(client[c]), lease' \in {lease, Null},
           state' \in Record!SourceState, versions' \in SUBSET Positive, lost' \in SUBSET Token,
           versions \subseteq versions', lost \subseteq lost',
           \A v \in versions' \ versions :
              v.cluster.owner = client[c].token
                 \/ \E w \in versions : v.cluster.owner = w.cluster.owner,
           RowsOK', LookupOK(c, k)'
    PROVE  IInv'
<1>1. /\ client' \in [Client -> ClientState]
      /\ client'[c] = k
      /\ \A d \in Client \ {c} : client'[d] = client[d]
      BY OneMoves DEF IInv, TypeOK
<1>2. TypeOK'
      BY <1>1 DEF IInv, TypeOK
<1>3. TokensDiffer'
      BY TokensKept DEF IInv
<1>4. \A d \in Client \ {c} : LookupOK(d, client[d])'
      BY <1>1, OthersKeep
<1>5. LookupOK(c, client[c])'
      BY <1>1
<1> QED BY <1>2, <1>3, <1>4, <1>5 DEF IInv

LEMMA PurgeKeeps ==
    ASSUME IInv, NEW c \in Client, PurgeExpiredNegativeLease(c)
    PROVE  /\ IInv'
           /\ \/ UNCHANGED <<state, evidence>>
              \/ \E now \in Instants : Record!Forget(now)
<1>1. /\ client[c].at = "purging" /\ client[c] \in ClientState /\ client[c].now \in Int
      /\ LookupOK(c, client[c])
      /\ UNCHANGED <<versions, objects, lease, clock, evidence, lost>>
      BY Known DEF PurgeExpiredNegativeLease
<1>2. /\ StaleNegative(client[c].seen, client[c].now)
      /\ client[c].now \in Instants /\ client[c].now <= Now(c)
      /\ OwnsRow(client[c]) => client[c].seen = state
      BY <1>1 DEF LookupOK, PurgeJudged, Punctual, OwnerSeesState
<1>3. Early(client[c]) /\ {"fetching", "purge_refused"} \subseteq Step
      BY <1>1, Steps DEF Early
<1>4. CASE OwnsActiveLease(client[c], client[c].now) /\ SameJson(state, client[c].seen)
  <2> DEFINE next == PurgeExpiredNegative(state, client[c].now)
  <2>1. OwnsRow(client[c]) /\ client[c].seen = state /\ state' = next
        BY <1>2, <1>4 DEF OwnsActiveLease, PurgeExpiredNegativeLease, Store
  <2>2. /\ next \in Record!SourceState /\ next.kind \in {"empty", "reversal_pending"}
        /\ Record!Retained(next) = Record!Retained(state)
        BY <1>1, <1>2, <2>1, Known, PurgeType
  <2>3. Record!Forget(client[c].now)
        BY <1>1, <1>2, <2>1
        DEF Record!Forget, StaleNegative, PurgeExpiredNegative
  <2> HIDE DEF next
  <2>4. PICK k \in ClientState : /\ Becomes(c, k) /\ k.at = "fetching"
                                 /\ k.token = client[c].token /\ k.now = client[c].now
    <3>1. Becomes(c, Emptied(client[c], "fetching"))
          BY <1>4 DEF PurgeExpiredNegativeLease, Emptied
    <3>2. /\ Emptied(client[c], "fetching").at = "fetching"
          /\ Emptied(client[c], "fetching").token = client[c].token
          /\ Emptied(client[c], "fetching").now = client[c].now
          BY <1>1 DEF ClientState, Emptied
    <3>3. Emptied(client[c], "fetching") \in ClientState
          BY <1>1, <1>3, MovedType
    <3> QED BY <3>1, <3>2, <3>3
  <2>5. Unpublished(k)'
        BY <1>1, <1>3, <2>4, StillUnpublished DEF Unpublished, Early, Fetching
  <2>6. RequiresRevalidation(next, k.now) /\ next.kind \notin {"negative", "positive"}
        BY <2>2 DEF RequiresRevalidation, Record!RequiresRevalidation
  <2>7. OwnerSeesState(k)'
        BY <2>1, <2>4, <2>6 DEF OwnerSeesState, Mismatched
  <2>8. LookupOK(c, k)'
        BY <1>1, <1>2, <2>4, <2>5, <2>7
        DEF LookupOK, Punctual, Now, PurgeJudged, FetchedStored, Fetching, Filling
  <2>9. RowsOK'
        BY <1>1, <2>1, <2>2 DEF IInv, RowsOK, EvidenceStored, OneObjectPerContent, Versioned
  <2>10. versions' \in SUBSET Positive /\ lost' \in SUBSET Token
        BY <1>1 DEF IInv, TypeOK
  <2> QED BY <1>1, <1>2, <2>1, <2>2, <2>3, <2>4, <2>8, <2>9, <2>10, StoringStep
<1>5. CASE ~(OwnsActiveLease(client[c], client[c].now) /\ SameJson(state, client[c].seen))
  <2>1. UNCHANGED state
        BY <1>5 DEF PurgeExpiredNegativeLease
  <2>2. PICK k \in ClientState : /\ Becomes(c, k) /\ k.at = "purge_refused"
                                 /\ k.token = client[c].token /\ k.now = client[c].now
        BY <1>1, <1>3, <1>5 DEF PurgeExpiredNegativeLease, ClientState
  <2>3. CallerOrder = "schema" => ~OwnsActiveLease(k, k.now)
        BY <1>2, <1>5, <2>2 DEF OwnsActiveLease, OwnsRow, SameJson
  <2>4. Unpublished(k)
        BY <1>3, <2>2, StillUnpublished DEF Early
  <2>5. LookupOK(c, k)
        BY <1>2, <2>2, <2>3, <2>4
        DEF LookupOK, Punctual, OwnerSeesState, PurgeJudged, FetchedStored, Fetching, Filling
  <2> QED BY <1>1, <2>1, <2>2, <2>5, LocalStep
<1> QED BY <1>4, <1>5

\* An absence leaves the text the record retains as it was.
LEMMA AbsenceRetains ==
    ASSUME NEW s \in Record!SourceState, NEW now \in Int, s.kind # "negative"
    PROVE  /\ RecordObservation(s, Absent, now).kind # "positive"
           /\ Record!Retained(RecordObservation(s, Absent, now)) = Record!Retained(s)
<1> USE DEF RecordObservation, Record!RecordObservation, Record!Retained, Record!SourceState
<1>1. CASE s.kind = "empty"
      BY <1>1
<1>2. CASE s.kind = "positive"
      BY <1>2
<1>3. CASE s.kind = "reversal_pending"
      BY <1>3
<1> QED BY <1>1, <1>2, <1>3

\* The rows once a text is committed by the owner of the lease.
LEMMA TextCommitted ==
    ASSUME IInv, NEW c \in Client, client[c].at = "committing", OwnsRow(client[c]),
           Committed(client[c], RecordObservation(client[c].seen, client[c].fetched, client[c].now)),
           client[c].fetched \in Text, UNCHANGED objects, lost \subseteq lost'
    PROVE  /\ versions' \in SUBSET Positive /\ versions \subseteq versions'
           /\ \A v \in versions' \ versions :
                 v.cluster.owner = client[c].token
                    \/ \E w \in versions : v.cluster.owner = w.cluster.owner
           /\ RowsOK'
<1> DEFINE text == client[c].fetched
           p == [cluster |-> text, retrievedAt |-> client[c].now]
<1>1. /\ LookupOK(c, client[c]) /\ client[c].now \in Int /\ client[c].at \in Filling
      /\ versions \in SUBSET Positive
      BY Known DEF Filling, TypeOK
<1>2. text # Absent /\ p \in Positive /\ p.cluster = text
      BY <1>1, OpinionAssumption DEF Positive, Record!Positive
<1>3. state' = [kind |-> "positive", positive |-> p] /\ versions' = InsertVersion(p)
      BY <1>2 DEF Committed, Store, RecordObservation, Record!RecordObservation
<1>4. Record!Retained(state') = p
      BY <1>3 DEF Record!Retained
<1> HIDE DEF p
<1>5. /\ EvidenceStored /\ OneObjectPerContent
      BY DEF IInv, RowsOK
<1>6. CASE Staged(client[c])
  <2>1. /\ ObjectOf(text) \in objects /\ text.owner = client[c].token
        /\ \A v \in versions : v.cluster.content # text.content
        BY <1>1, <1>6 DEF LookupOK, FetchedStored, Staged, Filling
  <2>2. versions' = versions \cup {p}
        BY <1>2, <1>3, <2>1 DEF InsertVersion
  <2>3. EvidenceStored'
        BY <1>2, <1>5, <2>1, <2>2 DEF EvidenceStored
  <2>4. OneObjectPerContent'
        BY <1>2, <1>5, <2>1, <2>2 DEF OneObjectPerContent
  <2>5. Versioned'
        BY <1>4, <2>2 DEF Versioned
  <2> QED BY <1>1, <1>2, <2>1, <2>2, <2>3, <2>4, <2>5 DEF RowsOK
<1>7. CASE ~Staged(client[c])
  <2>1. PICK w \in versions : ObjectOf(w.cluster) = ObjectOf(text)
        BY <1>1, <1>2, <1>7 DEF LookupOK, FetchedStored
  <2>2. w.cluster.content = text.content /\ w.cluster.owner = text.owner
        BY <2>1 DEF ObjectOf
  <2>3. versions' \subseteq versions \cup {p} /\ versions \subseteq versions'
        BY <1>3 DEF InsertVersion
  <2>4. ObjectOf(text) \in objects \/ text.owner \in lost
        BY <1>5, <2>1, <2>2 DEF EvidenceStored
  <2>5. EvidenceStored'
        BY <1>2, <1>5, <2>3, <2>4 DEF EvidenceStored
  <2>6. OneObjectPerContent'
        BY <1>2, <1>5, <2>2, <2>3 DEF OneObjectPerContent
  <2>7. \E v \in versions' : v.cluster = text
    <3>1. CASE \E v \in versions : /\ v.cluster.content = text.content
                                   /\ v.cluster.representation = text.representation
      <4>1. PICK v \in versions : /\ v.cluster.content = text.content
                                  /\ v.cluster.representation = text.representation
            BY <3>1
      <4>2. v.cluster.owner = text.owner
            BY <1>5, <2>2, <4>1 DEF OneObjectPerContent
      <4>3. v.cluster \in Text
            BY <1>1 DEF Positive, Record!Positive
      <4>4. v.cluster = text
            BY <4>1, <4>2, <4>3 DEF Text
      <4> QED BY <2>3, <4>4
    <3>2. CASE ~ \E v \in versions : /\ v.cluster.content = text.content
                                     /\ v.cluster.representation = text.representation
          BY <1>2, <1>3, <3>2 DEF InsertVersion
    <3> QED BY <3>1, <3>2
  <2>8. Versioned'
        BY <1>2, <1>4, <2>7 DEF Versioned
  <2> QED BY <1>1, <1>2, <2>2, <2>3, <2>5, <2>6, <2>8 DEF RowsOK
<1> QED BY <1>6, <1>7

\* Once it has let go of the lease, all that a lookup has left to do is to clean up.
LEMMA GivenUp ==
    ASSUME NEW c \in Client, NEW k,
           k.at \in {"answered", "unstaging"} \/ (k.at = "reading" /\ k.why = "winner"),
           k.at = "unstaging" => k.fetched \in Text /\ Staged(k) /\ k.token \in lost'
    PROVE  LookupOK(c, k)'
BY DEF LookupOK, Punctual, OwnerSeesState, PurgeJudged, FetchedStored, Staged, Unpublished,
       Fetching, Filling

LEMMA CommitKeeps ==
    ASSUME IInv, NEW c \in Client, Commit(c)
    PROVE  /\ IInv'
           /\ \/ UNCHANGED <<state, evidence>>
              \/ \E now \in Instants, observation \in Text \cup {Absent} :
                    Record!Learn(observation, now)
<1> DEFINE text == client[c].fetched
           now == client[c].now
           next == RecordObservation(client[c].seen, text, now)
<1>1. /\ client[c].at = "committing" /\ client[c] \in ClientState /\ now \in Int
      /\ LookupOK(c, client[c]) /\ client[c].at \in Filling /\ client[c].at \in Fetching
      /\ state \in Record!SourceState /\ client[c].token \in Token
      /\ UNCHANGED <<objects, clock>>
      BY Known, OwnToken DEF Commit, Filling, Fetching
<1>2. now \in Instants /\ text \in Text \cup {Absent}
      BY <1>1 DEF LookupOK, Punctual, FetchedStored
<1>3. CASE ~OwnsActiveLease(client[c], client[c].commitAt)
  <2>1. /\ Becomes(c, Unstaging(client[c]))
        /\ UNCHANGED <<state, versions, lease, evidence, lost>>
        BY <1>3 DEF Commit
  <2> QED BY <1>1, <2>1, UnstagingStep
<1>4. CASE OwnsActiveLease(client[c], client[c].commitAt)
  <2>1. /\ Committed(client[c], next) /\ lease' = Null
        /\ \/ Becomes(c, Answered(client[c], CommitAnswer(next))) /\ UNCHANGED lost
           \/ Becomes(c, Unstaging(client[c])) /\ lost' = lost \cup {client[c].token}
        BY <1>4 DEF Commit
  <2>2. OwnsRow(client[c])
        BY <1>4 DEF OwnsActiveLease
  <2>3. /\ client[c].seen = state /\ RequiresRevalidation(state, now)
        /\ state.kind # "negative"
        BY <1>1, <2>2 DEF LookupOK, OwnerSeesState
  <2>4. next \in Record!SourceState /\ state' = next
        BY <1>1, <1>2, <2>1, <2>3, RecordObservationType DEF Committed, Store
  <2>5. Record!Learn(text, now)
        BY <2>1, <2>3 DEF Committed, Store, Record!Learn, RequiresRevalidation, RecordObservation
  <2>6. lost' \in SUBSET Token /\ lost \subseteq lost'
        BY <1>1, <2>1 DEF IInv, TypeOK
  <2>7. /\ versions' \in SUBSET Positive /\ versions \subseteq versions'
        /\ \A v \in versions' \ versions :
              v.cluster.owner = client[c].token
                 \/ \E w \in versions : v.cluster.owner = w.cluster.owner
        /\ RowsOK'
    <3>1. CASE text \in Text
          BY <1>1, <2>1, <2>2, <2>6, <3>1, TextCommitted
    <3>2. CASE text = Absent
      <4>1. next.kind # "positive" /\ Record!Retained(next) = Record!Retained(state)
            BY <1>1, <2>3, <3>2, AbsenceRetains
      <4>2. versions' = versions
            BY <2>1, <4>1 DEF Committed
      <4>3. Record!Retained(state') = Record!Retained(state)
            BY <2>4, <4>1
      <4>4. RowsOK'
            BY <1>1, <2>6, <4>2, <4>3
            DEF IInv, RowsOK, EvidenceStored, OneObjectPerContent, Versioned
      <4> QED BY <4>2, <4>4 DEF IInv, TypeOK
    <3> QED BY <1>2, <3>1, <3>2
  <2>8. PICK k \in ClientState :
           /\ Becomes(c, k) /\ k.token = client[c].token /\ k.at # "idle"
           /\ k.at \in {"answered", "unstaging"} \/ (k.at = "reading" /\ k.why = "winner")
           /\ k.at = "unstaging" => k.fetched \in Text /\ Staged(k) /\ k.token \in lost'
    <3>1. CASE Becomes(c, Answered(client[c], CommitAnswer(next)))
      <4>1. CommitAnswer(next) \in Reply
            BY <2>4, AnswersType
      <4>2. "first" \in Purpose /\ 0 \in Int
            BY DEF Purpose
      <4> HIDE DEF next
      <4>3. Answered(client[c], CommitAnswer(next)) \in ClientState
            BY <1>1, <4>1, <4>2, PlacesType
      <4> QED BY <3>1, <4>3, Places
    <3>2. CASE /\ Becomes(c, Unstaging(client[c])) /\ lost' = lost \cup {client[c].token}
               /\ ~Staged(client[c])
          BY <3>2, ReadingType DEF Unstaging, Purpose
    <3>3. CASE /\ Becomes(c, Unstaging(client[c])) /\ lost' = lost \cup {client[c].token}
               /\ Staged(client[c])
      <4> DEFINE k == Moved(client[c], "unstaging")
      <4>1. Becomes(c, k)
            BY <3>3 DEF Unstaging, Moved
      <4>2. /\ k \in ClientState /\ k.at = "unstaging" /\ k.token = client[c].token
            /\ k.fetched = text
            BY <1>1, Steps DEF ClientState, Moved
      <4> HIDE DEF k
      <4>3. k.fetched \in Text /\ Staged(k) /\ k.token \in lost'
            BY <1>2, <3>3, <4>2 DEF Staged
      <4> QED BY <4>1, <4>2, <4>3
    <3> QED BY <2>1, <3>1, <3>2, <3>3
  <2>9. LookupOK(c, k)'
        BY <2>8, GivenUp
  <2> HIDE DEF next
  <2> QED BY <1>1, <1>2, <2>1, <2>2, <2>4, <2>5, <2>6, <2>7, <2>8, <2>9, StoringStep
<1> QED BY <1>3, <1>4

-----------------------------------------------------------------------------
(* Lookups begin and end, and time passes                                  *)

LEMMA LookKeeps ==
    ASSUME IInv, NEW c \in Client, NEW token \in Token, Look(c, token)
    PROVE  IInv'
<1> DEFINE i == [Idle EXCEPT !.token = token]
           k == ReadBy(i)
<1>1. /\ client[c].at = "idle" /\ Fresh(token) /\ Becomes(c, k)
      /\ UNCHANGED <<state, versions, objects, lease, clock, lost>>
      BY DEF Look
<1>2. /\ i \in ClientState /\ i.token = token /\ i.why = "first"
  <2>1. Idle \in ClientState
        BY PlacesType, Known, Replies, "first" \in Purpose DEF Purpose
  <2>2. Idle.why = "first"
        BY DEF Idle, Lookup
  <2> HIDE DEF Idle
  <2> QED BY <2>1, <2>2 DEF ClientState
<1> HIDE DEF i
<1>3. /\ k \in ClientState /\ k.at \in {"object", "judging"} /\ k.token = token
      /\ k.why = "first"
      BY <1>2, Known, ReadByType
<1> HIDE DEF k
<1>4. /\ client' \in [Client -> ClientState]
      /\ client'[c] = k
      /\ \A d \in Client \ {c} : client'[d] = client[d]
      BY <1>1, <1>3, OneMoves DEF IInv, TypeOK
<1>5. TypeOK'
      BY <1>1, <1>4 DEF IInv, TypeOK
<1>6. \A d \in Client : client[d].token # token
      BY <1>1 DEF Fresh
<1>7. TokensDiffer'
      BY <1>3, <1>4, <1>6, OpinionAssumption DEF IInv, TokensDiffer
<1>8. RowsOK'
      BY <1>1 DEF IInv, RowsOK, EvidenceStored, OneObjectPerContent, Versioned
<1>9. ASSUME NEW d \in Client PROVE LookupOK(d, client[d])'
  <2>1. CASE d # c
    <3>1. LookupOK(d, client[d]) /\ client'[d] = client[d]
          BY <1>4, <2>1 DEF IInv
    <3> QED BY <1>1, <3>1
        DEF LookupOK, Punctual, Now, OwnerSeesState, OwnsRow, Mismatched, PurgeJudged,
            OwnsActiveLease, FetchedStored, Staged, Unpublished
  <2>2. CASE d = c
    <3>1. LookupOK(c, k)
          BY <1>1, <1>3
          DEF LookupOK, Punctual, OwnerSeesState, PurgeJudged, FetchedStored, Unpublished, Fresh,
              Fetching, Filling
    <3> QED BY <1>1, <1>4, <2>2, <3>1
        DEF LookupOK, Punctual, Now, OwnerSeesState, OwnsRow, Mismatched, PurgeJudged,
            OwnsActiveLease, FetchedStored, Staged, Unpublished
  <2> QED BY <2>1, <2>2
<1> QED BY <1>5, <1>7, <1>8, <1>9 DEF IInv

LEMMA FinishKeeps ==
    ASSUME IInv, NEW c \in Client, Finish(c)
    PROVE  IInv'
<1>1. Becomes(c, Idle) /\ UNCHANGED <<state, versions, objects, lease, clock, lost>>
      BY DEF Finish
<1>2. Idle \in ClientState /\ Idle.at = "idle" /\ Idle.token = Null
      BY PlacesType, Places, Known, Replies DEF Purpose
<1>3. /\ client' \in [Client -> ClientState]
      /\ client'[c] = Idle
      /\ \A d \in Client \ {c} : client'[d] = client[d]
      BY <1>1, <1>2, OneMoves DEF IInv, TypeOK
<1>4. TypeOK'
      BY <1>1, <1>3 DEF IInv, TypeOK
<1>5. TokensDiffer'
      BY <1>2, <1>3, OpinionAssumption DEF IInv, TokensDiffer
<1>6. RowsOK'
      BY <1>1 DEF IInv, RowsOK, EvidenceStored, OneObjectPerContent, Versioned
<1>7. ASSUME NEW d \in Client PROVE LookupOK(d, client[d])'
  <2>1. CASE d # c
    <3>1. LookupOK(d, client[d]) /\ client'[d] = client[d]
          BY <1>3, <2>1 DEF IInv
    <3> QED BY <1>1, <3>1
        DEF LookupOK, Punctual, Now, OwnerSeesState, OwnsRow, Mismatched, PurgeJudged,
            OwnsActiveLease, FetchedStored, Staged, Unpublished
  <2>2. CASE d = c
    <3>1. client'[d].at = "idle"
          BY <1>2, <1>3, <2>2
    <3> QED BY <3>1
        DEF LookupOK, Punctual, OwnerSeesState, PurgeJudged, FetchedStored, Unpublished,
            Fetching, Filling
  <2> QED BY <2>1, <2>2
<1> QED BY <1>4, <1>5, <1>6, <1>7 DEF IInv

LEMMA PassTimeKeeps ==
    ASSUME IInv, PassTime
    PROVE  IInv'
<1>1. /\ clock' = clock + 1 /\ clock' \in 0 .. MaxClock
      /\ UNCHANGED <<state, versions, objects, lease, client, lost>>
      BY OpinionAssumption DEF IInv, TypeOK, PassTime
<1>2. TypeOK' /\ TokensDiffer' /\ RowsOK'
      BY <1>1
      DEF IInv, TypeOK, TokensDiffer, RowsOK, EvidenceStored, OneObjectPerContent, Versioned
<1>3. ASSUME NEW d \in Client PROVE LookupOK(d, client[d])'
  <2>1. Now(d) \in Int /\ Now(d)' = Now(d) + 1
        BY <1>1, OpinionAssumption DEF Now, IInv, TypeOK
  <2>2. client[d].now \in Int /\ LookupOK(d, client[d])
        BY Known
  <2>3. client[d].now <= Now(d) => client[d].now <= Now(d)'
        BY <2>1, <2>2
  <2>4. Punctual(d, client[d])'
        BY <1>1, <2>2, <2>3 DEF LookupOK, Punctual
  <2> QED BY <1>1, <2>2, <2>4
      DEF LookupOK, OwnerSeesState, OwnsRow, Mismatched, PurgeJudged, OwnsActiveLease,
          FetchedStored, Staged, Unpublished
<1> QED BY <1>2, <1>3 DEF IInv

-----------------------------------------------------------------------------
(* The theorems                                                            *)

\* One step keeps the invariant, and is a step of the record or none.
LEMMA NextKeeps ==
    ASSUME IInv, [Next]_vars
    PROVE  IInv' /\ [Record!RecordNext]_(Record!recordVars)
<1> USE DEF Record!recordVars
<1>1. CASE UNCHANGED vars
      BY <1>1
      DEF vars, IInv, TypeOK, TokensDiffer, RowsOK, EvidenceStored, OneObjectPerContent,
          Versioned, LookupOK, Punctual, Now, OwnerSeesState, OwnsRow, Mismatched, PurgeJudged,
          OwnsActiveLease, FetchedStored, Staged, Unpublished
<1>2. CASE PassTime
      BY <1>2, PassTimeKeeps DEF PassTime
<1>3. ASSUME NEW c \in Client,
             \/ ReadState(c) \/ ReadObject(c) \/ ValidateVersion(c) \/ JudgeFirst(c)
             \/ ReadHeldLease(c) \/ Wait(c) \/ JudgeWaited(c) \/ JudgeAgain(c)
             \/ JudgeRefusedPurge(c) \/ JudgeWinner(c)
      PROVE  IInv' /\ [Record!RecordNext]_(Record!recordVars)
  <2>1. UNCHANGED <<state, evidence>>
        BY <1>3
        DEF ReadState, ReadObject, ValidateVersion, JudgeFirst, ReadHeldLease, Wait, JudgeWaited,
            JudgeAgain, JudgeRefusedPurge, JudgeWinner
  <2> QED BY <1>3, <2>1, ReadStateKeeps, ReadObjectKeeps, ValidateVersionKeeps, JudgeFirstKeeps,
             ReadHeldLeaseKeeps, WaitKeeps, JudgeWaitedKeeps, JudgeAgainKeeps,
             JudgeRefusedPurgeKeeps, JudgeWinnerKeeps
<1>4. ASSUME NEW c \in Client,
             \/ Fetch(c) \/ FindVersion(c) \/ VerifyObject(c) \/ ReadForFill(c) \/ Stamp(c)
             \/ Fail(c) \/ AcquireLease(c) \/ ReleaseLease(c) \/ Upload(c) \/ Unstage(c)
             \/ Finish(c)
      PROVE  IInv' /\ [Record!RecordNext]_(Record!recordVars)
  <2>1. UNCHANGED <<state, evidence>>
        BY <1>4
        DEF Fetch, FindVersion, VerifyObject, ReadForFill, Stamp, Fail, AcquireLease,
            ReleaseLease, Upload, Unstage, Finish
  <2> QED BY <1>4, <2>1, FetchKeeps, FindVersionKeeps, VerifyObjectKeeps, ReadForFillKeeps,
             StampKeeps, FailKeeps, AcquireLeaseKeeps, ReleaseLeaseKeeps, UploadKeeps,
             UnstageKeeps, FinishKeeps
<1>5. ASSUME NEW c \in Client, NEW token \in Token, Look(c, token)
      PROVE  IInv' /\ [Record!RecordNext]_(Record!recordVars)
      BY <1>5, LookKeeps DEF Look
<1>6. ASSUME NEW c \in Client, PurgeExpiredNegativeLease(c)
      PROVE  IInv' /\ [Record!RecordNext]_(Record!recordVars)
      BY <1>6, PurgeKeeps DEF Record!RecordNext
<1>7. ASSUME NEW c \in Client, Commit(c)
      PROVE  IInv' /\ [Record!RecordNext]_(Record!recordVars)
      BY <1>7, CommitKeeps DEF Record!RecordNext, Record!Observation
<1> QED BY <1>1, <1>2, <1>3, <1>4, <1>5, <1>6, <1>7 DEF Next

LEMMA InitKeeps ==
    ASSUME Init
    PROVE  IInv /\ Record!RecordInit
<1>1. Idle \in ClientState /\ Idle.at = "idle" /\ Idle.token = Null
  <2>1. {"idle"} \subseteq Step \cup {"idle"} /\ "first" \in Purpose /\ 0 \in Int
        BY DEF Purpose
  <2> QED BY <2>1, Replies, LookupType, Places DEF Idle
<1>2. Record!Empty \in Record!SourceState
      BY DEF Record!SourceState
<1>3. TypeOK
      BY <1>1, <1>2, OpinionAssumption DEF Init, TypeOK
<1>4. \A c \in Client : client[c] = Idle
      BY DEF Init
<1>5. TokensDiffer
      BY <1>1, <1>4, OpinionAssumption DEF TokensDiffer
<1>6. RowsOK
      BY DEF Init, RowsOK, EvidenceStored, OneObjectPerContent, Versioned, Record!Retained
<1>7. ASSUME NEW c \in Client PROVE LookupOK(c, client[c])
      BY <1>1, <1>4
      DEF LookupOK, Punctual, OwnerSeesState, PurgeJudged, FetchedStored, Unpublished,
          Fetching, Filling
<1>8. Record!RecordInit
      BY DEF Init, Record!RecordInit
<1> QED BY <1>3, <1>5, <1>6, <1>7, <1>8 DEF IInv

\* The inductive invariant: while a lookup owns the lease, what it has read is
\* what is stored, and nothing it has staged is a version already.
THEOREM OpinionInvariant == Spec => []IInv
<1>1. Init => IInv
      BY InitKeeps
<1>2. IInv /\ [Next]_vars => IInv'
      BY NextKeeps
<1> QED BY <1>1, <1>2, PTL DEF Spec

\* ImplementsRecord: staged objects, version rows, lost responses and late workers
\* notwithstanding, the opinion learns one observation at a time.
THEOREM OpinionImplementsRecord == Spec => ImplementsRecord
<1>1. Init => Record!RecordInit
      BY InitKeeps
<1>2. IInv /\ [Next]_vars => [Record!RecordNext]_(Record!recordVars)
      BY NextKeeps
<1> QED BY <1>1, <1>2, OpinionInvariant, PTL DEF Spec, ImplementsRecord, Record!RecordSpec

\* EvidenceStored, OneObjectPerContent, Versioned: no cleanup takes away an object a
\* version refers to, unless its response was lost; and equal texts are one object.
THEOREM RowsAreSound == Spec => [](EvidenceStored /\ OneObjectPerContent /\ Versioned)
<1>1. IInv => EvidenceStored /\ OneObjectPerContent /\ Versioned
      BY DEF IInv, RowsOK
<1> QED BY <1>1, OpinionInvariant, PTL

\* OwnerPurges: had the caller written its provenance in the order of the schema,
\* no owner could fail to purge the expired negative that it has read.
THEOREM OwnersPurge ==
    ASSUME CallerOrder = "schema"
    PROVE  Spec => []OwnerPurges
<1>1. IInv => OwnerPurges
      BY DEF IInv, LookupOK, PurgeJudged, OwnerPurges
<1> QED BY <1>1, OpinionInvariant, PTL

\* What is stored changes only by the purge or the commit of the owner.
LEMMA OnlyOwnersStore ==
    ASSUME IInv, [Next]_vars
    PROVE  \/ UNCHANGED <<state, versions>>
           \/ UNCHANGED versions /\ CallerOrder = "schema" /\ state.kind = "negative"
           \/ state.kind # "negative" /\ ~Mismatched
<1>1. ASSUME NEW c \in Client, PurgeExpiredNegativeLease(c)
      PROVE  \/ UNCHANGED <<state, versions>>
             \/ UNCHANGED versions /\ CallerOrder = "schema" /\ state.kind = "negative"
  <2>1. CASE OwnsActiveLease(client[c], client[c].now) /\ SameJson(state, client[c].seen)
    <3>1. StaleNegative(client[c].seen, client[c].now)
          BY <1>1, Known DEF PurgeExpiredNegativeLease, LookupOK, PurgeJudged
    <3> QED BY <1>1, <2>1, <3>1
            DEF PurgeExpiredNegativeLease, SameJson, StaleNegative, Record!StaleNegative
  <2>2. CASE ~(OwnsActiveLease(client[c], client[c].now) /\ SameJson(state, client[c].seen))
        BY <1>1, <2>2 DEF PurgeExpiredNegativeLease
  <2> QED BY <2>1, <2>2
<1>2. ASSUME NEW c \in Client, Commit(c)
      PROVE  \/ UNCHANGED <<state, versions>>
             \/ state.kind # "negative" /\ ~Mismatched
  <2>1. CASE OwnsActiveLease(client[c], client[c].commitAt)
        BY <1>2, <2>1, Known DEF Commit, LookupOK, OwnerSeesState, OwnsActiveLease, Fetching
  <2>2. CASE ~OwnsActiveLease(client[c], client[c].commitAt)
        BY <1>2, <2>2 DEF Commit
  <2> QED BY <2>1, <2>2
<1>3. ASSUME ~ \E c \in Client : PurgeExpiredNegativeLease(c) \/ Commit(c)
      PROVE  UNCHANGED <<state, versions>>
      BY <1>3
      DEF Next, vars, PassTime, Look, ReadState, ReadObject, ValidateVersion, JudgeFirst,
          AcquireLease, ReadHeldLease, Wait, JudgeWaited, JudgeAgain, JudgeRefusedPurge, Fetch,
          FindVersion, VerifyObject, Upload, ReadForFill, Stamp, Unstage, JudgeWinner,
          ReleaseLease, Fail, Finish
<1> QED BY <1>1, <1>2, <1>3

\* MismatchLasts: once a text that was revalidated does not match its row, no
\* refresh will ever repair it.
THEOREM MismatchIsForGood == Spec => MismatchLasts
<1>1. IInv /\ [Next]_vars => [Mismatched => Mismatched']_vars
      BY OnlyOwnersStore DEF Mismatched
<1> QED BY <1>1, OpinionInvariant, PTL DEF Spec, MismatchLasts

\* NegativeLasts: as the caller writes its provenance in another order, an absence
\* is for good.
THEOREM NegativeIsForGood ==
    ASSUME CallerOrder # "schema"
    PROVE  Spec => NegativeLasts
<1>1. IInv /\ [Next]_vars => [state.kind = "negative" => state' = state]_vars
      BY OnlyOwnersStore
<1> QED BY <1>1, OpinionInvariant, PTL DEF Spec, NegativeLasts

-----------------------------------------------------------------------------
(* What is answered                                                        *)

Hears(k) ==
    \/ k.at \in Filling
    \/ k.at \in {"reading", "object", "version", "judging"} /\ k.why = "winner"

\* What a lookup k may answer when s is stored.
MayAnswer(k, answer, s) ==
    \/ answer \in {Indeterminate, k.answer, Fallback(k), CommitAnswer(s)}
    \/ k.seen # Null /\ answer \in {AnswerFrom(k.seen), WinnerAnswer(k)}

\* A lookup that was told of an absence does not answer with the text it has retained.
Suppresses(k, m) ==
    k.fetched = Absent /\ m.at = "answered" /\ k.retained # Null => m.answer # Found(k.retained)

\* What a step may make of a lookup k that is under way: m, when s is stored after it.
Goes(k, m, s) ==
    /\ m.seen \in {Null, k.seen, s}
    /\ \/ m.retained \in {Null, k.retained}
       \/ /\ k.seen # Null /\ k.seen.kind = "positive"
          /\ m.retained = k.seen.positive /\ m.seen = Null
    /\ MayAnswer(k, m.answer, s)
    /\ m.fetched = Absent => Hears(m)
    /\ Suppresses(k, m)

Backed(states, reply) == reply # Indeterminate => \E s \in states : Supports(s, reply)

LEMMA AnswersBacked ==
    ASSUME NEW states, NEW s \in states
    PROVE  Backed(states, AnswerFrom(s)) /\ Backed(states, CommitAnswer(s))
BY DEF Backed, AnswerFrom, CommitAnswer, Supports, Found, SourceChanged

LEMMA MayAnswerBacked ==
    ASSUME NEW states, NEW k, NEW s \in states, NEW answer, MayAnswer(k, answer, s),
           k.seen # Null => k.seen \in states,
           Backed(states, Fallback(k)), Backed(states, k.answer)
    PROVE  Backed(states, answer)
<1>1. CASE answer \in {Indeterminate, k.answer, Fallback(k), CommitAnswer(s)}
      BY <1>1, AnswersBacked DEF Backed
<1>2. CASE k.seen # Null /\ answer = AnswerFrom(k.seen)
      BY <1>2, AnswersBacked
<1>3. CASE k.seen # Null /\ answer = WinnerAnswer(k)
  <2>1. \/ answer = Found(k.seen.positive) /\ k.seen.kind = "positive"
        \/ answer = SourceChanged /\ k.seen.kind = "reversal_pending"
        \/ answer \in {Indeterminate, Fallback(k)}
        BY <1>3 DEF WinnerAnswer
  <2> QED BY <1>3, <2>1 DEF Backed, Supports, Found, SourceChanged
<1> QED BY <1>1, <1>2, <1>3 DEF MayAnswer

\* What ReadsAreCurrent and AbsenceHeard say of one lookup.
ReadsFrom(states, k) ==
    /\ k.seen # Null => k.seen \in states
    /\ Backed(states, Fallback(k)) /\ Backed(states, k.answer)

Remembers(s, k) ==
    /\ k.fetched = Absent => Hears(k)
    /\ k.retained # Null => Record!Retained(s) # Null
    /\ k.seen # Null /\ Record!Retained(k.seen) # Null => Record!Retained(s) # Null
    /\ k.seen # Null /\ k.retained # Null => Record!Retained(k.seen) # Null

LEMMA HistoryParts ==
    HistoryInv <=>
        /\ during \in [Client -> SUBSET Record!SourceState]
        /\ \A c \in Client : /\ client[c].at # "idle" => state \in during[c]
                             /\ client[c].at # "idle" => ReadsFrom(during[c], client[c])
                             /\ Remembers(state, client[c])
BY DEF HistoryInv, ReadsAreCurrent, AbsenceHeard, ReadsFrom, Remembers, Hears, Backed

LEMMA HistoryPartsAfter ==
    ASSUME during' \in [Client -> SUBSET Record!SourceState],
           \A c \in Client : /\ client'[c].at # "idle" => state' \in during'[c]
                             /\ client'[c].at # "idle" => ReadsFrom(during'[c], client'[c])
                             /\ Remembers(state', client'[c])
    PROVE  HistoryInv'
BY DEF HistoryInv, ReadsAreCurrent, AbsenceHeard, ReadsFrom, Remembers, Hears, Backed, Supports,
       Fallback

\* Whatever a step stores, where a text was retained there is one: this is all that the
\* others need.
LEMMA StepKeepsHistory ==
    ASSUME TypeOK, HistoryInv, NEW c \in Client, client[c].at # "idle",
           NEW k, Becomes(c, k), NEW s, state' = s,
           during' \in [Client -> SUBSET Record!SourceState],
           \A d \in Client : client[d].at # "idle" => during[d] \cup {s} \subseteq during'[d],
           Record!Retained(state) # Null => Record!Retained(s) # Null,
           Goes(client[c], k, s)
    PROVE  HistoryInv'
<1>1. \A d \in Client : /\ client[d].at # "idle" => state \in during[d]
                        /\ client[d].at # "idle" => ReadsFrom(during[d], client[d])
                        /\ Remembers(state, client[d])
      BY HistoryParts
<1>2. client'[c] = k /\ \A d \in Client \ {c} : client'[d] = client[d]
      BY DEF TypeOK, Becomes
<1>3. ASSUME NEW d \in Client, d # c
      PROVE  /\ client'[d].at # "idle" => state' \in during'[d]
             /\ client'[d].at # "idle" => ReadsFrom(during'[d], client'[d])
             /\ Remembers(state', client'[d])
  <2>1. client'[d] = client[d]
        BY <1>2, <1>3
  <2>2. client[d].at # "idle" => s \in during'[d] /\ during[d] \subseteq during'[d]
        OBVIOUS
  <2>3. client[d].at # "idle" => ReadsFrom(during'[d], client[d])
        BY <1>1, <2>2 DEF ReadsFrom, Backed
  <2>4. Remembers(s, client[d])
        BY <1>1 DEF Remembers
  <2> QED BY <2>1, <2>2, <2>3, <2>4
<1> DEFINE k0 == client[c]
           states == during'[c]
<1>4. s \in states /\ during[c] \subseteq states
      OBVIOUS
<1>5. ReadsFrom(states, k0) /\ Remembers(state, k0)
      BY <1>1, <1>4 DEF ReadsFrom, Backed
<1> HIDE DEF states
<1>6. Backed(states, k.answer)
      BY <1>4, <1>5, MayAnswerBacked DEF Goes, ReadsFrom
<1>7. Backed(states, Fallback(k))
  <2>1. CASE k.retained = Null
        BY <2>1 DEF Fallback, Backed
  <2>2. CASE k.retained # Null /\ k.retained = k0.retained
    <3>1. Fallback(k) = Fallback(k0)
          BY <2>2 DEF Fallback
    <3> QED BY <1>5, <3>1 DEF ReadsFrom
  <2>3. CASE /\ k.retained # Null /\ k0.seen # Null /\ k0.seen.kind = "positive"
             /\ k.retained = k0.seen.positive
    <3>1. Fallback(k) = Found(k0.seen.positive) /\ k0.seen \in states
          BY <1>5, <2>3 DEF Fallback, ReadsFrom
    <3> QED BY <2>3, <3>1 DEF Backed, Supports, Found
  <2> QED BY <2>1, <2>2, <2>3 DEF Goes
<1>8. ReadsFrom(states, k)
      BY <1>4, <1>5, <1>6, <1>7 DEF ReadsFrom, Goes
<1>9. Remembers(s, k)
  <2>1. k.fetched = Absent => Hears(k)
        BY DEF Goes
  <2>2. k0.seen # Null /\ k0.seen.kind = "positive" /\ k0.seen.positive # Null =>
           Record!Retained(k0.seen) # Null
        BY DEF Record!Retained
  <2>3. k.retained # Null => Record!Retained(s) # Null
        BY <1>5, <2>2 DEF Goes, Remembers
  <2>4. k.seen # Null /\ Record!Retained(k.seen) # Null => Record!Retained(s) # Null
        BY <1>5 DEF Goes, Remembers
  <2>5. k.seen # Null /\ k.retained # Null => Record!Retained(k.seen) # Null
        BY <1>5, <2>3 DEF Goes, Remembers
  <2> QED BY <2>1, <2>3, <2>4, <2>5 DEF Remembers
<1> QED BY <1>2, <1>3, <1>4, <1>8, <1>9, HistoryPartsAfter DEF states

\* Where a lookup may go.
LEMMA PlaceFields ==
    ASSUME NEW k, NEW why, NEW now, NEW answer
    PROVE  /\ Reading(k, why).seen = Null /\ Reading(k, why).retained = k.retained
           /\ Reading(k, why).fetched = k.fetched /\ Reading(k, why).answer = Indeterminate
           /\ Acquiring(k, now).seen = Null /\ Acquiring(k, now).retained = k.retained
           /\ Acquiring(k, now).fetched = Null /\ Acquiring(k, now).answer = Indeterminate
           /\ Releasing(k, now, answer).seen = Null
           /\ Releasing(k, now, answer).retained = k.retained
           /\ Releasing(k, now, answer).fetched = Null
           /\ Releasing(k, now, answer).answer = answer
           /\ Answered(k, answer).seen = Null /\ Answered(k, answer).retained = Null
           /\ Answered(k, answer).fetched = Null /\ Answered(k, answer).answer = answer
BY DEF Reading, Acquiring, Releasing, Answered, Lookup

LEMMA NullIsNotAbsent == Null # Absent
BY OpinionAssumption

LEMMA PlacesGo ==
    ASSUME NEW k, NEW why, NEW now, NEW answer, NEW s, MayAnswer(k, answer, s), k.fetched # Absent
    PROVE  /\ Goes(k, Reading(k, why), s)
           /\ Goes(k, Acquiring(k, now), s)
           /\ Goes(k, Releasing(k, now, answer), s)
           /\ Goes(k, Answered(k, answer), s)
BY PlaceFields, NullIsNotAbsent DEF Goes, MayAnswer, Suppresses

LEMMA WinnerGoes ==
    ASSUME NEW k, NEW s
    PROVE  Goes(k, Reading(k, "winner"), s)
<1>1. Reading(k, "winner").at = "reading" /\ Reading(k, "winner").why = "winner"
      BY DEF Reading, Lookup
<1> QED BY <1>1, PlaceFields DEF Goes, MayAnswer, Suppresses, Hears

LEMMA AnsweredGoes ==
    ASSUME NEW k, NEW answer, NEW s, MayAnswer(k, answer, s),
           k.fetched = Absent /\ k.retained # Null => answer # Found(k.retained)
    PROVE  Goes(k, Answered(k, answer), s)
BY PlaceFields, NullIsNotAbsent DEF Goes, Suppresses

LEMMA StaysGo ==
    ASSUME NEW k, NEW m, NEW s, m.seen \in {Null, k.seen, s}, m.retained = k.retained,
           m.answer = k.answer, m.fetched = Absent => Hears(m), m.at # "answered"
    PROVE  Goes(k, m, s)
BY DEF Goes, MayAnswer, Suppresses

LEMMA Fields ==
    ASSUME NEW k \in ClientState
    PROVE  k = [at |-> k.at, why |-> k.why, token |-> k.token, seen |-> k.seen, now |-> k.now,
                commitAt |-> k.commitAt, ends |-> k.ends, retried |-> k.retried,
                retained |-> k.retained, fetched |-> k.fetched, answer |-> k.answer]
BY DEF ClientState

LEMMA WhoHears ==
    ASSUME HistoryInv, NEW c \in Client
    PROVE  client[c].fetched = Absent => Hears(client[c])
BY DEF HistoryInv, AbsenceHeard, Hears

\* The steps of a lookup under way that store nothing.
LEMMA ReadsGo ==
    ASSUME IInv, HistoryInv, NEW c \in Client,
           ReadState(c) \/ ReadObject(c) \/ ValidateVersion(c)
    PROVE  \E k : Becomes(c, k) /\ Goes(client[c], k, state)
<1> DEFINE k0 == client[c]
<1>1. k0 \in ClientState /\ k0.at \in {"reading", "object", "version"}
      BY Known DEF ReadState, ReadObject, ValidateVersion
<1>2. k0.fetched = Absent => k0.why = "winner"
      BY <1>1, WhoHears DEF Hears, Filling
<1>3. PICK k : /\ Becomes(c, k)
               /\ \E at \in {"object", "version", "judging"} :
                     \/ k = [k0 EXCEPT !.at = at, !.seen = state]
                     \/ k = [k0 EXCEPT !.at = at]
                     \/ k = [k0 EXCEPT !.at = at, !.seen = Null]
  <2>1. CASE ReadState(c)
    <3>1. Becomes(c, [k0 EXCEPT !.at = IF state.kind = "positive" THEN "object" ELSE "judging",
                                !.seen = state])
          BY <2>1 DEF ReadState, ReadBy
    <3>2. CASE state.kind = "positive"
          BY <3>1, <3>2
    <3>3. CASE state.kind # "positive"
          BY <3>1, <3>3
    <3> QED BY <3>2, <3>3
  <2>2. CASE ReadObject(c)
        BY <2>2 DEF ReadObject
  <2>3. CASE ValidateVersion(c)
        BY <2>3 DEF ValidateVersion
  <2> QED BY <2>1, <2>2, <2>3
<1>4. /\ k.at \in {"object", "version", "judging"} /\ k.seen \in {state, k0.seen, Null}
      /\ k.why = k0.why /\ k.fetched = k0.fetched
      /\ k.retained = k0.retained /\ k.answer = k0.answer
      BY <1>1, <1>3, Fields
<1>5. k.fetched = Absent => Hears(k)
      BY <1>2, <1>4 DEF Hears
<1> QED BY <1>3, <1>4, <1>5, StaysGo

LEMMA JudgeFirstGoes ==
    ASSUME IInv, HistoryInv, NEW c \in Client, JudgeFirst(c)
    PROVE  \E k : Becomes(c, k) /\ Goes(client[c], k, state)
<1> DEFINE k0 == client[c]
           retained == IF k0.seen.kind = "positive" THEN k0.seen.positive ELSE Null
<1>1. k0.fetched # Absent
      BY WhoHears DEF Hears, Filling, JudgeFirst
<1>2. PICK k : /\ Becomes(c, k)
               /\ \/ k = Answered(k0, Indeterminate)
                  \/ k0.seen # Null /\ k = [Acquiring(k0, Now(c)) EXCEPT !.retained = retained]
                  \/ k0.seen # Null /\ k = Answered(k0, AnswerFrom(k0.seen))
      BY DEF JudgeFirst
<1>3. CASE \/ k = Answered(k0, Indeterminate)
           \/ k0.seen # Null /\ k = Answered(k0, AnswerFrom(k0.seen))
  <2>1. MayAnswer(k0, Indeterminate, state)
        BY DEF MayAnswer
  <2>2. k0.seen # Null => MayAnswer(k0, AnswerFrom(k0.seen), state)
        BY DEF MayAnswer
  <2> QED BY <1>1, <1>2, <1>3, <2>1, <2>2, PlacesGo
<1>4. CASE k0.seen # Null /\ k = [Acquiring(k0, Now(c)) EXCEPT !.retained = retained]
  <2>1. /\ k.seen = Null /\ k.retained = retained /\ k.fetched = Null
        /\ k.answer = Indeterminate /\ k.at = "acquiring"
        BY <1>4 DEF Acquiring, Lookup
  <2>2. retained = Null \/ (k0.seen.kind = "positive" /\ retained = k0.seen.positive)
        OBVIOUS
  <2> HIDE DEF retained
  <2> QED BY <1>2, <1>4, <2>1, <2>2, NullIsNotAbsent DEF Goes, MayAnswer, Suppresses
<1> QED BY <1>2, <1>3, <1>4

LEMMA LeaseGoes ==
    ASSUME IInv, HistoryInv, NEW c \in Client, AcquireLease(c) \/ ReadHeldLease(c) \/ Wait(c)
    PROVE  \E k : Becomes(c, k) /\ Goes(client[c], k, state)
<1> DEFINE k0 == client[c]
<1>1. k0 \in ClientState /\ k0.at \in {"acquiring", "refused", "waiting"}
      BY Known DEF AcquireLease, ReadHeldLease, Wait
<1>2. k0.fetched # Absent
      BY <1>1, WhoHears DEF Hears, Filling
<1>3. MayAnswer(k0, Fallback(k0), state)
      BY DEF MayAnswer
<1>4. PICK k : /\ Becomes(c, k)
               /\ \/ k \in {Reading(k0, "again"), Answered(k0, Fallback(k0)), Acquiring(k0, Now(c))}
                  \/ k = [Reading(k0, "waited") EXCEPT !.now = Now(c)]
                  \/ k = [k0 EXCEPT !.at = "refused"]
                  \/ k = [k0 EXCEPT !.at = "waiting", !.ends = lease.expiresAt]
                  \/ k = [k0 EXCEPT !.at = "acquiring", !.retried = TRUE]
  <2>1. CASE AcquireLease(c)
        BY <2>1 DEF AcquireLease
  <2>2. CASE ReadHeldLease(c)
        BY <2>2 DEF ReadHeldLease
  <2>3. CASE Wait(c)
        BY <2>3 DEF Wait
  <2> QED BY <2>1, <2>2, <2>3
<1>5. CASE k \in {Reading(k0, "again"), Answered(k0, Fallback(k0)), Acquiring(k0, Now(c))}
      BY <1>2, <1>3, <1>4, <1>5, PlacesGo
<1>6. CASE k = [Reading(k0, "waited") EXCEPT !.now = Now(c)]
  <2>1. /\ k.seen = Null /\ k.retained = k0.retained /\ k.fetched = k0.fetched
        /\ k.answer = Indeterminate /\ k.at = "reading"
        BY <1>6 DEF Reading, Lookup
  <2> QED BY <1>2, <1>4, <2>1 DEF Goes, MayAnswer, Suppresses
<1>7. CASE \/ k = [k0 EXCEPT !.at = "refused"]
           \/ k = [k0 EXCEPT !.at = "waiting", !.ends = lease.expiresAt]
           \/ k = [k0 EXCEPT !.at = "acquiring", !.retried = TRUE]
  <2>1. /\ k.at \in {"refused", "waiting", "acquiring"} /\ k.seen = k0.seen
        /\ k.fetched = k0.fetched /\ k.retained = k0.retained /\ k.answer = k0.answer
        BY <1>1, <1>7, Fields
  <2> QED BY <1>2, <1>4, <2>1, StaysGo
<1> QED BY <1>4, <1>5, <1>6, <1>7

LEMMA JudgesGo ==
    ASSUME IInv, HistoryInv, NEW c \in Client,
           JudgeWaited(c) \/ JudgeAgain(c) \/ JudgeRefusedPurge(c)
    PROVE  \E k : Becomes(c, k) /\ Goes(client[c], k, state)
<1> DEFINE k0 == client[c]
<1>1. /\ k0 \in ClientState
      /\ \/ k0.at = "judging" /\ k0.why \in {"waited", "again"}
         \/ k0.at = "purge_refused"
      BY Known DEF JudgeWaited, JudgeAgain, JudgeRefusedPurge
<1>2. k0.fetched # Absent
      BY <1>1, WhoHears DEF Hears, Filling
<1>3. /\ MayAnswer(k0, Fallback(k0), state) /\ MayAnswer(k0, Indeterminate, state)
      /\ k0.seen # Null => MayAnswer(k0, AnswerFrom(k0.seen), state)
      BY DEF MayAnswer
<1>4. PICK k : /\ Becomes(c, k)
               /\ \/ k \in {Answered(k0, Fallback(k0)), Acquiring(k0, Now(c)),
                            Answered(k0, Indeterminate), Releasing(k0, Now(c), Indeterminate)}
                  \/ /\ k0.seen # Null
                     /\ k \in {Answered(k0, AnswerFrom(k0.seen)),
                               Releasing(k0, Now(c), AnswerFrom(k0.seen))}
                  \/ k = [k0 EXCEPT !.at = "waiting", !.seen = Null]
                  \/ k = [k0 EXCEPT !.at = "purging", !.now = Now(c)]
                  \/ k = [k0 EXCEPT !.at = "fetching", !.now = Now(c), !.seen = Null]
                  \/ k = [Releasing(k0, Now(c), Indeterminate) EXCEPT !.why = "winner"]
  <2>1. CASE JudgeWaited(c)
        BY <2>1 DEF JudgeWaited
  <2>2. CASE JudgeAgain(c)
        BY <2>2 DEF JudgeAgain
  <2>3. CASE JudgeRefusedPurge(c)
        BY <2>3 DEF JudgeRefusedPurge
  <2> QED BY <2>1, <2>2, <2>3
<1>5. CASE \/ k \in {Answered(k0, Fallback(k0)), Acquiring(k0, Now(c)),
                     Answered(k0, Indeterminate), Releasing(k0, Now(c), Indeterminate)}
           \/ /\ k0.seen # Null
              /\ k \in {Answered(k0, AnswerFrom(k0.seen)),
                        Releasing(k0, Now(c), AnswerFrom(k0.seen))}
      BY <1>2, <1>3, <1>4, <1>5, PlacesGo
<1>6. CASE \/ k = [k0 EXCEPT !.at = "waiting", !.seen = Null]
           \/ k = [k0 EXCEPT !.at = "purging", !.now = Now(c)]
           \/ k = [k0 EXCEPT !.at = "fetching", !.now = Now(c), !.seen = Null]
  <2>1. /\ k.at \in {"waiting", "purging", "fetching"} /\ k.seen \in {Null, k0.seen}
        /\ k.fetched = k0.fetched /\ k.retained = k0.retained /\ k.answer = k0.answer
        BY <1>1, <1>6, Fields
  <2> QED BY <1>2, <1>4, <2>1, StaysGo
<1>7. CASE k = [Releasing(k0, Now(c), Indeterminate) EXCEPT !.why = "winner"]
  <2>1. /\ k.seen = Null /\ k.retained = k0.retained /\ k.fetched = Null
        /\ k.answer = Indeterminate /\ k.at = "releasing"
        BY <1>7 DEF Releasing, Lookup
  <2> QED BY <1>4, <2>1, NullIsNotAbsent DEF Goes, MayAnswer, Suppresses
<1> QED BY <1>4, <1>5, <1>6, <1>7

LEMMA FetchesGo ==
    ASSUME IInv, HistoryInv, NEW c \in Client, Fetch(c) \/ FindVersion(c)
    PROVE  \E k : Becomes(c, k) /\ Goes(client[c], k, state)
<1> DEFINE k0 == client[c]
<1>1. /\ k0 \in ClientState /\ k0.at \in {"fetching", "finding"} /\ k0.token \in Token
      BY Known, OwnToken DEF Fetch, FindVersion
<1>2. k0.fetched # Absent
      BY <1>1, WhoHears DEF Hears, Filling
<1>3. MayAnswer(k0, Fallback(k0), state) /\ MayAnswer(k0, Indeterminate, state)
      BY DEF MayAnswer
<1>4. CASE Fetch(c)
  <2>1. PICK k : /\ Becomes(c, k)
                 /\ \/ \E text \in Text :
                          k = [k0 EXCEPT !.at = "finding", !.now = Now(c), !.fetched = text]
                    \/ k = [k0 EXCEPT !.at = "filling", !.now = Now(c), !.fetched = Absent]
                    \/ k \in {Releasing(k0, Now(c), Indeterminate),
                              Releasing(k0, Now(c), Fallback(k0))}
    <3>1. \A content \in Content, representation \in Representation :
             [content |-> content, owner |-> k0.token, representation |-> representation] \in Text
          BY <1>1 DEF Text
    <3> QED BY <1>4, <3>1 DEF Fetch
  <2>2. CASE k \in {Releasing(k0, Now(c), Indeterminate), Releasing(k0, Now(c), Fallback(k0))}
        BY <1>2, <1>3, <2>1, <2>2, PlacesGo
  <2>3. CASE \/ \E text \in Text :
                   k = [k0 EXCEPT !.at = "finding", !.now = Now(c), !.fetched = text]
             \/ k = [k0 EXCEPT !.at = "filling", !.now = Now(c), !.fetched = Absent]
    <3>1. /\ k.seen = k0.seen /\ k.retained = k0.retained /\ k.answer = k0.answer
          /\ \/ k.at = "finding" /\ k.fetched \in Text
             \/ k.at = "filling"
          BY <1>1, <2>3, Fields
    <3>2. k.at # "answered" /\ (k.fetched = Absent => Hears(k))
          BY <3>1, OpinionAssumption DEF Hears, Filling
    <3>3. Goes(k0, k, state)
          BY <3>1, <3>2, StaysGo
    <3> QED BY <2>1, <3>3
  <2> QED BY <2>1, <2>2, <2>3
<1>5. CASE FindVersion(c)
  <2>1. k0.at = "finding"
        BY <1>5 DEF FindVersion
  <2>2. k0.fetched \in Text
        BY <2>1, Known DEF LookupOK, FetchedStored
  <2>3. \/ Becomes(c, [k0 EXCEPT !.at = "uploading"])
        \/ \E v \in versions :
              Becomes(c, [k0 EXCEPT !.at = "verifying", !.fetched.owner = v.cluster.owner])
        BY <1>5 DEF FindVersion
  <2>4. ASSUME Becomes(c, [k0 EXCEPT !.at = "uploading"])
        PROVE  \E k : Becomes(c, k) /\ Goes(k0, k, state)
    <3>1. PICK k : k = [k0 EXCEPT !.at = "uploading"]
          OBVIOUS
    <3>2. /\ k.at = "uploading" /\ k.seen = k0.seen /\ k.retained = k0.retained
          /\ k.answer = k0.answer /\ k.fetched = k0.fetched
          BY <1>1, <3>1, Fields
    <3>3. Goes(k0, k, state)
          BY <1>2, <3>2, StaysGo
    <3>4. Becomes(c, k)
          BY <2>4, <3>1
    <3> QED BY <3>3, <3>4
  <2>5. ASSUME NEW v \in versions,
               Becomes(c, [k0 EXCEPT !.at = "verifying", !.fetched.owner = v.cluster.owner])
        PROVE  \E k : Becomes(c, k) /\ Goes(k0, k, state)
    <3>1. v.cluster.owner \in Token
          BY <2>5 DEF IInv, TypeOK, Positive, Record!Positive, Text
    <3>2. PICK text : text = [k0.fetched EXCEPT !.owner = v.cluster.owner]
          OBVIOUS
    <3>3. text \in Text
          BY <2>2, <3>1, <3>2 DEF Text
    <3>4. PICK k : k = [k0 EXCEPT !.at = "verifying", !.fetched.owner = v.cluster.owner]
          OBVIOUS
    <3>5. /\ k.at = "verifying" /\ k.seen = k0.seen /\ k.retained = k0.retained
          /\ k.answer = k0.answer /\ k.fetched = text
          BY <1>1, <3>2, <3>4, Fields
    <3>6. k.fetched # Absent
          BY <3>3, <3>5, OpinionAssumption
    <3>7. Goes(k0, k, state)
          BY <3>5, <3>6, StaysGo
    <3>8. Becomes(c, k)
          BY <2>5, <3>4
    <3> QED BY <3>7, <3>8
  <2> QED BY <2>3, <2>4, <2>5
<1> QED BY <1>4, <1>5

LEMMA StagesGo ==
    ASSUME IInv, HistoryInv, NEW c \in Client,
           VerifyObject(c) \/ Upload(c) \/ ReadForFill(c) \/ Stamp(c) \/ Unstage(c)
    PROVE  \E k : Becomes(c, k) /\ Goes(client[c], k, state)
<1> DEFINE k0 == client[c]
<1>1. k0 \in ClientState
      BY Known
<1>2. PICK k : /\ Becomes(c, k)
               /\ \/ k = Reading(k0, "winner")
                  \/ k = [k0 EXCEPT !.at = "filling"]
                  \/ k = [k0 EXCEPT !.at = "stamping", !.seen = state]
                  \/ k = [k0 EXCEPT !.at = "committing", !.commitAt = Now(c)]
  <2>1. CASE VerifyObject(c)
        BY <2>1 DEF VerifyObject
  <2>2. CASE Upload(c)
        BY <2>2 DEF Upload
  <2>3. CASE ReadForFill(c)
        BY <2>3 DEF ReadForFill
  <2>4. CASE Stamp(c)
        BY <2>4 DEF Stamp
  <2>5. CASE Unstage(c)
        BY <2>5 DEF Unstage
  <2> QED BY <2>1, <2>2, <2>3, <2>4, <2>5
<1>3. CASE k = Reading(k0, "winner")
      BY <1>2, <1>3, WinnerGoes
<1>4. CASE \/ k = [k0 EXCEPT !.at = "filling"]
           \/ k = [k0 EXCEPT !.at = "stamping", !.seen = state]
           \/ k = [k0 EXCEPT !.at = "committing", !.commitAt = Now(c)]
  <2>1. /\ k.at \in Filling /\ k.at # "answered" /\ k.seen \in {k0.seen, state}
        /\ k.retained = k0.retained /\ k.answer = k0.answer
        BY <1>1, <1>4, Fields DEF Filling
  <2> QED BY <1>2, <2>1, StaysGo DEF Hears
<1> QED BY <1>2, <1>3, <1>4

\* durableWinner: the text a lookup had retained is not an answer to an absence, and a
\* record that retained it is not empty.
LEMMA JudgeWinnerGoes ==
    ASSUME IInv, HistoryInv, NEW c \in Client, JudgeWinner(c)
    PROVE  \E k : Becomes(c, k) /\ Goes(client[c], k, state)
<1> DEFINE k0 == client[c]
<1>1. CASE k0.seen = Null
  <2>1. Becomes(c, Answered(k0, Indeterminate))
        BY <1>1 DEF JudgeWinner
  <2>2. MayAnswer(k0, Indeterminate, state) /\ \A p : Indeterminate # Found(p)
        BY DEF MayAnswer, Found, Indeterminate
  <2> QED BY <2>1, <2>2, AnsweredGoes
<1>2. CASE k0.seen # Null
  <2>1. Becomes(c, Answered(k0, WinnerAnswer(k0)))
        BY <1>2 DEF JudgeWinner
  <2>2. MayAnswer(k0, WinnerAnswer(k0), state)
        BY <1>2 DEF MayAnswer
  <2>3. ASSUME k0.fetched = Absent, k0.retained # Null
        PROVE  WinnerAnswer(k0) # Found(k0.retained)
    <3>1. Record!Retained(k0.seen) # Null
          BY <1>2, <2>3 DEF HistoryInv, AbsenceHeard
    <3>2. k0.seen.kind # "empty"
          BY <3>1 DEF Record!Retained
    <3>3. \A p : Found(p) # Indeterminate /\ Found(p) # SourceChanged
          BY DEF Found, SourceChanged, Indeterminate
    <3>4. \A p, q : Found(p) = Found(q) => p = q
          BY DEF Found
    <3>5. CASE k0.seen.kind = "positive"
      <4>1. CASE k0.seen.positive = k0.retained
        <5>1. WinnerAnswer(k0) = Indeterminate
              BY <2>3, <3>5, <4>1 DEF WinnerAnswer
        <5> QED BY <3>3, <5>1
      <4>2. CASE k0.seen.positive # k0.retained
        <5>1. WinnerAnswer(k0) \in {Indeterminate, Found(k0.seen.positive)}
              BY <3>5 DEF WinnerAnswer
        <5> QED BY <3>3, <3>4, <4>2, <5>1
      <4> QED BY <4>1, <4>2
    <3>6. CASE k0.seen.kind # "positive"
      <4>1. WinnerAnswer(k0) \in {SourceChanged, Indeterminate}
            BY <3>2, <3>6 DEF WinnerAnswer
      <4> QED BY <3>3, <4>1
    <3> QED BY <3>5, <3>6
  <2> QED BY <2>1, <2>2, <2>3, AnsweredGoes
<1> QED BY <1>1, <1>2

LEMMA UnstagingGoes ==
    ASSUME NEW k0 \in ClientState, NEW s
    PROVE  Goes(k0, Unstaging(k0), s)
<1>1. CASE Staged(k0)
  <2>1. PICK k : k = [k0 EXCEPT !.at = "unstaging"]
        OBVIOUS
  <2>2. /\ k.at = "unstaging" /\ k.seen = k0.seen /\ k.retained = k0.retained
        /\ k.answer = k0.answer /\ k.fetched = k0.fetched
        BY <2>1, Fields
  <2>3. k.fetched # Absent /\ Unstaging(k0) = k
        BY <1>1, <2>1, <2>2 DEF Staged, Unstaging
  <2> QED BY <2>2, <2>3, StaysGo
<1>2. CASE ~Staged(k0)
      BY <1>2, WinnerGoes DEF Unstaging
<1> QED BY <1>1, <1>2

LEMMA ReleaseGoes ==
    ASSUME IInv, HistoryInv, NEW c \in Client, ReleaseLease(c)
    PROVE  \E k : Becomes(c, k) /\ Goes(client[c], k, state)
<1> DEFINE k0 == client[c]
<1>1. k0.fetched # Absent
      BY WhoHears DEF Hears, Filling, ReleaseLease
<1>2. MayAnswer(k0, k0.answer, state)
      BY DEF MayAnswer
<1>3. Becomes(c, Reading(k0, "winner")) \/ Becomes(c, Answered(k0, k0.answer))
      BY DEF ReleaseLease
<1> QED BY <1>1, <1>2, <1>3, PlacesGo, WinnerGoes

LEMMA FailGoes ==
    ASSUME IInv, HistoryInv, NEW c \in Client, Fail(c)
    PROVE  \E k : Becomes(c, k) /\ Goes(client[c], k, state)
<1> DEFINE k0 == client[c]
<1>1. /\ k0 \in ClientState /\ Becomes(c, AfterFailure(k0))
      /\ k0.at \in {"reading", "object", "version", "acquiring", "refused", "purging",
                    "purge_refused", "finding", "verifying", "uploading", "unstaging",
                    "filling", "committing", "releasing"}
  <2>1. k0 \in ClientState /\ k0.at \in Step \cup {"idle"}
        BY Known DEF ClientState
  <2> QED BY <2>1 DEF Fail, Step
<1>2. /\ MayAnswer(k0, k0.answer, state) /\ MayAnswer(k0, Fallback(k0), state)
      /\ MayAnswer(k0, Indeterminate, state)
      BY DEF MayAnswer
<1>3. CASE k0.at \in {"reading", "object", "version"}
  <2>1. PICK k : k = [k0 EXCEPT !.at = "judging", !.seen = Null]
        OBVIOUS
  <2>2. AfterFailure(k0) = k
        BY <1>3, <2>1 DEF AfterFailure
  <2>3. /\ k.at = "judging" /\ k.seen = Null /\ k.retained = k0.retained
        /\ k.answer = k0.answer /\ k.fetched = k0.fetched /\ k.why = k0.why
        BY <1>1, <2>1, Fields
  <2>4. k.fetched = Absent => Hears(k)
        BY <1>3, <2>3, WhoHears DEF Hears, Filling
  <2> QED BY <1>1, <2>2, <2>3, <2>4, StaysGo
<1>4. CASE k0.at \in {"acquiring", "refused", "purging", "purge_refused"}
  <2>1. k0.fetched # Absent
        BY <1>4, WhoHears DEF Hears, Filling
  <2>2. AfterFailure(k0) \in {Answered(k0, Fallback(k0)), Answered(k0, Indeterminate)}
        BY <1>4 DEF AfterFailure
  <2> QED BY <1>1, <1>2, <2>1, <2>2, PlacesGo
<1>5. CASE k0.at \in {"finding", "verifying", "uploading", "unstaging"}
  <2>1. AfterFailure(k0) = Reading(k0, "winner")
        BY <1>5 DEF AfterFailure
  <2> QED BY <1>1, <2>1, WinnerGoes
<1>6. CASE k0.at \in {"filling", "committing"}
  <2>1. AfterFailure(k0) = Unstaging(k0)
        BY <1>6 DEF AfterFailure
  <2> QED BY <1>1, <2>1, UnstagingGoes
<1>7. CASE k0.at = "releasing"
  <2>1. k0.fetched # Absent
        BY <1>7, WhoHears DEF Hears, Filling
  <2>2. AfterFailure(k0) \in {Reading(k0, "winner"), Answered(k0, k0.answer)}
        BY <1>7 DEF AfterFailure
  <2> QED BY <1>1, <1>2, <2>1, <2>2, PlacesGo, WinnerGoes
<1> QED BY <1>1, <1>3, <1>4, <1>5, <1>6, <1>7

\* The steps that store: the purge, and the commit of a lookup that still owns the lease.
\* Neither takes away the text that the record retains.
Stored(s) ==
    /\ state' = s
    /\ during' \in [Client -> SUBSET Record!SourceState]
    /\ \A d \in Client : client[d].at # "idle" => during[d] \cup {s} \subseteq during'[d]
    /\ Record!Retained(state) # Null => Record!Retained(s) # Null

LEMMA StoreStored ==
    ASSUME HistoryInv, NEW s \in Record!SourceState, Store(s),
           Record!Retained(state) # Null => Record!Retained(s) # Null
    PROVE  Stored(s)
BY HistoryParts DEF Store, Stored

LEMMA NothingStored ==
    ASSUME HistoryInv, UNCHANGED <<state, during>>
    PROVE  Stored(state)
BY HistoryParts DEF Stored

LEMMA PurgeGoes ==
    ASSUME IInv, HistoryInv, NEW c \in Client, PurgeExpiredNegativeLease(c)
    PROVE  \E k : Becomes(c, k) /\ Goes(client[c], k, state') /\ Stored(state')
<1> DEFINE k0 == client[c]
<1>1. /\ k0 \in ClientState /\ k0.at = "purging" /\ k0.now \in Int
      /\ state \in Record!SourceState /\ StaleNegative(k0.seen, k0.now)
      BY Known DEF PurgeExpiredNegativeLease, LookupOK, PurgeJudged
<1>2. k0.fetched # Absent
      BY <1>1, WhoHears DEF Hears, Filling
<1>3. PICK k : /\ Becomes(c, k)
               /\ \/ k = [k0 EXCEPT !.at = "fetching", !.seen = Null]
                  \/ k = [k0 EXCEPT !.at = "purge_refused"]
      BY DEF PurgeExpiredNegativeLease
<1>4. /\ k.at # "answered" /\ k.seen \in {Null, k0.seen} /\ k.retained = k0.retained
      /\ k.answer = k0.answer /\ k.fetched = k0.fetched
      BY <1>1, <1>3, Fields
<1>5. Goes(k0, k, state')
      BY <1>2, <1>4, StaysGo
<1>6. Stored(state')
  <2>1. CASE OwnsActiveLease(k0, k0.now) /\ SameJson(state, k0.seen)
    <3>1. Store(PurgeExpiredNegative(state, k0.now)) /\ StaleNegative(state, k0.now)
          BY <1>1, <2>1 DEF PurgeExpiredNegativeLease, SameJson
    <3>2. Stored(PurgeExpiredNegative(state, k0.now))
          BY <1>1, <3>1, PurgeType, StoreStored
    <3> QED BY <3>2 DEF Stored
  <2>2. CASE ~(OwnsActiveLease(k0, k0.now) /\ SameJson(state, k0.seen))
        BY <2>2, NothingStored DEF PurgeExpiredNegativeLease
  <2> QED BY <2>1, <2>2
<1> QED BY <1>3, <1>5, <1>6

LEMMA CommitGoes ==
    ASSUME IInv, HistoryInv, NEW c \in Client, Commit(c)
    PROVE  \E k : Becomes(c, k) /\ Goes(client[c], k, state') /\ Stored(state')
<1> DEFINE k0 == client[c]
           next == RecordObservation(k0.seen, k0.fetched, k0.now)
<1>1. /\ k0 \in ClientState /\ k0.at = "committing" /\ k0.now \in Int
      /\ k0.at \in Filling /\ k0.at \in Fetching
      /\ state \in Record!SourceState /\ LookupOK(c, k0)
      BY Known DEF Commit, Filling, Fetching
<1>2. CASE ~OwnsActiveLease(k0, k0.commitAt)
  <2>1. Becomes(c, Unstaging(k0)) /\ UNCHANGED <<state, during>>
        BY <1>2 DEF Commit
  <2> QED BY <1>1, <2>1, UnstagingGoes, NothingStored
<1>3. CASE OwnsActiveLease(k0, k0.commitAt)
  <2>1. /\ Store(next)
        /\ Becomes(c, Answered(k0, CommitAnswer(next))) \/ Becomes(c, Unstaging(k0))
        BY <1>3 DEF Commit, Committed
  <2>2. k0.seen = state /\ state.kind # "negative" /\ k0.fetched \in Text \cup {Absent}
        BY <1>1, <1>3 DEF LookupOK, OwnerSeesState, FetchedStored, OwnsActiveLease
  <2>3. next \in Record!SourceState
        BY <1>1, <2>2, RecordObservationType
  <2>4. k0.fetched = Absent =>
           next.kind # "positive" /\ Record!Retained(next) = Record!Retained(state)
        BY <1>1, <2>2, AbsenceRetains
  <2>5. k0.fetched # Absent => Record!Retained(next) # Null
    <3>1. SUFFICES ASSUME k0.fetched # Absent PROVE Record!Retained(next) # Null
          OBVIOUS
    <3>2. next = [kind |-> "positive",
                  positive |-> [cluster |-> k0.fetched, retrievedAt |-> k0.now]]
          BY <3>1 DEF RecordObservation, Record!RecordObservation
    <3>3. [cluster |-> k0.fetched, retrievedAt |-> k0.now] # Null
          BY <1>1, <2>2, <3>1, OpinionAssumption
    <3> QED BY <3>2, <3>3 DEF Record!Retained
  <2> HIDE DEF next
  <2>6. Stored(next) /\ state' = next
        BY <2>1, <2>3, <2>4, <2>5, StoreStored DEF Stored
  <2>7. Goes(k0, Unstaging(k0), next)
        BY <1>1, UnstagingGoes
  <2>8. Goes(k0, Answered(k0, CommitAnswer(next)), next)
    <3>1. MayAnswer(k0, CommitAnswer(next), next)
          BY DEF MayAnswer
    <3>2. k0.fetched = Absent => \A p : CommitAnswer(next) # Found(p)
          BY <2>4 DEF CommitAnswer, Found, SourceChanged, Indeterminate
    <3> QED BY <3>1, <3>2, AnsweredGoes
  <2> QED BY <2>1, <2>6, <2>7, <2>8
<1> QED BY <1>2, <1>3

\* Every step of a lookup under way.
LEMMA StepGoes ==
    ASSUME IInv, HistoryInv, NEW c \in Client,
           \/ ReadState(c) \/ ReadObject(c) \/ ValidateVersion(c) \/ JudgeFirst(c)
           \/ AcquireLease(c) \/ ReadHeldLease(c) \/ Wait(c) \/ JudgeWaited(c) \/ JudgeAgain(c)
           \/ PurgeExpiredNegativeLease(c) \/ JudgeRefusedPurge(c) \/ Fetch(c) \/ FindVersion(c)
           \/ VerifyObject(c) \/ Upload(c) \/ ReadForFill(c) \/ Stamp(c) \/ Commit(c)
           \/ Unstage(c) \/ JudgeWinner(c) \/ ReleaseLease(c) \/ Fail(c)
    PROVE  /\ client[c].at # "idle"
           /\ \E k : Becomes(c, k) /\ Goes(client[c], k, state') /\ Stored(state')
<1>1. client[c].at # "idle"
      BY DEF ReadState, ReadObject, ValidateVersion, JudgeFirst, AcquireLease, ReadHeldLease,
             Wait, JudgeWaited, JudgeAgain, PurgeExpiredNegativeLease, JudgeRefusedPurge, Fetch,
             FindVersion, VerifyObject, Upload, ReadForFill, Stamp, Commit, Unstage, JudgeWinner,
             ReleaseLease, Fail
<1>2. CASE PurgeExpiredNegativeLease(c) \/ Commit(c)
      BY <1>1, <1>2, PurgeGoes, CommitGoes
<1>3. CASE ~(PurgeExpiredNegativeLease(c) \/ Commit(c))
  <2>1. UNCHANGED <<state, during>>
        BY <1>3
        DEF ReadState, ReadObject, ValidateVersion, JudgeFirst, AcquireLease, ReadHeldLease,
            Wait, JudgeWaited, JudgeAgain, JudgeRefusedPurge, Fetch, FindVersion, VerifyObject,
            Upload, ReadForFill, Stamp, Unstage, JudgeWinner, ReleaseLease, Fail
  <2>2. \E k : Becomes(c, k) /\ Goes(client[c], k, state)
        BY <1>3, ReadsGo, JudgeFirstGoes, LeaseGoes, JudgesGo, FetchesGo, StagesGo,
           JudgeWinnerGoes, ReleaseGoes, FailGoes
  <2> QED BY <1>1, <2>1, <2>2, NothingStored
<1> QED BY <1>2, <1>3

\* A lookup begins with what is stored, and forgets what it was told when it ends.
LEMMA LookRemembers ==
    ASSUME IInv, HistoryInv, NEW c \in Client, NEW token \in Token, Look(c, token)
    PROVE  HistoryInv'
<1> DEFINE i == [Idle EXCEPT !.token = token]
           k == ReadBy(i)
<1>1. /\ Becomes(c, k) /\ UNCHANGED state /\ state \in Record!SourceState
      /\ during' = [during EXCEPT ![c] = {state}]
      BY Known DEF Look
<1>2. /\ k.seen = state /\ k.retained = Null /\ k.fetched = Null /\ k.answer = Indeterminate
      BY DEF ReadBy, Idle, Lookup
<1> HIDE DEF k
<1>3. client'[c] = k /\ \A d \in Client \ {c} : client'[d] = client[d]
      BY <1>1, Known DEF Becomes
<1>4. /\ during' \in [Client -> SUBSET Record!SourceState] /\ during'[c] = {state}
      /\ \A d \in Client \ {c} : during'[d] = during[d]
      BY <1>1, HistoryParts
<1>5. ReadsFrom(during'[c], k) /\ Remembers(state, k)
      BY <1>2, <1>4, NullIsNotAbsent DEF ReadsFrom, Remembers, Backed, Fallback
<1>6. \A d \in Client : /\ client'[d].at # "idle" => state' \in during'[d]
                        /\ client'[d].at # "idle" => ReadsFrom(during'[d], client'[d])
                        /\ Remembers(state', client'[d])
      BY <1>1, <1>3, <1>4, <1>5, HistoryParts
<1> QED BY <1>4, <1>6, HistoryPartsAfter

LEMMA FinishForgets ==
    ASSUME IInv, HistoryInv, NEW c \in Client, Finish(c)
    PROVE  HistoryInv'
<1>1. /\ Becomes(c, Idle) /\ UNCHANGED state /\ during' = [during EXCEPT ![c] = {}]
      BY DEF Finish
<1>2. Idle.at = "idle" /\ Idle.seen = Null /\ Idle.retained = Null /\ Idle.fetched = Null
      BY DEF Idle, Lookup
<1>3. client'[c] = Idle /\ \A d \in Client \ {c} : client'[d] = client[d]
      BY <1>1, Known DEF Becomes
<1>4. /\ during' \in [Client -> SUBSET Record!SourceState]
      /\ \A d \in Client \ {c} : during'[d] = during[d]
      BY <1>1, HistoryParts
<1>5. Remembers(state, Idle)
      BY <1>2, NullIsNotAbsent DEF Remembers
<1>6. \A d \in Client : /\ client'[d].at # "idle" => state' \in during'[d]
                        /\ client'[d].at # "idle" => ReadsFrom(during'[d], client'[d])
                        /\ Remembers(state', client'[d])
      BY <1>1, <1>2, <1>3, <1>4, <1>5, HistoryParts
<1> QED BY <1>4, <1>6, HistoryPartsAfter

LEMMA HistoryKept ==
    ASSUME IInv, HistoryInv, [Next]_vars
    PROVE  HistoryInv'
<1>1. ASSUME UNCHANGED <<state, during, client>> PROVE HistoryInv'
      BY <1>1, HistoryParts, HistoryPartsAfter
<1>2. ASSUME NEW c \in Client, client[c].at # "idle",
             \E k : Becomes(c, k) /\ Goes(client[c], k, state') /\ Stored(state')
      PROVE  HistoryInv'
  <2>1. PICK k : Becomes(c, k) /\ Goes(client[c], k, state') /\ Stored(state')
        BY <1>2
  <2> QED BY <1>2, <2>1, Known, StepKeepsHistory DEF Stored
<1> QED BY <1>1, <1>2, StepGoes, LookRemembers, FinishForgets DEF Next, PassTime, vars

LEMMA HistoryBegins == Init => HistoryInv
<1> SUFFICES ASSUME Init PROVE HistoryInv
    OBVIOUS
<1>1. Idle.at = "idle" /\ Idle.seen = Null /\ Idle.retained = Null /\ Idle.fetched = Null
      BY DEF Idle, Lookup
<1>2. /\ during \in [Client -> SUBSET Record!SourceState]
      /\ \A c \in Client : client[c].at = "idle" /\ Remembers(state, client[c])
      BY <1>1, NullIsNotAbsent DEF Init, Remembers
<1> QED BY <1>2, HistoryParts

\* What a lookup has read, has retained or will answer was stored since it began, and a
\* lookup that was told of an absence keeps it until it has stored it or read who won.
THEOREM OpinionHistory == Spec => []HistoryInv
<1>1. Init => HistoryInv
      BY HistoryBegins
<1>2. IInv /\ HistoryInv /\ [Next]_vars => HistoryInv'
      BY HistoryKept
<1> QED BY <1>1, <1>2, OpinionInvariant, PTL DEF Spec

\* AnswersAreCurrent: a lookup answers with what was stored at some moment since it
\* began, never with what an owner has fetched when its lease was gone.
THEOREM OpinionsAnswerWhatIsStored == Spec => []AnswersAreCurrent
<1>1. HistoryInv => AnswersAreCurrent
      BY DEF HistoryInv, ReadsAreCurrent, AnswersAreCurrent
<1> QED BY <1>1, OpinionHistory, PTL

\* AbsenceSuppressesRetained: to whom CourtListener has just said that there is no text,
\* the lookup does not answer with the text that it had, whoever wins the lease.
THEOREM AbsencesSuppress == Spec => AbsenceSuppressesRetained
<1> DEFINE Kept == \A c \in Client : Suppresses(client[c], client'[c])
<1>1. ASSUME IInv, HistoryInv, [Next]_vars PROVE Kept
  <2>1. ASSUME NEW c \in Client, client'[c] = client[c] \/ client'[c].at = "idle"
        PROVE  Suppresses(client[c], client'[c])
        BY <1>1, <2>1, WhoHears DEF Suppresses, Hears, Filling
  <2>2. ASSUME NEW c \in Client, NEW k, Becomes(c, k), Suppresses(client[c], k)
        PROVE  Kept
    <3>1. client'[c] = k /\ \A d \in Client \ {c} : client'[d] = client[d]
          BY <1>1, <2>2, Known DEF Becomes
    <3> QED BY <2>1, <2>2, <3>1
  <2>3. ASSUME NEW c \in Client, NEW token \in Token, Look(c, token) PROVE Kept
    <3>1. client[c].at = "idle" /\ Becomes(c, ReadBy([Idle EXCEPT !.token = token]))
          BY <2>3 DEF Look
    <3>2. client[c].fetched # Absent
          BY <1>1, <3>1, WhoHears DEF Hears, Filling
    <3> QED BY <2>2, <3>1, <3>2 DEF Suppresses
  <2>4. ASSUME NEW c \in Client, Finish(c) PROVE Kept
    <3>1. Becomes(c, Idle) /\ Idle.at = "idle"
          BY <2>4 DEF Finish, Idle, Lookup
    <3> QED BY <2>2, <3>1 DEF Suppresses
  <2>5. ASSUME UNCHANGED client PROVE Kept
        BY <2>1, <2>5
  <2>6. ASSUME NEW c \in Client,
               \E k : Becomes(c, k) /\ Goes(client[c], k, state') /\ Stored(state')
        PROVE  Kept
        BY <2>2, <2>6 DEF Goes
  <2> QED BY <1>1, <2>3, <2>4, <2>5, <2>6, StepGoes DEF Next, PassTime, vars
<1>2. Kept => [\A c \in Client :
                  client[c].fetched = Absent /\ client'[c].at = "answered"
                     /\ client[c].retained # Null =>
                        client'[c].answer # Found(client[c].retained)]_vars
      BY DEF Suppresses
<1>3. IInv /\ HistoryInv /\ [Next]_vars =>
         [\A c \in Client :
             client[c].fetched = Absent /\ client'[c].at = "answered"
                /\ client[c].retained # Null =>
                   client'[c].answer # Found(client[c].retained)]_vars
      BY <1>1, <1>2
<1> QED BY <1>3, OpinionInvariant, OpinionHistory, PTL DEF Spec, AbsenceSuppressesRetained

\* OneObjectPerContent: equal texts are one object in R2.
THEOREM TextsAreStoredOnce == Spec => []OneObjectPerContent
<1>1. IInv => OneObjectPerContent
      BY DEF IInv, RowsOK
<1> QED BY <1>1, OpinionInvariant, PTL
=============================================================================
