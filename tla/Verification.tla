---------------------------- MODULE Verification ----------------------------
(***************************************************************************)
(* One call of verify_citation or verify_quote, over the caches, the       *)
(* coordinator and CourtListener: src/verification/verify-citation.ts,     *)
(* verify-quote.ts and the gateways they are given.  CourtListener changes *)
(* while the call is under way, and may answer anything but a falsehood    *)
(* about what it was asked for.                                            *)
(*                                                                         *)
(* A cache is here one state per subject, as CitationRecord has it; leases *)
(* and statements are in CitationCache and OpinionStore, which implement   *)
(* that.  The decisions of the coordinator are in CourtListenerBudget.     *)
(***************************************************************************)
EXTENDS ExecutionFacts, CourtListenerApi

CONSTANTS
    Opinion,       \* the numbers of the opinions
    Source,        \* what CourtListener may have, see SourceType
    Known,         \* the sets of subjects that the caches may have evidence of at first
    Absent, Null,
    PositiveFreshness, NegativeFreshness, ReversalConfirmation,
    MaxClock,      \* bound: the clock stops here
    MaxChanges     \* bound: how often CourtListener changes

\* A usable text has the quote, has it not, or is blank once its markup is gone;
\* "none" is an opinion without a usable text.
Text == {"match", "other", "blank"}

SourceType == [cited : BOOLEAN, listing : SUBSET Opinion,
               text : [Opinion -> Text \cup {"none", Absent}]]

\* Why an answer may be left open.
Reason == {"unsupported_citation", "source_changed", "upstream_unavailable", "incomplete",
           "timeout", "rate_limited", "quota_unknown", "circuit_open",
           "source_text_unavailable"}

Cache == INSTANCE CitationSource WITH Cluster <- Text \cup {"cluster"}

\* Subjects are numbers, the opinions their own.
TheCitation == 0
TheCluster == -1
Cached == {TheCitation} \cup Opinion
Subject == Cached \cup {TheCluster}

ASSUME VerificationAssumption ==
    /\ Opinion \subseteq Nat \ {0}
    /\ Source \subseteq SourceType
    /\ Known \subseteq SUBSET Cached
    /\ {MaxClock, MaxChanges} \subseteq Nat
    /\ {PositiveFreshness, NegativeFreshness, ReversalConfirmation} \subseteq Nat \ {0}
    /\ Absent \notin Text \cup {"cluster", "none"}
    /\ Null \notin Cache!SourceState \cup Reason

VARIABLES
    clock,
    source,      \* what CourtListener has
    changes,     \* how often it changed
    records,     \* the source state of the citation and of each opinion
    bound,       \* the bindings the worker has: "all", "no_bucket" or "none"
    call,        \* the tool call
    was          \* history: what CourtListener had, and when

callVars == <<clock, source, changes, records, bound, call, was>>

\* What CourtListener has to say on a subject.
Says(s, subject) ==
    CASE subject = TheCitation -> IF s.cited THEN "cluster" ELSE Absent
      [] subject = TheCluster -> s.listing
      [] OTHER -> s.text[subject]

Had(s, at) == {<<at, subject, Says(s, subject)>> : subject \in Subject}

-----------------------------------------------------------------------------
(* What a cache decides and answers                                        *)

Decide(s, now) ==
    CASE s.kind = "positive" ->
            IF Cache!IsFresh(s.positive.retrievedAt, now, PositiveFreshness)
            THEN "fresh" ELSE "stale"
      [] s.kind = "negative" -> IF Cache!StaleNegative(s, now) THEN "nothing" ELSE "absent"
      [] s.kind = "empty" -> "nothing"
      [] s.kind = "reversal_pending" -> "source_changed"

Indeterminate(reason) == [kind |-> "indeterminate", reason |-> reason]
Found(p, freshness) == [kind |-> "found", found |-> p.cluster, at |-> p.retrievedAt,
                        freshness |-> freshness]
NotThere(at) == [kind |-> "absent", at |-> at]

\* observationFor; the absence of an opinion only leaves the search incomplete.
RecordReply(subject, s, now) ==
    LET decision == Decide(s, now) IN
    CASE decision \in {"fresh", "stale"} -> Found(s.positive, decision)
      [] decision = "absent" -> IF subject = TheCitation THEN NotThere(s.negative)
                                ELSE Indeterminate("incomplete")
      [] decision = "source_changed" -> Indeterminate("source_changed")
      [] decision = "nothing" -> Indeterminate("upstream_unavailable")

\* Variant: only the evidence of a citation is kept.
RetainedCitation(subject, s) ==
    IF subject = TheCitation /\ s.kind \in {"positive", "reversal_pending"} THEN s ELSE Null

\* What can still be answered when CourtListener cannot be asked: stale evidence,
\* and for a citation that it is in doubt.
Retained(subject, s) ==
    IF s.kind = "positive" \/ (subject = TheCitation /\ s.kind = "reversal_pending")
    THEN s ELSE Null

Fallback(retained, reason) ==
    IF retained = Null THEN Indeterminate(reason)
    ELSE IF retained.kind = "positive" THEN Found(retained.positive, "stale")
    ELSE Indeterminate("source_changed")

-----------------------------------------------------------------------------
(* The course of a call                                                    *)

\* "retained" answers when the cache fails, "fallback" when CourtListener does.
Idle == [at |-> "idle", tool |-> "none", subject |-> TheCitation, maySync |-> TRUE,
         retained |-> Null, fallback |-> Null, fetched |-> Null,
         cited |-> Null, required |-> {}, searched |-> {},
         facts |-> InitialFacts, answer |-> Null, began |-> 0]

Told(k, fact) == [k EXCEPT !.facts = Observe(@, fact)]
Answered(k, outcome, reason) ==
    [k EXCEPT !.at = "answered", !.answer = [outcome |-> outcome, reason |-> reason],
              !.retained = Null, !.fallback = Null, !.fetched = Null]
Undecided(k, reason) == Answered(k, "indeterminate", reason)

\* The cluster is not cached: CourtListener is asked for it each time.
Seek(k, subject) ==
    [k EXCEPT !.at = IF subject = TheCluster THEN "asking" ELSE "looking",
              !.subject = subject, !.maySync = TRUE,
              !.retained = Null, !.fallback = Null, !.fetched = Null]

Remaining(k) == k.required \ {opinion.id : opinion \in k.searched}
NextOpinion(k) == CHOOSE o \in Remaining(k) : TRUE

\* Variant: a text too old to be relied on is searched like any other.
SearchAnyAge(k) ==
    IF Remaining(k) # {} THEN Seek(k, NextOpinion(k)) ELSE Answered(k, "not_found", Null)

\* The opinions are searched one after the other; a stale one can witness a quote, not
\* refute it.
Search(k) ==
    IF Remaining(k) # {} THEN Seek(k, NextOpinion(k))
    ELSE IF \E opinion \in k.searched : opinion.freshness = "stale"
    THEN Undecided(k, "incomplete")
    ELSE Answered(k, "not_found", Null)

Searched(k, reply) ==
    LET opinion == [id |-> k.subject, text |-> reply.found, at |-> reply.at,
                    freshness |-> reply.freshness]
        searching == [k EXCEPT !.searched = @ \cup {opinion}]
    IN CASE opinion.text = "blank" -> Undecided(k, "source_text_unavailable")
         [] opinion.text = "match" -> Answered(searching, "verified", Null)
         [] opinion.text = "other" -> Search(searching)

\* What the call makes of a reply, whichever gateway it comes from.
Resume(k, reply) ==
    CASE reply.kind = "indeterminate" -> Undecided(k, reply.reason)
      [] reply.kind = "absent" ->
            Answered([k EXCEPT !.cited = reply], "not_found", Null)
      [] reply.kind = "found" /\ k.subject = TheCitation ->
            IF k.tool = "verify_citation"
            THEN Answered([k EXCEPT !.cited = reply], "verified", Null)
            ELSE Seek([k EXCEPT !.cited = reply], TheCluster)
      [] reply.kind = "listing" ->
            IF reply.opinions = {} THEN Undecided(k, "source_text_unavailable")
            ELSE Search([k EXCEPT !.required = reply.opinions])
      [] reply.kind = "found" /\ k.subject # TheCitation -> Searched(k, reply)

-----------------------------------------------------------------------------
(* What CourtListener may send                                             *)

Failures == {Failed(TRUE), Failed(FALSE), Response(403, TRUE, <<>>),
             Response(429, TRUE, <<>>), Response(503, TRUE, <<>>), Response(200, FALSE, <<>>)}

\* Beside the truth: no item or two, items on another citation, and for a citation
\* that is there, two clusters or one that cannot be trusted.
Items(s) ==
    LET here == Named("cluster", TRUE) IN
    {<<>>, <<Item(404, <<"another">>, <<>>)>>, <<Item(300, <<"requested", "another">>, <<>>)>>,
     <<Item(200, <<"another">>, <<Named("another", TRUE)>>)>>}
    \cup IF s.cited
         THEN {<<Item(200, <<"requested">>, <<here>>)>>,
               <<Item(200, <<"requested">>, <<here, Named("another", TRUE)>>)>>,
               <<Item(200, <<"requested">>, <<here, Named("another", FALSE)>>)>>}
         ELSE {<<Item(404, <<"requested">>, <<>>)>>}

Clusters(s) ==
    LET References(untrusted) == {[id |-> o, trusted |-> o # untrusted] : o \in s.listing} IN
    [id : {"cluster", "another"}, url : {"here", "elsewhere"}, trusted : BOOLEAN,
     opinions : {References(o) : o \in {Null} \cup s.listing}]

\* The text is that of the opinion the body names.
Opinions(s) ==
    {[id |-> o, clusterIds |-> ids, text |-> s.text[o]] :
        o \in {p \in Opinion : s.text[p] # Absent},
        ids \in {{}, {"cluster"}, {"another"}, {"cluster", "another"}}}

Sent(s, subject) ==
    Failures \cup
    CASE subject = TheCitation -> {Response(200, TRUE, items) : items \in Items(s)}
      [] subject = TheCluster ->
            {Response(404, TRUE, <<>>)} \cup {Response(200, TRUE, raw) : raw \in Clusters(s)}
      [] subject \in Opinion ->
            {Response(200, TRUE, raw) : raw \in Opinions(s)}
            \cup {Response(404, TRUE, <<>>) : absent \in {a \in {Absent} : s.text[subject] = a}}

-----------------------------------------------------------------------------
(* What the gateways make of an outcome                                    *)

FailureFact(failure) ==
    CASE failure = "server" -> "server_error"
      [] failure = "timeout" -> "timeout"
      [] failure = "transport" -> "transport_error"

FailureReason(failure) == IF failure = "timeout" THEN "timeout" ELSE "upstream_unavailable"

\* What is observed and recorded in the coordinator, and what is replied if that
\* succeeds; "fetched" is for the cache.
Result(outcome, reply) == [outcome |-> outcome, reply |-> reply]
Fetched(observation) == [kind |-> "fetched", observation |-> observation]

\* The outcomes both gateways treat alike.
CommonResult(got) ==
    CASE got.kind = "rate_limited" -> Result("rate_limited", Indeterminate("rate_limited"))
      [] got.kind = "unavailable" ->
            Result(FailureFact(got.failure), Indeterminate(FailureReason(got.failure)))
      [] OTHER -> Result("malformed_response", Indeterminate("incomplete"))

\* A citation counts only if exactly one cluster is named, and trusted.
CitationResult(response) ==
    LET looked == LookupCitation("requested", response) IN
    CASE looked.kind = "matched" /\ Len(looked.clusters) = 1 ->
            Result("success", Fetched(looked.clusters[1].id))
      [] looked.kind = "absent" -> Result("success", Fetched(Absent))
      [] OTHER -> CommonResult(looked)

\* A cluster under another URL than the citation gave is another case.
ClusterResult(response) ==
    LET got == GetCluster("cluster", response) IN
    CASE got.kind = "found" ->
            Result("success", IF got.url = "here"
                              THEN [kind |-> "listing", opinions |-> got.opinions]
                              ELSE Indeterminate("incomplete"))
      [] got.kind = "missing" -> Result("success", Indeterminate("incomplete"))
      [] OTHER -> CommonResult(got)

\* An opinion without a usable text is no evidence of its absence, and nothing
\* retained answers for it.
Unusable == [kind |-> "unusable"]

OpinionResult(id, response) ==
    LET got == GetOpinion(id, response) IN
    CASE got.kind = "found" ->
            Result("success", IF got.clusterIds # {"cluster"} THEN Indeterminate("incomplete")
                              ELSE IF got.text = "none" THEN Unusable
                              ELSE Fetched(got.text))
      [] got.kind = "missing" -> Result("success", Fetched(Absent))
      [] OTHER -> CommonResult(got)

ResultOf(subject, response) ==
    CASE subject = TheCitation -> CitationResult(response)
      [] subject = TheCluster -> ClusterResult(response)
      [] subject \in Opinion -> OpinionResult(subject, response)

\* What may come of asking for a subject.
Results == [s \in Source |-> [subject \in Subject |->
               {ResultOf(subject, response) : response \in Sent(s, subject)}]]
Usages == {GetUsage(response).kind : response \in Failures \cup {Response(200, TRUE, <<>>)}}

-----------------------------------------------------------------------------
(* Actions of a call                                                       *)

Init ==
    /\ clock = 0
    /\ source \in Source
    /\ changes = 0
    /\ \E known \in Known :
           records = [subject \in Cached |->
                         IF subject \in known /\ Says(source, subject) # "none"
                         THEN Cache!RecordObservation(Cache!Empty, Says(source, subject), 0)
                         ELSE Cache!Empty]
    /\ bound \in {"all", "no_bucket", "none"}
    /\ call = Idle
    /\ was = Had(source, 0)

Becomes(k) == call' = k
Environment == <<clock, source, changes, bound, was>>

\* A citation that cannot be parsed needs no lookup.
Begin(tool) ==
    /\ call.at = "idle"
    /\ \/ Becomes([Seek(Idle, TheCitation) EXCEPT !.tool = tool, !.began = clock])
       \/ Becomes(Undecided([Idle EXCEPT !.tool = tool, !.began = clock],
                            "unsupported_citation"))
    /\ UNCHANGED <<Environment, records>>

\* The cache is read before its lease is asked for.
Look ==
    LET subject == call.subject
        s == records[subject]
        k == Told(call, DecisionFact(Decide(s, clock)))
        retained == Retained(subject, s)
    IN /\ call.at = "looking"
       /\ Becomes(IF Cache!RequiresRevalidation(s, clock)
                  THEN [k EXCEPT !.at = "leasing", !.retained = retained, !.fallback = retained]
                  ELSE Resume(k, RecordReply(subject, s, clock)))
       /\ UNCHANGED <<Environment, records>>

\* Another lookup has the lease: what it stores, or stale evidence of a citation, is
\* answered; an opinion is waited for as long as it takes.
Wait ==
    LET subject == call.subject
        s == records[subject]
        k == Told(call, DecisionFact(Decide(s, clock)))
    IN /\ call.at = "leasing"
       /\ Becomes(IF ~Cache!RequiresRevalidation(s, clock) \/
                     (subject = TheCitation /\ Retained(subject, s) # Null)
                  THEN Resume(k, RecordReply(subject, s, clock))
                  ELSE k)
       /\ UNCHANGED <<Environment, records>>

\* The lease of a citation has ended without an answer.
GiveUp ==
    /\ call.at = "leasing" /\ call.subject = TheCitation
    /\ Becomes(Resume(Told(call, DecisionFact("nothing")),
                      Fallback(call.retained, "upstream_unavailable")))
    /\ UNCHANGED <<Environment, records>>

\* As the owner of the lease the call looks again, and drops an absence that has
\* expired.  The one of an opinion cannot be dropped: see CallerOrder in OpinionStore.
Own ==
    LET subject == call.subject
        s == records[subject]
        current == Cache!PurgeExpiredNegative(s, clock)
        k == Told(Told(call, DecisionFact(Decide(s, clock))), DecisionFact(Decide(current, clock)))
    IN /\ call.at = "leasing"
       /\ IF ~Cache!RequiresRevalidation(s, clock)
          THEN Becomes(Resume(k, RecordReply(subject, s, clock))) /\ UNCHANGED records
          ELSE IF subject = TheCitation
          THEN /\ records' = [records EXCEPT ![subject] = current]
               /\ Becomes([k EXCEPT !.at = "asking",
                                    !.fallback = Retained(subject, current),
                                    !.retained = IF Retained(subject, current) # Null
                                                 THEN Retained(subject, current) ELSE @])
          ELSE /\ Becomes(IF Cache!StaleNegative(s, clock)
                          THEN Undecided(Told(call, DecisionFact("nothing")), "incomplete")
                          ELSE [k EXCEPT !.at = "asking"])
               /\ UNCHANGED records
       /\ UNCHANGED Environment

\* D1 or R2 fails: nothing is retained yet, or no longer, unless as a fallback.
StoreFails ==
    /\ \/ /\ call.at = "looking"
          /\ Becomes(Undecided(call, "upstream_unavailable"))
       \/ /\ call.at = "leasing"
          /\ \/ Becomes(Resume(call, Fallback(call.retained, "upstream_unavailable")))
             \/ call.subject \in Opinion /\ Becomes(Undecided(call, "upstream_unavailable"))
    /\ UNCHANGED <<Environment, records>>

\* The lease is released, and what was retained answers before the failure does.  A
\* citation whose lease cannot be released has an unavailable source.
GoWithout(k, reason) ==
    \/ Becomes(Resume(k, Fallback(k.fallback, reason)))
    \/ /\ k.subject = TheCitation
       /\ Becomes(Resume(k, Fallback(k.retained, "upstream_unavailable")))

\* The bindings a subject needs.
Configured(subject) == bound = "all" \/ (bound = "no_bucket" /\ subject = TheCitation)

AskWithout ==
    /\ call.at = "asking" /\ ~Configured(call.subject)
    /\ GoWithout(Told(call, UpstreamFact("unavailable")), "upstream_unavailable")
    /\ UNCHANGED <<Environment, records>>

\* The decisions of the coordinator, and the circuits it may have then.
Busy == {"sync_in_progress", "sync_unavailable", "reservation_conflict",
         "reservation_capacity_exhausted"}
Admission ==
    [kind : {"reserved"}, circuit : {"closed", "half_open"}]
    \cup [kind : {"circuit_open"}, circuit : {"open"}]
    \cup [kind : {"probe_in_flight"}, circuit : {"half_open"}]
    \cup [kind : {"sync_required", "quota_limited", "quota_exhausted"} \cup Busy,
          circuit : {"closed", "open"}]

\* decide: a first demand to synchronize is met, a second is not.
Ask ==
    /\ call.at = "asking" /\ Configured(call.subject)
    /\ \/ GoWithout(Told(call, UpstreamFact("quota_unknown")), "quota_unknown")
       \/ \E decision \in Admission :
              LET k == Told(call, CircuitFact(decision.circuit)) IN
              CASE decision.kind = "reserved" -> Becomes([k EXCEPT !.at = "sending"])
                [] decision.kind = "sync_required" /\ k.maySync ->
                      Becomes([k EXCEPT !.at = "syncing", !.maySync = FALSE])
                [] decision.kind = "quota_limited" ->
                      GoWithout(Told(k, UpstreamFact("quota_limited")), "rate_limited")
                [] decision.kind = "quota_exhausted" ->
                      GoWithout(Told(k, UpstreamFact("quota_limited")), "quota_unknown")
                [] decision.kind = "circuit_open" -> GoWithout(k, "circuit_open")
                [] OTHER ->
                      GoWithout(Told(k, UpstreamFact("quota_unknown")), "quota_unknown")
    /\ UNCHANGED <<Environment, records>>

\* The synchronization may be refused before CourtListener is asked, and what it
\* reports may not be recorded.
Sync ==
    /\ call.at = "syncing"
    /\ \/ GoWithout(Told(call, UpstreamFact("quota_unknown")), "quota_unknown")
       \/ \E usage \in Usages, recorded \in BOOLEAN :
              LET k == Told(call, AttemptFact) IN
              CASE usage = "usage" /\ recorded -> Becomes([k EXCEPT !.at = "asking"])
                [] usage = "rate_limited" /\ recorded ->
                      GoWithout(Told(k, UpstreamFact("rate_limited")), "rate_limited")
                [] OTHER ->
                      GoWithout(Told(k, UpstreamFact("quota_unknown")), "quota_unknown")
    /\ UNCHANGED <<Environment, records>>

Attempted(k, outcome) == Told(Told(k, AttemptFact), OutcomeFact(outcome))

\* lookupReserved and requestReserved: what comes of a request is observed and
\* recorded before it is used, and not used if it cannot be recorded.
Send ==
    /\ call.at = "sending"
    /\ \E result \in Results[source][call.subject], recorded \in BOOLEAN :
           LET reply == result.reply
               k == Attempted(call, result.outcome)
           IN CASE ~recorded -> GoWithout(k, "quota_unknown")
                [] recorded /\ reply.kind = "indeterminate" -> GoWithout(k, reply.reason)
                [] recorded /\ reply.kind = "unusable" -> Becomes(Undecided(k, "incomplete"))
                [] recorded /\ reply.kind = "listing" -> Becomes(Resume(k, reply))
                [] recorded /\ reply.kind = "fetched" ->
                      Becomes([k EXCEPT !.at = "filling", !.fetched = reply.observation])
    /\ UNCHANGED <<Environment, records>>

\* What was fetched is stored.  Only the cache of citations observes what became of it.
Fill ==
    LET subject == call.subject
        s == Cache!RecordObservation(records[subject], call.fetched, clock)
    IN /\ call.at = "filling"
       /\ records' = [records EXCEPT ![subject] = s]
       /\ Becomes(Resume(IF subject = TheCitation
                         THEN Told(call, DecisionFact(Decide(s, clock))) ELSE call,
                         RecordReply(subject, s, clock)))
       /\ UNCHANGED Environment

\* The lease was lost, or the cache failed: for an opinion the winner's text counts,
\* unless it is the one just found to be gone.
LoseLease ==
    LET subject == call.subject
        s == records[subject]
        decision == Decide(s, clock)
    IN /\ call.at \in {"filling", "outrun"}
       /\ IF subject = TheCitation
          THEN Becomes(Resume(call, Fallback(call.retained, "upstream_unavailable")))
          ELSE \/ Becomes(Undecided(call, "upstream_unavailable"))
               \/ LET k == Told(call, DecisionFact(decision)) IN
                  Becomes(CASE decision \in {"fresh", "stale"} ->
                                  IF call.fetched = Absent /\ s = call.retained
                                  THEN Undecided(k, "upstream_unavailable")
                                  ELSE Resume(k, Found(s.positive, decision))
                            [] decision = "source_changed" -> Undecided(k, "source_changed")
                            [] s.kind = "empty" ->
                                  Resume(k, Fallback(call.retained, "upstream_unavailable"))
                            [] s.kind = "negative" -> Undecided(k, "incomplete"))
       /\ UNCHANGED <<Environment, records>>

-----------------------------------------------------------------------------
(* Other lookups, CourtListener and time.  They stop when the call has      *)
(* answered, as nothing reads them any more; a fetch takes no time.         *)

\* Another lookup refreshes what this one waits for, or what it lost the lease of.
OthersRefresh ==
    LET subject == call.subject
        observed == Says(source, subject)
    IN /\ call.at \in {"leasing", "filling"} /\ observed # "none"
       /\ Cache!RequiresRevalidation(records[subject], clock)
       /\ records[subject].kind # "negative"
       /\ records' = [records EXCEPT ![subject] = Cache!RecordObservation(@, observed, clock)]
       /\ Becomes(IF call.at = "filling" THEN [call EXCEPT !.at = "outrun"] ELSE call)
       /\ UNCHANGED Environment

Change ==
    /\ call.at # "answered" /\ changes < MaxChanges
    /\ \E s \in Source \ {source} : source' = s /\ was' = was \cup Had(s, clock)
    /\ changes' = changes + 1
    /\ UNCHANGED <<clock, bound, records, call>>

Tick ==
    /\ call.at \notin {"filling", "answered"} /\ clock < MaxClock
    /\ clock' = clock + 1
    /\ was' = was \cup Had(source, clock + 1)
    /\ UNCHANGED <<source, changes, bound, records, call>>

Steps == Look \/ Wait \/ GiveUp \/ Own \/ StoreFails \/ AskWithout \/ Ask \/ Sync \/ Send
        \/ Fill \/ LoseLease

Around == OthersRefresh \/ Change \/ Tick
-----------------------------------------------------------------------------
(* What is promised of a call                                              *)

Evidence == [kind : {"found"}, found : {"cluster"}, at : 0 .. MaxClock,
             freshness : {"fresh", "stale"}]
SearchedOpinion == [id : Opinion, text : {"match", "other"}, at : 0 .. MaxClock,
                    freshness : {"fresh", "stale"}]
AnswerType == [outcome : {"verified", "not_found"}, reason : {Null}]
              \cup [outcome : {"indeterminate"}, reason : Reason]

CallType ==
    [at : {"idle", "looking", "leasing", "asking", "syncing", "sending", "filling", "outrun",
           "answered"},
     tool : {"none", "verify_citation", "verify_quote"},
     subject : Subject, maySync : BOOLEAN,
     retained : Cache!SourceState \cup {Null}, fallback : Cache!SourceState \cup {Null},
     fetched : Cache!Observation \cup {Null},
     cited : {Null} \cup Evidence \cup [kind : {"absent"}, at : 0 .. MaxClock],
     required : SUBSET Opinion, searched : SUBSET SearchedOpinion,
     facts : ExecutionFacts, answer : AnswerType \cup {Null}, began : 0 .. MaxClock]

CallTypeOK ==
    /\ clock \in 0 .. MaxClock
    /\ source \in Source
    /\ changes \in 0 .. MaxChanges
    /\ records \in [Cached -> Cache!SourceState]
    /\ bound \in {"all", "no_bucket", "none"}
    /\ call \in CallType

Answer(outcome) == call.at = "answered" /\ call.answer.outcome = outcome

\* The times at which evidence may have been had that counts as fresh in this call.
Lately(freshness) == {at \in 0 .. MaxClock : call.began - at < freshness}

\* A citation or a quote is only said not to be there if CourtListener did not have the
\* citation lately, or if every opinion that it listed for the cluster, when it was asked
\* in this call, lately had a text without the quote: whatever changes between the
\* requests, a text that is missing, unusable or out of date leaves the answer open.
NotFoundIsComplete ==
    Answer("not_found") =>
        \/ \E at \in Lately(NegativeFreshness) : <<at, TheCitation, Absent>> \in was
        \/ /\ call.tool = "verify_quote"
           /\ \E asked \in call.began .. MaxClock, listing \in (SUBSET Opinion) \ {{}} :
                  /\ <<asked, TheCluster, listing>> \in was
                  /\ \A o \in listing : \E at \in Lately(PositiveFreshness) :
                         <<at, o, "other">> \in was

\* CourtListener said so on the subject, and lately if the evidence is called fresh.
Witnessed(subject, said, at, freshness) ==
    /\ <<at, subject, said>> \in was
    /\ freshness = "fresh" => at \in Lately(PositiveFreshness)

\* CourtListener listed these opinions for the cluster during the call.
Listed(listing) == \E asked \in call.began .. MaxClock : <<asked, TheCluster, listing>> \in was

\* What is verified was so at the time that the evidence bears, and that time is
\* recent if the evidence is said to be fresh; a quote is in a text that CourtListener
\* listed for the cluster during the call.
VerifiedIsWitnessed ==
    Answer("verified") =>
        /\ Witnessed(TheCitation, "cluster", call.cited.at, call.cited.freshness)
        /\ call.tool = "verify_quote" =>
               \E opinion \in call.searched :
                   /\ opinion.text = "match"
                   /\ Witnessed(opinion.id, "match", opinion.at, opinion.freshness)
                   /\ \E listing \in SUBSET Opinion : opinion.id \in listing /\ Listed(listing)

\* Where the cache has evidence from before the call, CourtListener's failure to answer
\* and the coordinator's refusal to ask are not the answer.
EvidenceOutlivesOutage ==
    /\ call.at = "answered" /\ call.subject \in Cached
    /\ call.answer.reason \in {"timeout", "rate_limited", "quota_unknown", "circuit_open"}
    => LET s == records[call.subject] IN
       s.kind = "positive" => s.positive.retrievedAt >= call.began

\* An answer that the source has changed is reported as such to telemetry, whatever was
\* seen of other subjects before, unless it is this call's own refresh of an opinion
\* that brought the contradiction into the cache.
ContradictionsReported ==
    [][ /\ call'.at = "answered" /\ call'.answer.reason = "source_changed"
        /\ ~(call.subject \in Opinion /\ records' # records)
        => call'.facts.cache = "source_changed" ]_callVars

\* The facts show what an answer blames on CourtListener.
Explains(facts, reason) ==
    /\ reason = "timeout" => facts.upstream = "timeout"
    /\ reason = "circuit_open" => facts.circuit = "open"
    /\ reason = "rate_limited" => facts.upstream \in {"rate_limited", "quota_limited"}

\* The facts have the latency of the attempt whose outcome they have.
Timed(facts) ==
    facts.upstream \in {"success", "timeout", "server_error", "malformed_response"} => facts.timed

-----------------------------------------------------------------------------
(* The inductive invariant of a call                                       *)

\* Whatever the caches know, CourtListener said at the time that they have for it.
PositiveSeen(subject, p) ==
    /\ p.cluster \in IF subject = TheCitation THEN {"cluster"} ELSE Text
    /\ p.retrievedAt \in 0 .. clock
    /\ <<p.retrievedAt, subject, p.cluster>> \in was

AbsenceSeen(subject, at) == at \in 0 .. clock /\ <<at, subject, Absent>> \in was

StateSeen(subject, s) ==
    /\ s.kind = "positive" => PositiveSeen(subject, s.positive)
    /\ s.kind = "negative" =>
           /\ AbsenceSeen(subject, s.negative)
           /\ s.superseded # Null => PositiveSeen(subject, s.superseded)
    /\ s.kind = "reversal_pending" =>
           AbsenceSeen(subject, s.firstNegative) /\ PositiveSeen(subject, s.superseded)

RecordsSeen ==
    /\ Had(source, clock) \subseteq was
    /\ \A subject \in Cached : StateSeen(subject, records[subject])

\* What a call has learned, while it is under way.
CitedWitnessed(k) ==
    k.cited \in Evidence /\ Witnessed(TheCitation, "cluster", k.cited.at, k.cited.freshness)

SearchWitnessed(k) ==
    /\ \A opinion \in k.searched :
           /\ opinion.text = "other" /\ opinion.id \in k.required
           /\ Witnessed(opinion.id, "other", opinion.at, opinion.freshness)
    /\ k.required # {} => Listed(k.required)

KeptSeen(k) ==
    \A s \in {k.retained, k.fallback} :
        s # Null => k.subject \in Cached /\ StateSeen(k.subject, s)

LookupOK(k) ==
    /\ k.began <= clock
    /\ k.subject # TheCitation => k.tool = "verify_quote" /\ CitedWitnessed(k)
    /\ IF k.subject \in Opinion THEN k.subject \in k.required
       ELSE k.required = {} /\ k.searched = {}
    /\ SearchWitnessed(k)
    /\ KeptSeen(k)
    /\ k.at \in {"looking", "leasing", "filling", "outrun"} => k.subject \in Cached
    /\ k.at = "filling" =>
           /\ k.fetched \in IF k.subject = TheCitation THEN {"cluster", Absent}
                            ELSE Text \cup {Absent}
           /\ <<clock, k.subject, k.fetched>> \in was

CallInv ==
    /\ RecordsSeen
    /\ call.at # "idle" => call.tool # "none"
    /\ call.at \notin {"idle", "answered"} => LookupOK(call)
    /\ NotFoundIsComplete
    /\ VerifiedIsWitnessed
    /\ call.at = "answered" => Explains(call.facts, call.answer.reason)
    /\ Timed(call.facts)

\* A call with nothing to fall back upon looked when the cache had no evidence.
NothingWasThere ==
    /\ call.at \in {"leasing", "asking", "syncing", "sending"} /\ call.subject \in Cached
    /\ call.fallback = Null
    => LET s == records[call.subject] IN
       s.kind = "positive" => s.positive.retrievedAt >= call.began

\* Telemetry knows of every contradiction that the call may yet answer: the one it
\* kept, and the one that an absence of the opinion it asks for would leave as it is.
DoubtsReported ==
    \/ call.facts.cache = "source_changed"
    \/ /\ \A kept \in {call.retained, call.fallback} :
              kept # Null => kept.kind = "positive"
       /\ call.at \in {"asking", "syncing", "sending", "filling"} /\ call.subject \in Opinion
          => records[call.subject].kind # "reversal_pending"

OutageInv == NothingWasThere /\ DoubtsReported /\ EvidenceOutlivesOutage
=============================================================================
