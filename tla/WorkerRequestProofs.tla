------------------------ MODULE WorkerRequestProofs -------------------------
(***************************************************************************)
(* Proofs about WorkerRequest: IInv is inductive, and with it a tool is    *)
(* only called for an admitted request with a whole body, what it answers  *)
(* is no falsehood, and the telemetry explains the answer. What a step of  *)
(* the tool's call keeps comes first, proved of Verification's own steps.  *)
(***************************************************************************)
EXTENDS WorkerRequest, TLAPS

USE VerificationAssumption, WorkerAssumption

(***************************************************************************)
(* What comes of a request.                                                *)
(***************************************************************************)

\* What the outcome of an attempt may be, and what a reply may be that follows from it.
Outcomes == {"success", "rate_limited", "malformed_response", "server_error", "timeout",
             "transport_error"}

IndeterminateResult(r) ==
    /\ r.reply.kind = "indeterminate"
    /\ r.reply.reason \in {"rate_limited", "timeout", "upstream_unavailable", "incomplete"}
    /\ r.reply.reason = "timeout" => r.outcome = "timeout"
    /\ r.reply.reason = "rate_limited" => r.outcome = "rate_limited"

\* A result that says something says what CourtListener has.
TrueResult(s, subject, r) ==
    /\ r.outcome \in Outcomes
    /\ \/ IndeterminateResult(r)
       \/ /\ r.reply.kind = "listing" /\ subject = TheCluster
          /\ r.reply.opinions = s.listing
       \/ /\ r.reply.kind = "fetched" /\ subject \in Cached
          /\ r.reply.observation = Says(s, subject) /\ r.reply.observation # "none"
       \/ r.reply.kind = "unusable" /\ subject \in Opinion

\* An outcome that is no success.
Unsuccessful(got) ==
    /\ got.kind \notin {"matched", "absent", "found", "missing"}
    /\ got.kind = "unavailable" => got.failure \in {"server", "timeout", "transport"}

LEMMA CommonResultTrue ==
    ASSUME NEW s, NEW subject, NEW got, Unsuccessful(got)
    PROVE  TrueResult(s, subject, CommonResult(got))
<1>1. CASE got.kind = "rate_limited"
  BY <1>1 DEF CommonResult, TrueResult, IndeterminateResult, Result, Outcomes, Indeterminate
<1>2. CASE got.kind = "unavailable"
  BY <1>2 DEF Unsuccessful, CommonResult, TrueResult, IndeterminateResult, Result, Outcomes,
     Indeterminate, FailureFact, FailureReason
<1>3. CASE got.kind \notin {"rate_limited", "unavailable"}
  BY <1>3 DEF CommonResult, TrueResult, IndeterminateResult, Result, Outcomes, Indeterminate
<1> QED BY <1>1, <1>2, <1>3

LEMMA Failing ==
    /\ Unsuccessful(Malformed) /\ Unsuccessful(RateLimited)
    /\ Unsuccessful(Outcome("ambiguous"))
    /\ \A failure \in {"server", "timeout", "transport"} : Unsuccessful(Unavailable(failure))
BY DEF Unsuccessful, Malformed, RateLimited, Outcome, Unavailable

\* The failures of a request are failures to every client.
LEMMA FailureOutcomes ==
    ASSUME NEW received \in Failures, NEW parsed
    PROVE  Unsuccessful(Get(received, parsed)) /\ Unsuccessful(LookupCitation("requested", received))
<1>1. CASE received \in {Failed(TRUE), Failed(FALSE)}
  BY <1>1, Failing DEF Failed, Get, LookupCitation, Thrown
<1>2. CASE received = Response(403, TRUE, <<>>)
  BY <1>2, Failing DEF Response, Get, LookupCitation, Ok, ServerError
<1>3. CASE received = Response(429, TRUE, <<>>)
  BY <1>3, Failing DEF Response, Get, LookupCitation, Ok, ServerError
<1>4. CASE received = Response(503, TRUE, <<>>)
  BY <1>4, Failing DEF Response, Get, LookupCitation, Ok, ServerError
<1>5. CASE received = Response(200, FALSE, <<>>)
  BY <1>5, Failing DEF Response, Get, LookupCitation, Ok, ServerError
<1> QED BY <1>1, <1>2, <1>3, <1>4, <1>5 DEF Failures

LEMMA Subjects ==
    /\ TheCitation # TheCluster /\ TheCitation \notin Opinion /\ TheCluster \notin Opinion
    /\ TheCitation \in Cached /\ TheCluster \notin Cached /\ Opinion \subseteq Cached
    /\ Subject = {TheCitation, TheCluster} \cup Opinion
BY DEF TheCitation, TheCluster, Cached, Subject

LEMMA SaysFacts ==
    ASSUME NEW s \in Source, NEW subject \in Subject
    PROVE  /\ s.cited \in BOOLEAN /\ s.listing \subseteq Opinion
           /\ s.text \in [Opinion -> Text \cup {"none", Absent}]
           /\ subject = TheCitation => Says(s, subject) = IF s.cited THEN "cluster" ELSE Absent
           /\ subject = TheCluster => Says(s, subject) = s.listing
           /\ subject \in Opinion =>
                  /\ subject \notin {TheCitation, TheCluster}
                  /\ Says(s, subject) = s.text[subject]
BY DEF SourceType, Says, TheCitation, TheCluster

\* An item on the citation matches if all its clusters can be trusted.
LEMMA MatchedItem ==
    ASSUME NEW clusters, clusters # <<>>, \A i \in DOMAIN clusters : clusters[i].trusted = TRUE
    PROVE  CitationOutcome("requested", Item(200, <<"requested">>, clusters))
           = [kind |-> "matched", clusters |-> clusters]
BY DEF CitationOutcome, Item

LEMMA DistrustedItem ==
    ASSUME NEW clusters, NEW i \in DOMAIN clusters, clusters[i].trusted = FALSE
    PROVE  CitationOutcome("requested", Item(200, <<"requested">>, clusters)) = Malformed
BY DEF CitationOutcome, Item

\* Whatever comes of a request for a citation is no falsehood: an item, or a cluster, that
\* is about another citation does not count.
LEMMA CitationResultTrue ==
    ASSUME NEW s \in Source, NEW received \in Sent(s, TheCitation)
    PROVE  TrueResult(s, TheCitation, CitationResult(received))
<1>0. PICK looked : looked = LookupCitation("requested", received)
  OBVIOUS
<1>1. CASE Unsuccessful(looked)
  <2>1. CitationResult(received) = CommonResult(looked)
    BY <1>0, <1>1 DEF CitationResult, Unsuccessful
  <2> QED BY <1>1, <2>1, CommonResultTrue
<1>2. ASSUME NEW items \in Items(s), received = Response(200, TRUE, items)
      PROVE  TrueResult(s, TheCitation, CitationResult(received))
  <2> DEFINE here == Named("cluster", TRUE)
  <2>1. looked = IF Len(items) = 1 THEN CitationOutcome("requested", items[1]) ELSE Malformed
    BY <1>0, <1>2 DEF LookupCitation, Response, Ok, ServerError
  <2>2. <<"another">> # <<"requested">> /\ <<"requested", "another">> # <<"requested">>
    OBVIOUS
  <2>3. CASE items = <<>>
    BY <2>1, <2>3, <1>1, Failing
  <2>4. CASE items = <<Item(404, <<"another">>, <<>>)>>
    <3>1. looked = Malformed
      BY <2>1, <2>2, <2>4 DEF CitationOutcome, Item
    <3> QED BY <3>1, <1>1, Failing
  <2>5. CASE items = <<Item(300, <<"requested", "another">>, <<>>)>>
    <3>1. looked = Outcome("ambiguous")
      BY <2>1, <2>5 DEF CitationOutcome, Item
    <3> QED BY <3>1, <1>1, Failing
  <2>6. CASE items = <<Item(200, <<"another">>, <<Named("another", TRUE)>>)>>
    <3>1. looked = Malformed
      BY <2>1, <2>2, <2>6 DEF CitationOutcome, Item
    <3> QED BY <3>1, <1>1, Failing
  <2>7. CASE s.cited /\ items = <<Item(200, <<"requested">>, <<here>>)>>
    <3> DEFINE clusters == <<here>>
    <3>0. clusters # <<>> /\ \A i \in DOMAIN clusters : clusters[i].trusted = TRUE
      BY DEF Named
    <3>1. looked = [kind |-> "matched", clusters |-> clusters]
      BY <2>1, <2>7, <3>0, MatchedItem
    <3>2. CitationResult(received) = Result("success", Fetched("cluster"))
      BY <1>0, <3>1 DEF CitationResult, Named
    <3>3. Says(s, TheCitation) = "cluster" /\ TheCitation \in Cached
      BY <2>7, SaysFacts, Subjects
    <3> QED BY <3>2, <3>3 DEF TrueResult, Result, Fetched, Outcomes
  <2>8. CASE items = <<Item(200, <<"requested">>, <<here, Named("another", TRUE)>>)>>
    <3> DEFINE clusters == <<here, Named("another", TRUE)>>
    <3>0. clusters # <<>> /\ \A i \in DOMAIN clusters : clusters[i].trusted = TRUE
      BY DEF Named
    <3>1. looked = [kind |-> "matched", clusters |-> clusters]
      BY <2>1, <2>8, <3>0, MatchedItem
    <3>2. CitationResult(received) = CommonResult(looked)
      BY <1>0, <3>1 DEF CitationResult
    <3> QED BY <3>1, <3>2
            DEF CommonResult, TrueResult, IndeterminateResult, Result, Outcomes, Indeterminate
  <2>9. CASE items = <<Item(200, <<"requested">>, <<here, Named("another", FALSE)>>)>>
    <3> DEFINE clusters == <<here, Named("another", FALSE)>>
    <3>0. 2 \in DOMAIN clusters /\ clusters[2].trusted = FALSE
      BY DEF Named
    <3>1. looked = Malformed
      BY <2>1, <2>9, <3>0, DistrustedItem
    <3> QED BY <3>1, <1>1, Failing
  <2>10. CASE ~s.cited /\ items = <<Item(404, <<"requested">>, <<>>)>>
    <3>1. looked.kind = "absent"
      BY <2>1, <2>10 DEF CitationOutcome, Item, Outcome
    <3>2. CitationResult(received) = Result("success", Fetched(Absent))
      BY <1>0, <3>1 DEF CitationResult
    <3>3. Says(s, TheCitation) = Absent /\ TheCitation \in Cached
      BY <2>10, SaysFacts, Subjects
    <3>4. Absent # "none"
      BY DEF Text
    <3> QED BY <3>2, <3>3, <3>4 DEF TrueResult, Result, Fetched, Outcomes
  <2> QED BY <2>3, <2>4, <2>5, <2>6, <2>7, <2>8, <2>9, <2>10 DEF Items
<1>3. received \in Failures \/ \E items \in Items(s) : received = Response(200, TRUE, items)
  BY Subjects DEF Sent
<1> QED BY <1>0, <1>1, <1>2, <1>3, FailureOutcomes

LEMMA Gone ==
    ASSUME NEW id, NEW received, ~received.thrown, received.status = 404
    PROVE  GetCluster(id, received) = Missing /\ GetOpinion(id, received) = Missing
<1>1. ASSUME NEW parsed
      PROVE  Get(received, parsed) = Missing
  BY DEF Get, Ok, ServerError
<1> QED BY <1>1 DEF GetCluster, GetOpinion

LEMMA Readable ==
    ASSUME NEW id, NEW received,
           ~received.thrown, received.status = 200, received.readable
    PROVE  /\ GetCluster(id, received) = ClusterFrom(id, received)
           /\ GetOpinion(id, received) = OpinionFrom(id, received)
BY DEF GetCluster, GetOpinion, Get, Ok, ServerError

LEMMA ReadCluster ==
    ASSUME NEW id, NEW raw, NEW received,
           ~received.thrown, received.status = 200, received.readable, received.json = raw
    PROVE  \/ GetCluster(id, received) = Malformed
           \/ GetCluster(id, received) =
                  [kind |-> "found", url |-> raw.url,
                   opinions |-> {reference.id : reference \in raw.opinions}]
BY Readable DEF ClusterFrom

LEMMA ReadOpinion ==
    ASSUME NEW id, NEW raw, NEW received,
           ~received.thrown, received.status = 200, received.readable, received.json = raw
    PROVE  \/ GetOpinion(id, received) = Malformed
           \/ /\ GetOpinion(id, received) =
                     [kind |-> "found", clusterIds |-> raw.clusterIds, text |-> raw.text]
              /\ raw.id = id
<1>1. PICK n : n = Cardinality(raw.clusterIds)
  OBVIOUS
<1> QED BY <1>1, Readable DEF OpinionFrom

\* A list of opinions is the one that CourtListener has for the cluster asked for.
LEMMA ClusterResultTrue ==
    ASSUME NEW s \in Source, NEW received \in Sent(s, TheCluster)
    PROVE  TrueResult(s, TheCluster, ClusterResult(received))
<1>0. PICK got : got = GetCluster("cluster", received)
  OBVIOUS
<1>r. PICK r : r = ClusterResult(received)
  OBVIOUS
<1>1. CASE Unsuccessful(got)
  <2>1. r = CommonResult(got)
    BY <1>0, <1>r, <1>1 DEF ClusterResult, Unsuccessful
  <2> QED BY <1>1, <1>r, <2>1, CommonResultTrue
<1>2. CASE received \in Failures
  <2>1. Unsuccessful(got)
    BY <1>0, <1>2, FailureOutcomes DEF GetCluster
  <2> QED BY <1>1, <2>1
<1>3. CASE received = Response(404, TRUE, <<>>)
  <2>1. ~received.thrown /\ received.status = 404
    BY <1>3 DEF Response
  <2>2. got = Missing
    BY <1>0, <2>1, Gone
  <2>3. r = Result("success", Indeterminate("incomplete"))
    BY <1>0, <1>r, <2>2 DEF ClusterResult, Missing
  <2> QED BY <1>r, <2>3 DEF TrueResult, IndeterminateResult, Result, Outcomes, Indeterminate
<1>4. ASSUME NEW raw \in Clusters(s), received = Response(200, TRUE, raw)
      PROVE  TrueResult(s, TheCluster, ClusterResult(received))
  <2>0. ~received.thrown /\ received.status = 200 /\ received.readable /\ received.json = raw
    BY <1>4 DEF Response
  <2> DEFINE References(untrusted) == {[id |-> o, trusted |-> o # untrusted] : o \in s.listing}
  <2>1. PICK o \in {Null} \cup s.listing : raw.opinions = References(o)
    BY <1>4 DEF Clusters
  <2>2. PICK listing : listing = {reference.id : reference \in raw.opinions}
    OBVIOUS
  <2>3. listing = s.listing
    <3>1. \A i \in listing : i \in s.listing
      BY <2>1, <2>2
    <3>2. \A i \in s.listing : i \in listing
      <4> TAKE i \in s.listing
      <4>1. [id |-> i, trusted |-> i # o] \in raw.opinions
        BY <2>1
      <4> QED BY <4>1, <2>2
    <3> QED BY <3>1, <3>2
  <2>4. got = Malformed \/ got = [kind |-> "found", url |-> raw.url, opinions |-> listing]
    BY <1>0, <2>0, <2>2, ReadCluster
  <2>5. CASE got = [kind |-> "found", url |-> raw.url, opinions |-> listing]
    <3>1. r = Result("success", IF raw.url = "here" THEN [kind |-> "listing", opinions |-> listing]
                                ELSE Indeterminate("incomplete"))
      BY <1>0, <1>r, <2>5 DEF ClusterResult
    <3> QED BY <1>r, <2>3, <3>1
            DEF TrueResult, IndeterminateResult, Result, Outcomes, Indeterminate
  <2> QED BY <1>1, <2>4, <2>5, Failing
<1>5. \/ received \in Failures \/ received = Response(404, TRUE, <<>>)
      \/ \E raw \in Clusters(s) : received = Response(200, TRUE, raw)
  BY Subjects DEF Sent
<1> QED BY <1>2, <1>3, <1>4, <1>5

\* A text is that of the opinion asked for, and only its absence is taken for its absence.
LEMMA OpinionResultTrue ==
    ASSUME NEW s \in Source, NEW opinion \in Opinion, NEW received \in Sent(s, opinion)
    PROVE  TrueResult(s, opinion, OpinionResult(opinion, received))
<1>0. PICK got : got = GetOpinion(opinion, received)
  OBVIOUS
<1>r. PICK r : r = OpinionResult(opinion, received)
  OBVIOUS
<1>s. PICK said : /\ said = Says(s, opinion) /\ said = s.text[opinion]
                  /\ said = Absent => said # "none"
  BY SaysFacts, Subjects DEF Text
<1>c. opinion \in Cached
  BY Subjects
<1>1. CASE Unsuccessful(got)
  <2>1. r = CommonResult(got)
    BY <1>0, <1>r, <1>1 DEF OpinionResult, Unsuccessful
  <2> QED BY <1>1, <1>r, <2>1, CommonResultTrue
<1>2. CASE received \in Failures
  <2>1. Unsuccessful(got)
    BY <1>0, <1>2, FailureOutcomes DEF GetOpinion
  <2> QED BY <1>1, <2>1
<1>3. CASE said = Absent /\ received = Response(404, TRUE, <<>>)
  <2>1. ~received.thrown /\ received.status = 404 /\ said = Absent
    BY <1>3 DEF Response
  <2>2. got = Missing
    BY <1>0, <2>1, Gone
  <2>3. r = Result("success", Fetched(said))
    BY <1>0, <1>r, <2>1, <2>2 DEF OpinionResult, Missing
  <2>4. said # "none"
    BY <1>s, <2>1
  <2> QED BY <1>r, <1>s, <1>c, <2>3, <2>4 DEF TrueResult, Result, Fetched, Outcomes
<1>4. ASSUME NEW raw \in Opinions(s), received = Response(200, TRUE, raw)
      PROVE  TrueResult(s, opinion, OpinionResult(opinion, received))
  <2>0. ~received.thrown /\ received.status = 200 /\ received.readable /\ received.json = raw
    BY <1>4 DEF Response
  <2>1. raw.text = s.text[raw.id]
    BY <1>4 DEF Opinions
  <2>2. \/ got = Malformed
        \/ /\ got = [kind |-> "found", clusterIds |-> raw.clusterIds, text |-> raw.text]
           /\ raw.id = opinion
    BY <1>0, <2>0, ReadOpinion
  <2>3. CASE /\ got = [kind |-> "found", clusterIds |-> raw.clusterIds, text |-> raw.text]
             /\ raw.id = opinion
    <3>1. got.kind = "found" /\ got.text = said
      BY <2>1, <2>3, <1>s
    <3>2. CASE got.clusterIds # {"cluster"}
      <4>1. r = Result("success", Indeterminate("incomplete"))
        BY <1>0, <1>r, <3>1, <3>2 DEF OpinionResult
      <4> QED BY <1>r, <4>1
              DEF TrueResult, IndeterminateResult, Result, Outcomes, Indeterminate
    <3>3. CASE got.clusterIds = {"cluster"} /\ got.text = "none"
      <4>1. r = Result("success", Unusable)
        BY <1>0, <1>r, <3>1, <3>3 DEF OpinionResult
      <4> QED BY <1>r, <4>1 DEF TrueResult, Unusable, Result, Outcomes
    <3>4. CASE got.clusterIds = {"cluster"} /\ got.text # "none"
      <4>1. r = Result("success", Fetched(said))
        BY <1>0, <1>r, <3>1, <3>4 DEF OpinionResult
      <4> QED BY <1>r, <4>1, <3>1, <3>4, <1>s, <1>c DEF TrueResult, Fetched, Result, Outcomes
    <3> QED BY <3>2, <3>3, <3>4
  <2> QED BY <1>1, <2>2, <2>3, Failing
<1>5. \/ received \in Failures
      \/ said = Absent /\ received = Response(404, TRUE, <<>>)
      \/ \E raw \in Opinions(s) : received = Response(200, TRUE, raw)
  BY <1>s, Subjects DEF Sent
<1> QED BY <1>2, <1>3, <1>4, <1>5

\* Whatever comes of a request to CourtListener is no falsehood.
THEOREM RequestsAreTrue ==
    ASSUME NEW s \in Source, NEW subject \in Subject, NEW r \in Results[s][subject]
    PROVE  TrueResult(s, subject, r)
<1>1. PICK received \in Sent(s, subject) : r = ResultOf(subject, received)
  BY DEF Results
<1>2. CASE subject = TheCitation
  <2>1. r = CitationResult(received)
    BY <1>1, <1>2, Subjects DEF ResultOf
  <2>2. TrueResult(s, TheCitation, CitationResult(received))
    BY <1>2, CitationResultTrue
  <2> QED BY <1>2, <2>1, <2>2
<1>3. CASE subject = TheCluster
  <2>1. r = ClusterResult(received)
    BY <1>1, <1>3, Subjects DEF ResultOf
  <2>2. TrueResult(s, TheCluster, ClusterResult(received))
    BY <1>3, ClusterResultTrue
  <2> QED BY <1>3, <2>1, <2>2
<1>4. CASE subject \in Opinion
  <2>1. r = OpinionResult(subject, received)
    BY <1>1, <1>4, Subjects DEF ResultOf
  <2>2. TrueResult(s, subject, OpinionResult(subject, received))
    BY <1>4, OpinionResultTrue
  <2> QED BY <2>1, <2>2
<1> QED BY <1>2, <1>3, <1>4, Subjects

(***************************************************************************)
(* What a call may be after a step of its own, at the time and with the    *)
(* history of before the step.                                             *)
(***************************************************************************)

AnsweredNotFound(k) ==
    \/ \E at \in Lately(NegativeFreshness) : <<at, TheCitation, Absent>> \in was
    \/ /\ k.tool = "verify_quote"
       /\ \E asked \in call.began .. MaxClock, listing \in (SUBSET Opinion) \ {{}} :
              /\ <<asked, TheCluster, listing>> \in was
              /\ \A o \in listing : \E at \in Lately(PositiveFreshness) :
                     <<at, o, "other">> \in was

AnsweredVerified(k) ==
    /\ Witnessed(TheCitation, "cluster", k.cited.at, k.cited.freshness)
    /\ k.tool = "verify_quote" =>
           \E opinion \in k.searched :
               /\ opinion.text = "match"
               /\ Witnessed(opinion.id, "match", opinion.at, opinion.freshness)
               /\ \E listing \in SUBSET Opinion : opinion.id \in listing /\ Listed(listing)

\* A call that has its answer, and one that has not.
Closed(k) ==
    /\ k.at = "answered"
    /\ k.answer.outcome = "not_found" => AnsweredNotFound(k)
    /\ k.answer.outcome = "verified" => AnsweredVerified(k)
    /\ Explains(k.facts, k.answer.reason)

Open(k) == k.at \notin {"idle", "answered"} /\ LookupOK(k)

Proper(k) ==
    /\ k \in CallType /\ k.began = call.began
    /\ k.tool # "none"
    /\ Timed(k.facts)

LEMMA LookupFields ==
    ASSUME NEW k, NEW m, LookupOK(k),
           m.began = k.began, m.subject = k.subject, m.tool = k.tool, m.cited = k.cited,
           m.required = k.required, m.searched = k.searched, m.retained = k.retained,
           m.fallback = k.fallback, m.at = k.at, m.fetched = k.fetched
    PROVE  LookupOK(m)
BY DEF LookupOK, CitedWitnessed, SearchWitnessed, KeptSeen

\* Observing does not change what a call has learned.
LEMMA ObserveFacts ==
    ASSUME NEW f \in ExecutionFacts, NEW fact,
           \/ \E d \in Decision : fact = DecisionFact(d)
           \/ \E c \in CircuitStatus : fact = CircuitFact(c)
           \/ \E u \in UpstreamStatus : fact = UpstreamFact(u)
           \/ fact = AttemptFact
    PROVE  Observe(f, fact) \in ExecutionFacts
<1>1. ASSUME NEW d \in Decision, fact = DecisionFact(d) PROVE Observe(f, fact) \in ExecutionFacts
  <2>1. PICK c \in CacheStatus, e \in FreshnessStatus : fact = CacheFact(c, e)
    BY <1>1 DEF DecisionFact, Decision, CacheStatus, FreshnessStatus
  <2>2. Observe(f, fact) = RecordCacheFact(f, fact)
    BY <2>1 DEF Observe, CacheFact
  <2>3. RecordCacheFact(f, fact) \in ExecutionFacts
    BY <2>1 DEF RecordCacheFact, CacheFact, ExecutionFacts
  <2> QED BY <2>2, <2>3
<1>2. ASSUME NEW c \in CircuitStatus, fact = CircuitFact(c) PROVE Observe(f, fact) \in ExecutionFacts
  BY <1>2 DEF Observe, CircuitFact, ExecutionFacts
<1>3. ASSUME NEW u \in UpstreamStatus, fact = UpstreamFact(u) PROVE Observe(f, fact) \in ExecutionFacts
  BY <1>3 DEF Observe, UpstreamFact, ExecutionFacts
<1>4. CASE fact = AttemptFact
  BY <1>4 DEF Observe, AttemptFact, ExecutionFacts
<1> QED BY <1>1, <1>2, <1>3, <1>4

LEMMA ToldFields ==
    ASSUME NEW k \in CallType, NEW fact, Observe(k.facts, fact) \in ExecutionFacts
    PROVE  LET m == Told(k, fact) IN
           /\ m \in CallType
           /\ m.facts = Observe(k.facts, fact)
           /\ m.began = k.began /\ m.subject = k.subject /\ m.tool = k.tool /\ m.cited = k.cited
           /\ m.required = k.required /\ m.searched = k.searched /\ m.retained = k.retained
           /\ m.fallback = k.fallback /\ m.at = k.at /\ m.fetched = k.fetched
           /\ m.maySync = k.maySync /\ m.answer = k.answer
<1>1. PICK f \in ExecutionFacts : f = Observe(k.facts, fact)
  OBVIOUS
<1>2. Told(k, fact) = [k EXCEPT !.facts = f]
  BY <1>1 DEF Told
<1>3. [k EXCEPT !.facts = f] \in CallType
  BY DEF CallType
<1> QED BY <1>1, <1>2, <1>3 DEF CallType

LEMMA AnsweredFields ==
    ASSUME NEW k \in CallType, NEW outcome, NEW reason,
           [outcome |-> outcome, reason |-> reason] \in AnswerType
    PROVE  LET m == Answered(k, outcome, reason) IN
           /\ m \in CallType
           /\ m.at = "answered" /\ m.answer = [outcome |-> outcome, reason |-> reason]
           /\ m.began = k.began /\ m.tool = k.tool /\ m.cited = k.cited
           /\ m.required = k.required /\ m.searched = k.searched /\ m.facts = k.facts
           /\ m.subject = k.subject /\ m.retained = Null /\ m.fallback = Null
<1>1. PICK a \in AnswerType : a = [outcome |-> outcome, reason |-> reason]
  OBVIOUS
<1>2. PICK m : m = Answered(k, outcome, reason)
  OBVIOUS
<1>3. m = [k EXCEPT !.at = "answered", !.answer = a,
                    !.retained = Null, !.fallback = Null, !.fetched = Null]
  BY <1>1, <1>2 DEF Answered
<1>4. m \in CallType
  BY <1>3 DEF CallType
<1> QED BY <1>1, <1>2, <1>3, <1>4 DEF CallType

LEMMA SeekFields ==
    ASSUME NEW k \in CallType, NEW subject \in Subject
    PROVE  LET m == Seek(k, subject) IN
           /\ m \in CallType
           /\ subject = TheCluster => m.at = "asking"
           /\ subject # TheCluster => m.at = "looking"
           /\ m.subject = subject /\ m.maySync = TRUE
           /\ m.retained = Null /\ m.fallback = Null /\ m.fetched = Null
           /\ m.began = k.began /\ m.tool = k.tool /\ m.cited = k.cited
           /\ m.required = k.required /\ m.searched = k.searched /\ m.facts = k.facts
<1>1. PICK a \in {"asking", "looking"} : a = IF subject = TheCluster THEN "asking" ELSE "looking"
  OBVIOUS
<1>2. PICK m : m = Seek(k, subject)
  OBVIOUS
<1>3. m = [k EXCEPT !.at = a, !.subject = subject, !.maySync = TRUE,
                    !.retained = Null, !.fallback = Null, !.fetched = Null]
  BY <1>1, <1>2 DEF Seek
<1>4. m \in CallType
  BY <1>3 DEF CallType
<1> QED BY <1>1, <1>2, <1>3, <1>4 DEF CallType

(***************************************************************************)
(* What a call makes of a reply.                                           *)
(***************************************************************************)

ReplyType ==
    [kind : {"found"}, found : Text \cup {"cluster"}, at : 0 .. MaxClock,
     freshness : {"fresh", "stale"}]

\* A reply that is no falsehood, and explained.
ReplyOK(k, reply) ==
    \/ /\ reply.kind = "indeterminate" /\ reply.reason \in Reason
       /\ Explains(k.facts, reply.reason)
    \/ /\ k.subject = TheCitation
       /\ reply.kind = "absent" /\ reply \in [kind : {"absent"}, at : 0 .. MaxClock]
       /\ reply.at \in Lately(NegativeFreshness) /\ <<reply.at, TheCitation, Absent>> \in was
    \/ /\ k.subject = TheCitation
       /\ reply.kind = "found" /\ reply \in ReplyType /\ reply.found = "cluster"
       /\ Witnessed(TheCitation, "cluster", reply.at, reply.freshness)
    \/ /\ k.subject \in Opinion
       /\ reply.kind = "found" /\ reply \in ReplyType /\ reply.found \in Text
       /\ Witnessed(k.subject, reply.found, reply.at, reply.freshness)
    \/ /\ k.subject = TheCluster
       /\ reply.kind = "listing" /\ reply.opinions \subseteq Opinion /\ Listed(reply.opinions)

LEMMA NullIsNoReason == Null \notin Reason /\ \A facts : Explains(facts, Null)
BY DEF Explains, Reason

LEMMA UndecidedGood ==
    ASSUME NEW k, Proper(k), NEW reason \in Reason, Explains(k.facts, reason)
    PROVE  LET m == Undecided(k, reason) IN Proper(m) /\ Closed(m)
<1>1. PICK m : m = Undecided(k, reason)
  OBVIOUS
<1>2. [outcome |-> "indeterminate", reason |-> reason] \in AnswerType
  BY DEF AnswerType
<1>3. /\ m \in CallType /\ m.at = "answered"
      /\ m.answer = [outcome |-> "indeterminate", reason |-> reason]
      /\ m.began = k.began /\ m.tool = k.tool /\ m.facts = k.facts
  BY <1>1, <1>2, AnsweredFields DEF Undecided, Proper
<1>4. Closed(m)
  BY <1>3 DEF Closed
<1> QED BY <1>1, <1>3, <1>4 DEF Proper

\* A search that goes on, or has found the quote in no text.
LEMMA SearchGood ==
    ASSUME NEW k, Proper(k), k.tool = "verify_quote", CitedWitnessed(k), SearchWitnessed(k),
           k.required # {}, call.began <= clock
    PROVE  LET m == Search(k) IN Proper(m) /\ (Open(m) \/ Closed(m))
<1>1. PICK m : m = Search(k)
  OBVIOUS
<1>2. k \in CallType /\ k.required \subseteq Opinion /\ k.searched \subseteq SearchedOpinion
  BY DEF Proper, CallType
<1>3. CASE Remaining(k) # {}
  <2>1. PICK o : o = NextOpinion(k) /\ o \in k.required
    BY <1>3 DEF NextOpinion, Remaining
  <2>2. o \in Opinion /\ o \in Subject /\ o # TheCluster
    BY <1>2, <2>1, Subjects
  <2>s. m = Seek(k, o)
    BY <1>1, <1>3, <2>1 DEF Search
  <2>3. /\ m \in CallType /\ m.at = "looking" /\ m.subject = o
        /\ m.retained = Null /\ m.fallback = Null
        /\ m.began = k.began /\ m.tool = k.tool /\ m.cited = k.cited
        /\ m.required = k.required /\ m.searched = k.searched /\ m.facts = k.facts
    <3>1. m \in CallType /\ m.at = "looking" /\ m.subject = o
      BY <1>2, <2>2, <2>s, SeekFields
    <3>2. m.began = k.began /\ m.tool = k.tool /\ m.cited = k.cited
      BY <1>2, <2>2, <2>s, SeekFields
    <3>3. m.required = k.required /\ m.searched = k.searched /\ m.facts = k.facts
      BY <1>2, <2>2, <2>s, SeekFields
    <3>4. m.retained = Null /\ m.fallback = Null
      BY <1>2, <2>2, <2>s, SeekFields
    <3> QED BY <3>1, <3>2, <3>3, <3>4
  <2>4. LookupOK(m)
    <3>1. SearchWitnessed(m) /\ CitedWitnessed(m) /\ KeptSeen(m)
      BY <2>3 DEF SearchWitnessed, CitedWitnessed, KeptSeen
    <3> QED BY <2>1, <2>2, <2>3, <3>1, Subjects DEF LookupOK, Proper
  <2> QED BY <1>1, <2>3, <2>4 DEF Open, Proper
<1>4. CASE Remaining(k) = {} /\ \E opinion \in k.searched : opinion.freshness = "stale"
  <2>1. m = Undecided(k, "incomplete")
    BY <1>1, <1>4 DEF Search
  <2>2. "incomplete" \in Reason /\ Explains(k.facts, "incomplete")
    BY DEF Reason, Explains
  <2> QED BY <1>1, <2>1, <2>2, UndecidedGood
<1>5. CASE Remaining(k) = {} /\ ~\E opinion \in k.searched : opinion.freshness = "stale"
  <2>1. m = Answered(k, "not_found", Null)
    BY <1>1, <1>5 DEF Search
  <2>2. [outcome |-> "not_found", reason |-> Null] \in AnswerType
    BY DEF AnswerType
  <2>3. /\ m \in CallType /\ m.at = "answered"
        /\ m.answer = [outcome |-> "not_found", reason |-> Null]
        /\ m.began = k.began /\ m.tool = k.tool /\ m.facts = k.facts
    BY <1>2, <2>1, <2>2, AnsweredFields
  <2>4. ASSUME NEW o \in k.required
        PROVE  \E at \in Lately(PositiveFreshness) : <<at, o, "other">> \in was
    <3>1. PICK opinion \in k.searched : opinion.id = o
      BY <1>5 DEF Remaining
    <3>2. opinion.freshness = "fresh" /\ opinion.text = "other"
      BY <1>2, <1>5 DEF SearchedOpinion, SearchWitnessed
    <3> QED BY <3>1, <3>2 DEF SearchWitnessed, Witnessed
  <2>5. PICK asked \in call.began .. MaxClock : <<asked, TheCluster, k.required>> \in was
    BY DEF SearchWitnessed, Listed
  <2>6. AnsweredNotFound(m)
    <3>1. k.required \in (SUBSET Opinion) \ {{}} /\ m.tool = "verify_quote"
      BY <1>2, <2>3
    <3> QED BY <2>4, <2>5, <3>1 DEF AnsweredNotFound
  <2>7. Closed(m)
    BY <2>3, <2>6, NullIsNoReason DEF Closed
  <2> QED BY <1>1, <2>3, <2>7 DEF Proper
<1> QED BY <1>1, <1>3, <1>4, <1>5

\* A text that is searched, and the next.
LEMMA SearchedGood ==
    ASSUME NEW k, Proper(k), LookupOK(k), call.began <= clock, k.subject \in Opinion,
           NEW reply \in ReplyType, reply.found \in Text,
           Witnessed(k.subject, reply.found, reply.at, reply.freshness)
    PROVE  LET m == Searched(k, reply) IN Proper(m) /\ (Open(m) \/ Closed(m))
<1>1. PICK m : m = Searched(k, reply)
  OBVIOUS
<1>2. PICK opinion : opinion = [id |-> k.subject, text |-> reply.found, at |-> reply.at,
                                freshness |-> reply.freshness]
  OBVIOUS
<1>3. PICK j : j = [k EXCEPT !.searched = @ \cup {opinion}]
  OBVIOUS
<1>4. /\ k \in CallType /\ k.tool = "verify_quote" /\ CitedWitnessed(k)
      /\ k.subject \in k.required /\ SearchWitnessed(k)
  BY Subjects DEF Proper, LookupOK
<1>5. CASE reply.found = "blank"
  <2>1. m = Undecided(k, "source_text_unavailable")
    BY <1>1, <1>2, <1>5 DEF Searched
  <2>2. "source_text_unavailable" \in Reason /\ Explains(k.facts, "source_text_unavailable")
    BY DEF Reason, Explains
  <2> QED BY <1>1, <2>1, <2>2, UndecidedGood
<1>6. ASSUME reply.found # "blank"
      PROVE  /\ Proper(j) /\ j.searched = k.searched \cup {opinion}
             /\ j.tool = k.tool /\ j.cited = k.cited /\ j.required = k.required
             /\ j.began = k.began /\ j.facts = k.facts
  <2>1. opinion \in SearchedOpinion
    BY <1>2, <1>6 DEF SearchedOpinion, ReplyType, Text
  <2>2. k.searched \cup {opinion} \in SUBSET SearchedOpinion
    BY <1>4, <2>1 DEF CallType
  <2>3. j \in CallType
    BY <1>3, <1>4, <2>2 DEF CallType
  <2>4. /\ j.searched = k.searched \cup {opinion}
        /\ j.tool = k.tool /\ j.cited = k.cited /\ j.required = k.required
        /\ j.began = k.began /\ j.facts = k.facts
    BY <1>3, <1>4 DEF CallType
  <2> QED BY <2>3, <2>4 DEF Proper
<1>7. CASE reply.found = "match"
  <2>0. reply.found # "blank"
    BY <1>7
  <2>1. m = Answered(j, "verified", Null)
    BY <1>1, <1>2, <1>3, <1>7 DEF Searched
  <2>2. [outcome |-> "verified", reason |-> Null] \in AnswerType
    BY DEF AnswerType
  <2>3. /\ m \in CallType /\ m.at = "answered"
        /\ m.answer = [outcome |-> "verified", reason |-> Null]
        /\ m.began = j.began /\ m.tool = j.tool /\ m.facts = j.facts
        /\ m.cited = j.cited /\ m.searched = j.searched
    BY <2>0, <1>6, <2>1, <2>2, AnsweredFields DEF Proper
  <2>4. opinion \in m.searched /\ m.cited = k.cited
    BY <2>0, <1>6, <2>3
  <2>5. opinion.text = "match" /\ Witnessed(opinion.id, "match", opinion.at, opinion.freshness)
    BY <1>2, <1>7
  <2>6. k.required \in SUBSET Opinion /\ opinion.id \in k.required /\ Listed(k.required)
    BY <1>2, <1>4 DEF CallType, SearchWitnessed
  <2>7. AnsweredVerified(m)
    BY <1>4, <2>4, <2>5, <2>6 DEF AnsweredVerified, CitedWitnessed
  <2>8. Closed(m)
    BY <2>3, <2>7, NullIsNoReason DEF Closed
  <2> QED BY <1>1, <2>0, <1>6, <2>3, <2>8 DEF Proper
<1>8. CASE reply.found = "other"
  <2>0. reply.found # "blank"
    BY <1>8
  <2>1. m = Search(j)
    BY <1>1, <1>2, <1>3, <1>8 DEF Searched
  <2>2. SearchWitnessed(j)
    <3>1. /\ opinion.text = "other" /\ opinion.id \in j.required
          /\ Witnessed(opinion.id, "other", opinion.at, opinion.freshness)
      BY <1>2, <1>4, <1>8, <2>0, <1>6
    <3> QED BY <1>4, <2>0, <1>6, <3>1 DEF SearchWitnessed
  <2>3. CitedWitnessed(j) /\ j.required # {}
    BY <1>4, <2>0, <1>6 DEF CitedWitnessed
  <2> QED BY <1>1, <1>4, <2>0, <1>6, <2>1, <2>2, <2>3, SearchGood
<1> QED BY <1>1, <1>5, <1>7, <1>8 DEF Text

\* Whatever is replied, the call goes on or has an answer that it can vouch for.
LEMMA ResumeGood ==
    ASSUME NEW k, Proper(k), LookupOK(k), call.began <= clock, NEW reply, ReplyOK(k, reply)
    PROVE  LET m == Resume(k, reply) IN Proper(m) /\ (Open(m) \/ Closed(m))
<1>1. PICK m : m = Resume(k, reply)
  OBVIOUS
<1>0. k \in CallType /\ k.began = call.began /\ k.tool # "none" /\ Timed(k.facts)
  BY DEF Proper
<1>2. CASE /\ reply.kind = "indeterminate" /\ reply.reason \in Reason
           /\ Explains(k.facts, reply.reason)
  <2>1. m = Undecided(k, reply.reason)
    BY <1>1, <1>2 DEF Resume
  <2>2. PICK reason \in Reason : reason = reply.reason
    BY <1>2
  <2> QED BY <1>1, <1>2, <2>1, <2>2, UndecidedGood
<1>3. CASE /\ k.subject = TheCitation
           /\ reply.kind = "absent" /\ reply \in [kind : {"absent"}, at : 0 .. MaxClock]
           /\ reply.at \in Lately(NegativeFreshness) /\ <<reply.at, TheCitation, Absent>> \in was
  <2>1. PICK j : j = [k EXCEPT !.cited = reply]
    OBVIOUS
  <2>2. j \in CallType /\ j.began = k.began /\ j.tool = k.tool /\ j.facts = k.facts
    BY <1>0, <1>3, <2>1 DEF CallType
  <2>3. m = Answered(j, "not_found", Null)
    BY <1>1, <1>3, <2>1 DEF Resume
  <2>4. [outcome |-> "not_found", reason |-> Null] \in AnswerType
    BY DEF AnswerType
  <2>5. /\ m \in CallType /\ m.at = "answered"
        /\ m.answer = [outcome |-> "not_found", reason |-> Null]
        /\ m.began = j.began /\ m.tool = j.tool /\ m.facts = j.facts
    BY <2>2, <2>3, <2>4, AnsweredFields
  <2>6. Closed(m)
    BY <1>3, <2>5, NullIsNoReason DEF Closed, AnsweredNotFound
  <2> QED BY <1>0, <1>1, <2>2, <2>5, <2>6 DEF Proper
<1>4. CASE /\ k.subject = TheCitation
           /\ reply.kind = "found" /\ reply \in ReplyType /\ reply.found = "cluster"
           /\ Witnessed(TheCitation, "cluster", reply.at, reply.freshness)
  <2>0. reply \in Evidence
    BY <1>4 DEF ReplyType, Evidence
  <2>1. PICK j : j = [k EXCEPT !.cited = reply]
    OBVIOUS
  <2>2. /\ j \in CallType /\ j.began = k.began /\ j.tool = k.tool /\ j.facts = k.facts
        /\ j.cited = reply /\ j.required = k.required /\ j.searched = k.searched
    BY <1>0, <2>0, <2>1 DEF CallType
  <2>3. CASE k.tool = "verify_citation"
    <3>1. m = Answered(j, "verified", Null)
      BY <1>1, <1>4, <2>1, <2>3 DEF Resume
    <3>2. [outcome |-> "verified", reason |-> Null] \in AnswerType
      BY DEF AnswerType
    <3>3. /\ m \in CallType /\ m.at = "answered"
          /\ m.answer = [outcome |-> "verified", reason |-> Null]
          /\ m.began = j.began /\ m.tool = j.tool /\ m.facts = j.facts /\ m.cited = j.cited
      BY <2>2, <3>1, <3>2, AnsweredFields
    <3>4. AnsweredVerified(m)
      BY <1>4, <2>2, <2>3, <3>3 DEF AnsweredVerified
    <3>5. Closed(m)
      BY <3>3, <3>4, NullIsNoReason DEF Closed
    <3> QED BY <1>0, <1>1, <2>2, <3>3, <3>5 DEF Proper
  <2>4. CASE k.tool # "verify_citation"
    <3>1. m = Seek(j, TheCluster)
      BY <1>1, <1>4, <2>1, <2>4 DEF Resume
    <3>0. TheCluster \in Subject /\ j \in CallType
      BY <2>2, Subjects
    <3>2. m \in CallType /\ m.at = "asking" /\ m.subject = TheCluster
      <4>1. m \in CallType
        BY <3>0, <3>1, SeekFields
      <4>2. m.subject = TheCluster
        BY <3>0, <3>1, SeekFields
      <4>3. m.at = "asking"
        BY <3>0, <3>1, SeekFields
      <4> QED BY <4>1, <4>2, <4>3
    <3>a. m.began = j.began /\ m.tool = j.tool /\ m.cited = j.cited /\ m.facts = j.facts
      BY <3>0, <3>1, SeekFields
    <3>b. m.required = j.required /\ m.searched = j.searched
      BY <3>0, <3>1, SeekFields
    <3>5. m.retained = Null /\ m.fallback = Null
      BY <3>0, <3>1, SeekFields
    <3>3. m.began = k.began /\ m.tool = k.tool /\ m.cited = reply /\ m.facts = k.facts
      BY <2>2, <3>a
    <3>4. m.required = k.required /\ m.searched = k.searched
      BY <2>2, <3>b
    <3>6. k.tool = "verify_quote"
      BY <1>0, <2>4 DEF CallType
    <3>7. k.required = {} /\ k.searched = {}
      BY <1>4, Subjects DEF LookupOK
    <3>8. CitedWitnessed(m) /\ SearchWitnessed(m) /\ KeptSeen(m)
      BY <1>4, <2>0, <3>3, <3>4, <3>5, <3>7 DEF CitedWitnessed, SearchWitnessed, KeptSeen
    <3>9. LookupOK(m)
      BY <1>0, <3>2, <3>3, <3>4, <3>6, <3>7, <3>8, Subjects DEF LookupOK
    <3> QED BY <1>0, <1>1, <3>2, <3>3, <3>9 DEF Proper, Open
  <2> QED BY <2>3, <2>4
<1>5. CASE /\ k.subject \in Opinion
           /\ reply.kind = "found" /\ reply \in ReplyType /\ reply.found \in Text
           /\ Witnessed(k.subject, reply.found, reply.at, reply.freshness)
  <2>1. m = Searched(k, reply)
    BY <1>1, <1>5, Subjects DEF Resume
  <2> QED BY <1>1, <1>5, <2>1, SearchedGood
<1>6. CASE /\ k.subject = TheCluster
           /\ reply.kind = "listing" /\ reply.opinions \subseteq Opinion /\ Listed(reply.opinions)
  <2>1. CASE reply.opinions = {}
    <3>1. m = Undecided(k, "source_text_unavailable")
      BY <1>1, <1>6, <2>1 DEF Resume
    <3>2. "source_text_unavailable" \in Reason /\ Explains(k.facts, "source_text_unavailable")
      BY DEF Reason, Explains
    <3> QED BY <1>1, <3>1, <3>2, UndecidedGood
  <2>2. CASE reply.opinions # {}
    <3>1. PICK j : j = [k EXCEPT !.required = reply.opinions]
      OBVIOUS
    <3>2. /\ j \in CallType /\ j.began = k.began /\ j.tool = k.tool /\ j.facts = k.facts
          /\ j.cited = k.cited /\ j.required = reply.opinions /\ j.searched = k.searched
      BY <1>0, <1>6, <3>1 DEF CallType
    <3>3. m = Search(j)
      BY <1>1, <1>6, <2>2, <3>1 DEF Resume
    <3>4. k.searched = {} /\ k.tool = "verify_quote" /\ CitedWitnessed(k)
      BY <1>6, Subjects DEF LookupOK
    <3>5. Proper(j) /\ CitedWitnessed(j) /\ SearchWitnessed(j)
      BY <1>0, <1>6, <3>2, <3>4 DEF Proper, CitedWitnessed, SearchWitnessed
    <3> QED BY <1>1, <2>2, <3>2, <3>3, <3>4, <3>5, SearchGood
  <2> QED BY <2>1, <2>2
<1> QED BY <1>2, <1>3, <1>4, <1>5, <1>6 DEF ReplyOK

(***************************************************************************)
(* What a call that has no other answer says of CourtListener, and what    *)
(* it says of a contradiction.                                             *)
(***************************************************************************)

Blamed == {"timeout", "rate_limited", "quota_unknown", "circuit_open"}

\* The cache has no evidence from before the call.
NoOlder(k, r) ==
    k.subject \in Cached /\ r[k.subject].kind = "positive" =>
        r[k.subject].positive.retrievedAt >= k.began

\* Telemetry knows of a contradiction that was kept.
KnownDoubts(k) ==
    \A kept \in {k.retained, k.fallback} :
        kept # Null /\ kept.kind # "positive" => k.facts.cache = "source_changed"

\* Telemetry knows of a contradiction that an absence would not change.
KnownPending(k, r) ==
    k.subject \in Opinion /\ r[k.subject].kind = "reversal_pending" =>
        k.facts.cache = "source_changed"

\* A call that may ask CourtListener, or go without it.
Apt(k) ==
    /\ k.fallback = Null => NoOlder(k, records)
    /\ KnownDoubts(k) /\ KnownPending(k, records)

Steady(k, r) ==
    /\ k.at \in {"leasing", "asking", "syncing", "sending"} /\ k.fallback = Null => NoOlder(k, r)
    /\ KnownDoubts(k)
    /\ k.at \in {"asking", "syncing", "sending", "filling"} => KnownPending(k, r)
    /\ k.at = "answered" /\ k.answer.reason \in Blamed => NoOlder(k, r)

\* What is answered of a contradiction is known to telemetry.
Reported(k, r) ==
    /\ k.at = "answered" /\ k.answer.reason = "source_changed"
    /\ ~(call.subject \in Opinion /\ r # records)
    => k.facts.cache = "source_changed"

\* What a step of a call keeps.
GoodStep == CallTypeOK' /\ CallInv' /\ OutageInv' /\ Reported(call', records')

LEMMA OutageParts == OutageInv <=> Steady(call, records)
<1>1. OutageInv => Steady(call, records)
  BY DEF OutageInv, NothingWasThere, DoubtsReported, EvidenceOutlivesOutage, Steady, NoOlder,
     KnownDoubts, KnownPending, Blamed
<1>2. ASSUME Steady(call, records) PROVE NothingWasThere /\ EvidenceOutlivesOutage
  BY <1>2 DEF NothingWasThere, EvidenceOutlivesOutage, Steady, NoOlder, Blamed
<1>3. ASSUME Steady(call, records) PROVE DoubtsReported
  BY <1>3 DEF DoubtsReported, Steady, KnownDoubts, KnownPending
<1> QED BY <1>1, <1>2, <1>3 DEF OutageInv

LEMMA OutagePartsAfter ==
    ASSUME NEW k, NEW r, call' = k, records' = r, Steady(k, r)
    PROVE  OutageInv'
<1>1. NothingWasThere' /\ EvidenceOutlivesOutage'
  BY DEF NothingWasThere, EvidenceOutlivesOutage, Steady, NoOlder, Blamed
<1>2. DoubtsReported'
  BY DEF DoubtsReported, Steady, KnownDoubts, KnownPending
<1> QED BY <1>1, <1>2 DEF OutageInv

\* What a call may make of a reply: m comes of k.
Follows(k, m, reply) ==
    /\ m.facts = k.facts /\ m.began = k.began /\ m.retained = Null /\ m.fallback = Null
    /\ m.at \in {"answered", "looking", "asking"}
    /\ m.at = "asking" => m.subject = TheCluster
    /\ m.at = "answered" /\ m.answer.reason \in Blamed \cup {"source_changed"} =>
           /\ m.subject = k.subject
           /\ reply.kind = "indeterminate" /\ reply.reason = m.answer.reason

LEMMA UndecidedFollows ==
    ASSUME NEW k \in CallType, NEW reason \in Reason, NEW reply,
           reason \in Blamed \cup {"source_changed"} =>
               reply.kind = "indeterminate" /\ reply.reason = reason
    PROVE  Follows(k, Undecided(k, reason), reply)
<1>1. PICK m : m = Answered(k, "indeterminate", reason)
  OBVIOUS
<1>2. [outcome |-> "indeterminate", reason |-> reason] \in AnswerType
  BY DEF AnswerType
<1>3. /\ m.at = "answered" /\ m.answer = [outcome |-> "indeterminate", reason |-> reason]
      /\ m.began = k.began /\ m.facts = k.facts
      /\ m.subject = k.subject /\ m.retained = Null /\ m.fallback = Null
  BY <1>1, <1>2, AnsweredFields
<1>4. Follows(k, m, reply)
  BY <1>3 DEF Follows
<1> QED BY <1>1, <1>4 DEF Undecided

LEMMA DecidedFollows ==
    ASSUME NEW k \in CallType, NEW outcome \in {"verified", "not_found"}, NEW reply
    PROVE  Follows(k, Answered(k, outcome, Null), reply)
<1>1. PICK m : m = Answered(k, outcome, Null)
  OBVIOUS
<1>2. [outcome |-> outcome, reason |-> Null] \in AnswerType
  BY DEF AnswerType
<1>3. /\ m.at = "answered" /\ m.answer = [outcome |-> outcome, reason |-> Null]
      /\ m.began = k.began /\ m.facts = k.facts
      /\ m.subject = k.subject /\ m.retained = Null /\ m.fallback = Null
  BY <1>1, <1>2, AnsweredFields
<1>4. Null \notin Blamed \cup {"source_changed"}
  BY NullIsNoReason DEF Blamed, Reason
<1>5. Follows(k, m, reply)
  BY <1>3, <1>4 DEF Follows
<1> QED BY <1>1, <1>5

LEMMA SeekFollows ==
    ASSUME NEW k \in CallType, NEW subject \in Subject, NEW reply
    PROVE  Follows(k, Seek(k, subject), reply)
<1>1. PICK m : m = Seek(k, subject)
  OBVIOUS
<1>2. /\ subject = TheCluster => m.at = "asking"
      /\ subject # TheCluster => m.at = "looking"
      /\ m.subject = subject
  BY <1>1, SeekFields
<1>3. m.retained = Null /\ m.fallback = Null /\ m.began = k.began /\ m.facts = k.facts
  BY <1>1, SeekFields
<1> QED BY <1>1, <1>2, <1>3 DEF Follows

\* The same of a call that has noted what was replied.
LEMMA NotedFollows ==
    ASSUME NEW k, NEW j, NEW m, NEW reply, Follows(j, m, reply),
           j.facts = k.facts, j.began = k.began, j.subject = k.subject
    PROVE  Follows(k, m, reply)
BY DEF Follows

LEMMA SearchFollows ==
    ASSUME NEW k \in CallType, NEW reply
    PROVE  Follows(k, Search(k), reply)
<1>1. PICK m : m = Search(k)
  OBVIOUS
<1>2. CASE Remaining(k) # {}
  <2>1. PICK o : o = NextOpinion(k) /\ o \in k.required
    BY <1>2 DEF NextOpinion, Remaining
  <2>2. o \in Subject
    BY <2>1, Subjects DEF CallType
  <2>3. m = Seek(k, o)
    BY <1>1, <1>2, <2>1 DEF Search
  <2> QED BY <1>1, <2>2, <2>3, SeekFollows
<1>3. CASE Remaining(k) = {} /\ \E opinion \in k.searched : opinion.freshness = "stale"
  <2>1. m = Undecided(k, "incomplete")
    BY <1>1, <1>3 DEF Search
  <2>2. "incomplete" \in Reason /\ "incomplete" \notin Blamed \cup {"source_changed"}
    BY DEF Reason, Blamed
  <2> QED BY <1>1, <2>1, <2>2, UndecidedFollows
<1>4. CASE Remaining(k) = {} /\ ~\E opinion \in k.searched : opinion.freshness = "stale"
  <2>1. m = Answered(k, "not_found", Null)
    BY <1>1, <1>4 DEF Search
  <2> QED BY <1>1, <2>1, DecidedFollows
<1> QED BY <1>2, <1>3, <1>4

LEMMA ResumeFollows ==
    ASSUME NEW k \in CallType, NEW reply, ReplyOK(k, reply)
    PROVE  Follows(k, Resume(k, reply), reply)
<1>1. PICK m : m = Resume(k, reply)
  OBVIOUS
<1>a. /\ "source_text_unavailable" \in Reason
      /\ "source_text_unavailable" \notin Blamed \cup {"source_changed"}
  BY DEF Reason, Blamed
<1>2. CASE reply.kind = "indeterminate" /\ reply.reason \in Reason
  <2>1. PICK reason \in Reason : reason = reply.reason
    BY <1>2
  <2>2. m = Undecided(k, reason)
    BY <1>1, <1>2, <2>1 DEF Resume
  <2> QED BY <1>1, <1>2, <2>1, <2>2, UndecidedFollows
<1>3. CASE /\ k.subject = TheCitation
           /\ \/ reply \in [kind : {"absent"}, at : 0 .. MaxClock]
              \/ reply \in ReplyType /\ reply.found = "cluster"
  <2>1. PICK j : j = [k EXCEPT !.cited = reply]
    OBVIOUS
  <2>2. reply \in [kind : {"absent"}, at : 0 .. MaxClock] \cup Evidence
    BY <1>3 DEF ReplyType, Evidence
  <2>3. j \in CallType /\ j.began = k.began /\ j.facts = k.facts /\ j.subject = k.subject
    BY <2>1, <2>2 DEF CallType
  <2>4. \/ \E outcome \in {"verified", "not_found"} : m = Answered(j, outcome, Null)
        \/ m = Seek(j, TheCluster)
    BY <1>1, <1>3, <2>1 DEF Resume, ReplyType
  <2>5. Follows(j, m, reply)
    <3>1. TheCluster \in Subject
      BY Subjects
    <3> QED BY <2>3, <2>4, <3>1, DecidedFollows, SeekFollows
  <2> QED BY <1>1, <2>3, <2>5, NotedFollows
<1>4. CASE k.subject \in Opinion /\ reply \in ReplyType /\ reply.found \in Text
  <2>1. m = Searched(k, reply)
    BY <1>1, <1>4, Subjects DEF Resume, ReplyType
  <2>2. PICK opinion : opinion = [id |-> k.subject, text |-> reply.found, at |-> reply.at,
                                  freshness |-> reply.freshness]
    OBVIOUS
  <2>3. PICK j : j = [k EXCEPT !.searched = @ \cup {opinion}]
    OBVIOUS
  <2>4. CASE reply.found = "blank"
    <3>1. m = Undecided(k, "source_text_unavailable")
      BY <2>1, <2>2, <2>4 DEF Searched
    <3> QED BY <1>1, <1>a, <3>1, UndecidedFollows
  <2>5. ASSUME reply.found # "blank"
        PROVE  /\ j \in CallType
               /\ j.began = k.began /\ j.facts = k.facts /\ j.subject = k.subject
    <3>1. opinion \in SearchedOpinion
      BY <1>4, <2>2, <2>5 DEF SearchedOpinion, ReplyType, Text
    <3>2. k.searched \cup {opinion} \in SUBSET SearchedOpinion
      BY <3>1 DEF CallType
    <3> QED BY <2>3, <3>2 DEF CallType
  <2>6. CASE reply.found = "match"
    <3>1. m = Answered(j, "verified", Null)
      BY <2>1, <2>2, <2>3, <2>6 DEF Searched
    <3>2. Follows(j, m, reply)
      BY <2>5, <2>6, <3>1, DecidedFollows
    <3> QED BY <1>1, <2>5, <2>6, <3>2, NotedFollows
  <2>7. CASE reply.found = "other"
    <3>1. m = Search(j)
      BY <2>1, <2>2, <2>3, <2>7 DEF Searched
    <3>2. Follows(j, m, reply)
      BY <2>5, <2>7, <3>1, SearchFollows
    <3> QED BY <1>1, <2>5, <2>7, <3>2, NotedFollows
  <2> QED BY <1>4, <2>4, <2>6, <2>7 DEF Text
<1>5. CASE reply.kind = "listing" /\ reply.opinions \subseteq Opinion
  <2>1. CASE reply.opinions = {}
    <3>1. m = Undecided(k, "source_text_unavailable")
      BY <1>1, <1>5, <2>1 DEF Resume
    <3> QED BY <1>1, <1>a, <3>1, UndecidedFollows
  <2>2. CASE reply.opinions # {}
    <3>1. PICK j : j = [k EXCEPT !.required = reply.opinions]
      OBVIOUS
    <3>2. j \in CallType /\ j.began = k.began /\ j.facts = k.facts /\ j.subject = k.subject
      BY <1>5, <3>1 DEF CallType
    <3>3. m = Search(j)
      BY <1>1, <1>5, <2>2, <3>1 DEF Resume
    <3>4. Follows(j, m, reply)
      BY <3>2, <3>3, SearchFollows
    <3> QED BY <1>1, <3>2, <3>4, NotedFollows
  <2> QED BY <2>1, <2>2
<1> QED BY <1>2, <1>3, <1>4, <1>5 DEF ReplyOK

\* What follows from a reply blames nobody for what the cache knew, and reports the
\* contradiction that it answers, if the reply did.
LEMMA FollowsSteady ==
    ASSUME NEW k, NEW m, NEW reply, Follows(k, m, reply), NEW r,
           reply.kind = "indeterminate" /\ reply.reason \in Blamed => NoOlder(k, r),
           reply.kind = "indeterminate" /\ reply.reason = "source_changed" =>
               k.facts.cache = "source_changed" \/ (call.subject \in Opinion /\ r # records)
    PROVE  Steady(m, r) /\ Reported(m, r)
<1>1. /\ m.facts = k.facts /\ m.began = k.began /\ m.retained = Null /\ m.fallback = Null
      /\ m.at \in {"answered", "looking", "asking"}
      /\ m.at = "asking" => m.subject = TheCluster
  BY DEF Follows
<1>2. KnownDoubts(m)
  BY <1>1 DEF KnownDoubts
<1>3. ASSUME m.at # "answered" PROVE Steady(m, r) /\ Reported(m, r)
  <2>1. m.at = "asking" => NoOlder(m, r) /\ KnownPending(m, r)
    BY <1>1, Subjects DEF NoOlder, KnownPending
  <2> QED BY <1>1, <1>2, <1>3, <2>1 DEF Steady, Reported
<1>4. ASSUME m.at = "answered" PROVE Steady(m, r) /\ Reported(m, r)
  <2>1. m.answer.reason \in Blamed => NoOlder(m, r)
    BY <1>1, <1>4 DEF Follows, NoOlder
  <2>2. Reported(m, r)
    BY <1>1, <1>4 DEF Follows, Reported
  <2> QED BY <1>1, <1>2, <1>4, <2>1, <2>2 DEF Steady
<1> QED BY <1>3, <1>4

(***************************************************************************)
(* What the caches reply.                                                  *)
(***************************************************************************)

TimeOK == clock \in 0 .. MaxClock /\ call.began \in 0 .. MaxClock /\ call.began <= clock

LEMMA DecideFacts ==
    ASSUME NEW s \in Cache!SourceState, NEW now \in Int
    PROVE  /\ Decide(s, now) \in Decision
           /\ Decide(s, now) = "fresh" => /\ s.kind = "positive"
                                          /\ now - s.positive.retrievedAt < PositiveFreshness
           /\ Decide(s, now) = "stale" => s.kind = "positive"
           /\ Decide(s, now) = "absent" => /\ s.kind = "negative"
                                           /\ now - s.negative < NegativeFreshness
           /\ s.kind = "positive" => Decide(s, now) \in {"fresh", "stale"}
           /\ s.kind = "empty" => Decide(s, now) = "nothing"
           /\ s.kind = "negative" => Decide(s, now) \in {"absent", "nothing"}
           /\ s.kind = "reversal_pending" => Decide(s, now) = "source_changed"
<1>1. s.kind \in {"positive", "negative", "empty", "reversal_pending"}
  BY DEF Cache!SourceState
<1>2. CASE s.kind = "positive"
  BY <1>2 DEF Decide, Decision, Cache!IsFresh
<1>3. CASE s.kind = "negative"
  BY <1>3 DEF Decide, Decision, Cache!IsFresh, Cache!StaleNegative
<1>4. CASE s.kind \in {"empty", "reversal_pending"}
  BY <1>4 DEF Decide, Decision
<1> QED BY <1>1, <1>2, <1>3, <1>4

\* What a positive says, at the time it has it.
LEMMA FoundOK ==
    ASSUME TimeOK, NEW k, k.subject \in Cached, NEW s \in Cache!SourceState,
           s.kind = "positive", StateSeen(k.subject, s), NEW freshness \in {"fresh", "stale"},
           freshness = "fresh" => clock - s.positive.retrievedAt < PositiveFreshness
    PROVE  ReplyOK(k, Found(s.positive, freshness))
<1>1. PICK p : p = s.positive
  OBVIOUS
<1>2. /\ p.cluster \in IF k.subject = TheCitation THEN {"cluster"} ELSE Text
      /\ p.retrievedAt \in 0 .. clock /\ <<p.retrievedAt, k.subject, p.cluster>> \in was
  BY <1>1 DEF StateSeen, PositiveSeen
<1>3. PICK reply : reply = Found(p, freshness)
  OBVIOUS
<1>4. /\ reply.kind = "found" /\ reply.found = p.cluster /\ reply.at = p.retrievedAt
      /\ reply.freshness = freshness
  BY <1>3 DEF Found
<1>5. p.retrievedAt \in 0 .. MaxClock
  BY <1>2 DEF TimeOK
<1>6. reply \in ReplyType
  BY <1>2, <1>3, <1>5 DEF Found, ReplyType
<1>7. freshness = "fresh" => p.retrievedAt \in Lately(PositiveFreshness)
  BY <1>1, <1>2, <1>5 DEF Lately, TimeOK
<1>8. Witnessed(k.subject, reply.found, reply.at, reply.freshness)
  BY <1>2, <1>4, <1>7 DEF Witnessed
<1>9. k.subject = TheCitation \/ k.subject \in Opinion
  BY DEF Cached
<1>10. ReplyOK(k, reply)
  BY <1>2, <1>4, <1>6, <1>8, <1>9, Subjects DEF ReplyOK
<1> QED BY <1>1, <1>3, <1>10

LEMMA IndeterminateOK ==
    ASSUME NEW k, NEW reason \in Reason, Explains(k.facts, reason)
    PROVE  ReplyOK(k, Indeterminate(reason))
<1>1. PICK reply : reply = Indeterminate(reason)
  OBVIOUS
<1>2. reply.kind = "indeterminate" /\ reply.reason = reason
  BY <1>1 DEF Indeterminate
<1> QED BY <1>1, <1>2 DEF ReplyOK

LEMMA RecordReplyOK ==
    ASSUME TimeOK, NEW k, k.subject \in Cached, NEW s \in Cache!SourceState,
           StateSeen(k.subject, s)
    PROVE  ReplyOK(k, RecordReply(k.subject, s, clock))
<1>0. clock \in Int
  BY DEF TimeOK
<1>1. PICK d \in Decision : d = Decide(s, clock)
  BY <1>0, DecideFacts
<1>2. PICK reply : reply = RecordReply(k.subject, s, clock)
  OBVIOUS
<1>3. CASE d \in {"fresh", "stale"}
  <2>1. reply = Found(s.positive, d)
    BY <1>1, <1>2, <1>3 DEF RecordReply
  <2>2. s.kind = "positive" /\ (d = "fresh" => clock - s.positive.retrievedAt < PositiveFreshness)
    BY <1>0, <1>1, <1>3, DecideFacts
  <2> QED BY <1>2, <1>3, <2>1, <2>2, FoundOK
<1>4. CASE d = "absent"
  <2>1. s.kind = "negative" /\ clock - s.negative < NegativeFreshness
    BY <1>0, <1>1, <1>4, DecideFacts
  <2>2. CASE k.subject = TheCitation
    <3>1. reply = NotThere(s.negative)
      BY <1>1, <1>2, <1>4, <2>2 DEF RecordReply
    <3>2. s.negative \in 0 .. clock /\ <<s.negative, TheCitation, Absent>> \in was
      BY <2>1, <2>2 DEF StateSeen, AbsenceSeen
    <3>3. s.negative \in 0 .. MaxClock /\ s.negative \in Lately(NegativeFreshness)
      BY <2>1, <3>2 DEF TimeOK, Lately
    <3>4. /\ reply.kind = "absent" /\ reply.at = s.negative
          /\ reply \in [kind : {"absent"}, at : 0 .. MaxClock]
      BY <3>1, <3>3 DEF NotThere
    <3>5. ReplyOK(k, reply)
      BY <2>2, <3>2, <3>3, <3>4 DEF ReplyOK
    <3> QED BY <1>2, <3>5
  <2>3. CASE k.subject # TheCitation
    <3>1. reply = Indeterminate("incomplete")
      BY <1>1, <1>2, <1>4, <2>3 DEF RecordReply
    <3>2. "incomplete" \in Reason /\ Explains(k.facts, "incomplete")
      BY DEF Reason, Explains
    <3> QED BY <1>2, <3>1, <3>2, IndeterminateOK
  <2> QED BY <2>2, <2>3
<1>5. CASE d = "source_changed"
  <2>1. reply = Indeterminate("source_changed")
    BY <1>1, <1>2, <1>5 DEF RecordReply
  <2>2. "source_changed" \in Reason /\ Explains(k.facts, "source_changed")
    BY DEF Reason, Explains
  <2> QED BY <1>2, <2>1, <2>2, IndeterminateOK
<1>6. CASE d = "nothing"
  <2>1. reply = Indeterminate("upstream_unavailable")
    BY <1>1, <1>2, <1>6 DEF RecordReply
  <2>2. "upstream_unavailable" \in Reason /\ Explains(k.facts, "upstream_unavailable")
    BY DEF Reason, Explains
  <2> QED BY <1>2, <2>1, <2>2, IndeterminateOK
<1> QED BY <1>3, <1>4, <1>5, <1>6 DEF Decision

\* What a cache leaves open it blames on nobody, and a contradiction it decided.
LEMMA RecordReplyReasons ==
    ASSUME NEW subject, NEW s \in Cache!SourceState, NEW now \in Int,
           RecordReply(subject, s, now).kind = "indeterminate"
    PROVE  LET reason == RecordReply(subject, s, now).reason IN
           /\ reason \notin Blamed
           /\ reason = "source_changed" => s.kind = "reversal_pending"
<1>1. PICK d \in Decision : d = Decide(s, now)
  BY DecideFacts
<1>2. PICK reply : reply = RecordReply(subject, s, now)
  OBVIOUS
<1>3. reply.kind = "indeterminate"
  BY <1>2
<1>4. CASE d \in {"fresh", "stale"}
  <2>1. reply = Found(s.positive, d)
    BY <1>1, <1>2, <1>4 DEF RecordReply
  <2> QED BY <1>3, <2>1 DEF Found
<1>5. CASE d = "absent"
  <2>1. reply = NotThere(s.negative) \/ reply = Indeterminate("incomplete")
    BY <1>1, <1>2, <1>5 DEF RecordReply
  <2>2. reply.reason = "incomplete"
    BY <1>3, <2>1 DEF NotThere, Indeterminate
  <2> QED BY <1>2, <2>2 DEF Blamed
<1>6. CASE d = "source_changed"
  <2>1. s.kind = "reversal_pending"
    BY <1>1, <1>6, DecideFacts DEF Cache!SourceState
  <2>2. reply.reason = "source_changed"
    BY <1>1, <1>2, <1>6 DEF RecordReply, Indeterminate
  <2> QED BY <1>2, <2>1, <2>2 DEF Blamed
<1>7. CASE d = "nothing"
  <2>1. reply.reason = "upstream_unavailable"
    BY <1>1, <1>2, <1>7 DEF RecordReply, Indeterminate
  <2> QED BY <1>2, <2>1 DEF Blamed
<1> QED BY <1>1, <1>4, <1>5, <1>6, <1>7 DEF Decision

LEMMA FallbackReasons ==
    ASSUME NEW kept, NEW reason, NEW reply, reply = Fallback(kept, reason),
           reply.kind = "indeterminate"
    PROVE  \/ kept = Null /\ reply.reason = reason
           \/ kept # Null /\ kept.kind # "positive" /\ reply.reason = "source_changed"
BY DEF Fallback, Found, Indeterminate

\* What was kept answers with its own time, or a failure is explained.
LEMMA FallbackOK ==
    ASSUME TimeOK, NEW k, NEW kept \in Cache!SourceState \cup {Null},
           kept # Null => k.subject \in Cached /\ StateSeen(k.subject, kept),
           NEW reason \in Reason, Explains(k.facts, reason)
    PROVE  ReplyOK(k, Fallback(kept, reason))
<1>1. PICK reply : reply = Fallback(kept, reason)
  OBVIOUS
<1>2. CASE kept = Null
  <2>1. reply = Indeterminate(reason)
    BY <1>1, <1>2 DEF Fallback
  <2> QED BY <1>1, <2>1, IndeterminateOK
<1>3. CASE kept # Null /\ kept.kind = "positive"
  <2>1. reply = Found(kept.positive, "stale")
    BY <1>1, <1>3 DEF Fallback
  <2>2. kept \in Cache!SourceState /\ k.subject \in Cached /\ StateSeen(k.subject, kept)
    BY <1>3
  <2>3. ReplyOK(k, Found(kept.positive, "stale"))
    BY <1>3, <2>2, FoundOK
  <2> QED BY <1>1, <2>1, <2>3
<1>4. CASE kept # Null /\ kept.kind # "positive"
  <2>1. reply = Indeterminate("source_changed")
    BY <1>1, <1>4 DEF Fallback
  <2>2. "source_changed" \in Reason /\ Explains(k.facts, "source_changed")
    BY DEF Reason, Explains
  <2> QED BY <1>1, <2>1, <2>2, IndeterminateOK
<1> QED BY <1>2, <1>3, <1>4

(***************************************************************************)
(* What is stored, and what is kept.                                       *)
(***************************************************************************)

\* The observations that there may be of a subject.
Observable(subject) ==
    (IF subject = TheCitation THEN {"cluster"} ELSE Text) \cup {Absent}

LEMMA ObservedSeen ==
    ASSUME TimeOK, NEW subject \in Cached, NEW s \in Cache!SourceState, StateSeen(subject, s),
           NEW observation \in Observable(subject), <<clock, subject, observation>> \in was
    PROVE  LET r == Cache!RecordObservation(s, observation, clock) IN
           r \in Cache!SourceState /\ StateSeen(subject, r)
<1>1. PICK r : r = Cache!RecordObservation(s, observation, clock)
  OBVIOUS
<1>2. PICK now \in 0 .. MaxClock : now = clock
  BY DEF TimeOK
<1>3. CASE observation # Absent
  <2>1. PICK p : p = [cluster |-> observation, retrievedAt |-> now]
    OBVIOUS
  <2>2. r = [kind |-> "positive", positive |-> p]
    BY <1>1, <1>2, <1>3, <2>1 DEF Cache!RecordObservation, Cache!PositiveState
  <2>3. p \in Cache!Positive
    BY <1>3, <2>1 DEF Cache!Positive, Observable
  <2>4. r \in Cache!SourceState
    BY <2>2, <2>3 DEF Cache!SourceState
  <2>5. PositiveSeen(subject, p)
    BY <1>2, <1>3, <2>1 DEF PositiveSeen, Observable
  <2> QED BY <1>1, <2>2, <2>4, <2>5 DEF StateSeen
<1>4. CASE observation = Absent
  <2>1. AbsenceSeen(subject, now)
    BY <1>2, <1>4 DEF AbsenceSeen
  <2>2. ASSUME NEW kept \in Cache!Positive \cup {Null}, kept # Null => PositiveSeen(subject, kept),
               r = Cache!NegativeState(now, kept)
        PROVE  r \in Cache!SourceState /\ StateSeen(subject, r)
    <3>1. r = [kind |-> "negative", negative |-> now, superseded |-> kept]
      BY <2>2 DEF Cache!NegativeState
    <3>2. r \in Cache!SourceState
      BY <3>1 DEF Cache!SourceState
    <3> QED BY <2>1, <2>2, <3>1, <3>2 DEF StateSeen
  <2>3. CASE s.kind = "empty"
    <3>1. r = Cache!NegativeState(now, Null)
      BY <1>1, <1>2, <1>4, <2>3 DEF Cache!RecordObservation
    <3> QED BY <1>1, <2>2, <3>1
  <2>4. CASE s.kind = "positive"
    <3>1. PICK p \in Cache!Positive : p = s.positive /\ PositiveSeen(subject, p)
      BY <2>4 DEF StateSeen, Cache!SourceState
    <3>2. r = [kind |-> "reversal_pending", superseded |-> p, firstNegative |-> now]
      BY <1>1, <1>2, <1>4, <2>4, <3>1 DEF Cache!RecordObservation, Cache!ReversalPending
    <3>3. r \in Cache!SourceState
      BY <3>2 DEF Cache!SourceState
    <3> QED BY <1>1, <2>1, <3>1, <3>2, <3>3 DEF StateSeen
  <2>5. CASE s.kind = "negative"
    <3>1. PICK kept \in Cache!Positive \cup {Null} :
              kept = s.superseded /\ (kept # Null => PositiveSeen(subject, kept))
      BY <2>5 DEF StateSeen, Cache!SourceState
    <3>2. r = Cache!NegativeState(now, kept)
      BY <1>1, <1>2, <1>4, <2>5, <3>1 DEF Cache!RecordObservation
    <3> QED BY <1>1, <2>2, <3>1, <3>2
  <2>6. CASE s.kind = "reversal_pending"
    <3>1. PICK kept \in Cache!Positive : kept = s.superseded /\ PositiveSeen(subject, kept)
      BY <2>6 DEF StateSeen, Cache!SourceState
    <3>2. r = s \/ r = Cache!NegativeState(now, kept)
      BY <1>1, <1>2, <1>4, <2>6, <3>1 DEF Cache!RecordObservation
    <3> QED BY <1>1, <2>2, <3>1, <3>2
  <2> QED BY <2>3, <2>4, <2>5, <2>6 DEF Cache!SourceState
<1> QED BY <1>3, <1>4

LEMMA PurgedSeen ==
    ASSUME NEW subject \in Cached, NEW s \in Cache!SourceState, StateSeen(subject, s), NEW now
    PROVE  LET r == Cache!PurgeExpiredNegative(s, now) IN
           r \in Cache!SourceState /\ StateSeen(subject, r)
<1>1. PICK r : r = Cache!PurgeExpiredNegative(s, now)
  OBVIOUS
<1>2. CASE s.kind # "negative"
  <2>1. r = s
    BY <1>1, <1>2 DEF Cache!PurgeExpiredNegative, Cache!StaleNegative
  <2> QED BY <1>1, <2>1
<1>3. CASE s.kind = "negative"
  <2>1. PICK kept \in Cache!Positive \cup {Null} :
            kept = s.superseded /\ (kept # Null => PositiveSeen(subject, kept))
    BY <1>3 DEF StateSeen, Cache!SourceState
  <2>2. PICK at \in Int : at = s.negative /\ AbsenceSeen(subject, at)
    BY <1>3 DEF StateSeen, Cache!SourceState
  <2>3. \/ r = s
        \/ kept = Null /\ r = [kind |-> "empty"]
        \/ /\ kept # Null
           /\ r = [kind |-> "reversal_pending", superseded |-> kept, firstNegative |-> at]
    BY <1>1, <2>1, <2>2
       DEF Cache!PurgeExpiredNegative, Cache!Empty, Cache!ReversalPending
  <2>4. CASE kept = Null /\ r = [kind |-> "empty"]
    <3>1. r \in Cache!SourceState /\ StateSeen(subject, r)
      BY <2>4 DEF Cache!SourceState, StateSeen
    <3> QED BY <1>1, <3>1
  <2>5. CASE /\ kept # Null
             /\ r = [kind |-> "reversal_pending", superseded |-> kept, firstNegative |-> at]
    <3>1. r \in Cache!SourceState
      BY <2>1, <2>5 DEF Cache!SourceState
    <3>2. StateSeen(subject, r)
      BY <2>1, <2>2, <2>5 DEF StateSeen
    <3> QED BY <1>1, <3>1, <3>2
  <2> QED BY <1>1, <2>3, <2>4, <2>5
<1> QED BY <1>2, <1>3

LEMMA RetainedFacts ==
    ASSUME NEW subject, NEW s \in Cache!SourceState
    PROVE  /\ Retained(subject, s) \in {s, Null}
           /\ Retained(subject, s) = Null => s.kind # "positive"
           /\ Retained(subject, s) # Null => s.kind \in {"positive", "reversal_pending"}
BY VerificationAssumption DEF Retained

(***************************************************************************)
(* A step of the call.                                                     *)
(***************************************************************************)

\* The call becomes one that is proper, nothing else but the records changing.
LEMMA BecomesGood ==
    ASSUME CallTypeOK, CallInv, NEW k, Proper(k), Open(k) \/ Closed(k), call' = k,
           UNCHANGED Environment,
           NEW r \in [Cached -> Cache!SourceState], records' = r,
           \A subject \in Cached : StateSeen(subject, r[subject]),
           Steady(k, r), Reported(k, r)
    PROVE  GoodStep
<1>1. clock' = clock /\ source' = source /\ changes' = changes /\ bound' = bound /\ was' = was
  BY DEF Environment
<1>2. CallTypeOK'
  BY <1>1 DEF CallTypeOK, Proper
<1>3. RecordsSeen'
  <2>1. (Had(source, clock) \subseteq was)'
    BY <1>1 DEF CallInv, RecordsSeen, Had
  <2>2. ASSUME NEW subject \in Cached
        PROVE  StateSeen(subject, records[subject])'
    <3>1. StateSeen(subject, r[subject])
      OBVIOUS
    <3> QED BY <1>1, <3>1 DEF StateSeen, PositiveSeen, AbsenceSeen
  <2> QED BY <2>1, <2>2 DEF RecordsSeen
<1>4. k.began = call.began /\ k.tool # "none" /\ Timed(k.facts) /\ k \in CallType
  BY DEF Proper
<1>5. (call.at # "idle" => call.tool # "none")' /\ Timed(call.facts)'
  BY <1>4
<1>6. ASSUME Open(k) PROVE LookupOK(call)'
  <2>1. LookupOK(k)
    BY <1>6 DEF Open
  <2>2. LookupOK(k)'
    BY <1>1, <1>4, <2>1
       DEF LookupOK, CitedWitnessed, SearchWitnessed, KeptSeen, StateSeen, PositiveSeen,
           AbsenceSeen, Witnessed, Listed, Lately
  <2> QED BY <2>2
<1>7. (call.at \notin {"idle", "answered"} => LookupOK(call))'
  BY <1>6 DEF Closed
<1>8. (call.at = "answered" => Explains(call.facts, call.answer.reason))'
  BY DEF Open, Closed
<1>9. NotFoundIsComplete'
  <2>1. SUFFICES ASSUME k.at = "answered", k.answer.outcome = "not_found"
                 PROVE  NotFoundIsComplete'
    BY DEF NotFoundIsComplete, Answer
  <2>2. AnsweredNotFound(k)
    BY <2>1 DEF Open, Closed
  <2> QED BY <1>1, <1>4, <2>2 DEF NotFoundIsComplete, AnsweredNotFound, Lately
<1>10. VerifiedIsWitnessed'
  <2>1. SUFFICES ASSUME k.at = "answered", k.answer.outcome = "verified"
                 PROVE  VerifiedIsWitnessed'
    BY DEF VerifiedIsWitnessed, Answer
  <2>2. AnsweredVerified(k)
    BY <2>1 DEF Open, Closed
  <2> QED BY <1>1, <1>4, <2>2 DEF VerifiedIsWitnessed, AnsweredVerified, Witnessed, Listed, Lately
<1>11. CallInv'
  BY <1>3, <1>5, <1>7, <1>8, <1>9, <1>10 DEF CallInv
<1>12. OutageInv' /\ Reported(call', records')
  BY OutagePartsAfter
<1> QED BY <1>2, <1>11, <1>12 DEF GoodStep

LEMMA GoesOn ==
    ASSUME CallTypeOK, CallInv, NEW k, Proper(k), Open(k) \/ Closed(k), call' = k,
           Steady(k, records), Reported(k, records), UNCHANGED <<Environment, records>>
    PROVE  GoodStep
<1>1. PICK r \in [Cached -> Cache!SourceState] : r = records
  BY DEF CallTypeOK
<1>2. records' = r /\ UNCHANGED Environment
  BY <1>1
<1>3. \A subject \in Cached : StateSeen(subject, r[subject])
  BY <1>1 DEF CallInv, RecordsSeen
<1>4. Steady(k, r) /\ Reported(k, r)
  BY <1>1
<1> QED BY <1>2, <1>3, <1>4, BecomesGood

\* What holds while a call is under way.
LEMMA UnderWay ==
    ASSUME CallTypeOK, CallInv, call.at \notin {"idle", "answered"}
    PROVE  /\ TimeOK /\ Proper(call) /\ LookupOK(call) /\ call.subject \in Subject
           /\ call.facts \in ExecutionFacts
           /\ call.retained \in Cache!SourceState \cup {Null}
           /\ call.fallback \in Cache!SourceState \cup {Null}
           /\ \A subject \in Cached : /\ records[subject] \in Cache!SourceState
                                      /\ StateSeen(subject, records[subject])
           /\ OutageInv => KnownDoubts(call)
           /\ OutageInv /\ call.at \in {"asking", "syncing", "sending"} => Apt(call)
<1>1. call \in CallType /\ LookupOK(call) /\ call.tool # "none" /\ Timed(call.facts)
  BY DEF CallTypeOK, CallInv
<1>2. /\ call.began \in 0 .. MaxClock /\ call.subject \in Subject
      /\ call.facts \in ExecutionFacts
      /\ call.retained \in Cache!SourceState \cup {Null}
      /\ call.fallback \in Cache!SourceState \cup {Null}
  BY <1>1 DEF CallType
<1>3. TimeOK
  BY <1>1, <1>2 DEF TimeOK, CallTypeOK, LookupOK
<1>4. OutageInv => Steady(call, records)
  BY OutageParts
<1>5. OutageInv => KnownDoubts(call)
  BY <1>4 DEF Steady
<1>6. OutageInv /\ call.at \in {"asking", "syncing", "sending"} => Apt(call)
  BY <1>4 DEF Steady, Apt
<1> QED BY <1>1, <1>2, <1>3, <1>5, <1>6 DEF Proper, CallTypeOK, CallInv, RecordsSeen

\* Facts that leave the latency with the outcome.
Harmless(f, fact) ==
    \/ \E d \in Decision : fact = DecisionFact(d)
    \/ \E c \in CircuitStatus : fact = CircuitFact(c)
    \/ \E u \in UpstreamStatus :
           /\ fact = UpstreamFact(u)
           /\ u \in {"success", "timeout", "server_error", "malformed_response"} => f.timed
    \/ fact = AttemptFact

LEMMA ObservedTimed ==
    ASSUME NEW f \in ExecutionFacts, Timed(f), NEW fact, Harmless(f, fact)
    PROVE  Timed(Observe(f, fact)) /\ Observe(f, fact) \in ExecutionFacts
<1>0. Observe(f, fact) \in ExecutionFacts
  BY ObserveFacts DEF Harmless
<1>1. ASSUME NEW d \in Decision, fact = DecisionFact(d) PROVE Timed(Observe(f, fact))
  <2>1. PICK c, e : fact = CacheFact(c, e)
    BY <1>1 DEF DecisionFact, Decision
  <2>2. Observe(f, fact) = RecordCacheFact(f, fact)
    BY <2>1 DEF Observe, CacheFact
  <2>3. PICK g : g = RecordCacheFact(f, fact)
    OBVIOUS
  <2>4. g.upstream = f.upstream /\ g.timed = f.timed
    BY <2>3 DEF RecordCacheFact, ExecutionFacts
  <2> QED BY <2>2, <2>3, <2>4 DEF Timed
<1>2. ASSUME NEW c \in CircuitStatus, fact = CircuitFact(c) PROVE Timed(Observe(f, fact))
  <2>1. PICK g : g = Observe(f, fact)
    OBVIOUS
  <2>2. g.upstream = f.upstream /\ g.timed = f.timed
    BY <1>2, <2>1 DEF Observe, CircuitFact, ExecutionFacts
  <2> QED BY <2>1, <2>2 DEF Timed
<1>3. ASSUME NEW u \in UpstreamStatus, fact = UpstreamFact(u),
             u \in {"success", "timeout", "server_error", "malformed_response"} => f.timed
      PROVE  Timed(Observe(f, fact))
  <2>1. PICK g : g = Observe(f, fact)
    OBVIOUS
  <2>2. g.upstream = u /\ g.timed = f.timed
    BY <1>3, <2>1 DEF Observe, UpstreamFact, ExecutionFacts
  <2> QED BY <1>3, <2>1, <2>2 DEF Timed
<1>4. CASE fact = AttemptFact
  <2>1. PICK g : g = Observe(f, fact)
    OBVIOUS
  <2>2. g.timed
    BY <1>4, <2>1 DEF Observe, AttemptFact, ExecutionFacts
  <2>3. Timed(g)
    BY <2>2 DEF Timed
  <2> QED BY <1>0, <2>1, <2>3
<1> QED BY <1>0, <1>1, <1>2, <1>3, <1>4 DEF Harmless

\* A contradiction is never forgotten.
LEMMA CacheSticks ==
    ASSUME NEW f \in ExecutionFacts, NEW fact, Harmless(f, fact)
    PROVE  /\ f.cache = "source_changed" => Observe(f, fact).cache = "source_changed"
           /\ fact = DecisionFact("source_changed") => Observe(f, fact).cache = "source_changed"
<1>1. ASSUME NEW d \in Decision, fact = DecisionFact(d), 
             f.cache = "source_changed" \/ d = "source_changed"
      PROVE  Observe(f, fact).cache = "source_changed"
  <2>1. PICK c, e : fact = CacheFact(c, e) /\ (d = "source_changed" => c = "source_changed")
    BY <1>1 DEF DecisionFact, Decision
  <2>2. Observe(f, fact) = RecordCacheFact(f, fact)
    BY <2>1 DEF Observe, CacheFact
  <2>3. fact.status = c
    BY <2>1 DEF CacheFact
  <2>4. RecordCacheFact(f, fact).cache = "source_changed"
    BY <1>1, <2>1, <2>3 DEF RecordCacheFact, ExecutionFacts
  <2> QED BY <2>2, <2>4
<1>2. ASSUME ~\E d \in Decision : fact = DecisionFact(d)
      PROVE  Observe(f, fact).cache = f.cache
  <2>1. fact.kind \in {"circuit", "upstream", "upstream_latency"}
    BY <1>2 DEF Harmless, CircuitFact, UpstreamFact, AttemptFact
  <2> QED BY <2>1 DEF Observe, ExecutionFacts
<1>3. "source_changed" \in Decision
  BY DEF Decision
<1> QED BY <1>1, <1>2, <1>3

\* A call that has observed something is as before but for its facts.
LEMMA ToldGood ==
    ASSUME NEW k, Proper(k), LookupOK(k), NEW fact, Harmless(k.facts, fact)
    PROVE  LET m == Told(k, fact) IN
           /\ Proper(m) /\ LookupOK(m)
           /\ m.facts = Observe(k.facts, fact) /\ m.facts \in ExecutionFacts
           /\ m.subject = k.subject /\ m.retained = k.retained /\ m.fallback = k.fallback
           /\ m.at = k.at /\ m.fetched = k.fetched
           /\ k.facts.cache = "source_changed" \/ fact = DecisionFact("source_changed") =>
                  m.facts.cache = "source_changed"
           /\ KnownDoubts(k) => KnownDoubts(m)
           /\ Apt(k) => Apt(m)
<1>1. k \in CallType /\ k.facts \in ExecutionFacts /\ Timed(k.facts)
  BY DEF Proper, CallType
<1>2. Observe(k.facts, fact) \in ExecutionFacts /\ Timed(Observe(k.facts, fact))
  BY <1>1, ObservedTimed
<1>3. PICK m : m = Told(k, fact)
  OBVIOUS
<1>4. m \in CallType /\ m.facts = Observe(k.facts, fact)
  BY <1>1, <1>2, <1>3, ToldFields
<1>5. /\ m.began = k.began /\ m.subject = k.subject /\ m.tool = k.tool /\ m.cited = k.cited
      /\ m.required = k.required /\ m.searched = k.searched /\ m.retained = k.retained
      /\ m.fallback = k.fallback /\ m.at = k.at /\ m.fetched = k.fetched
  BY <1>1, <1>2, <1>3, ToldFields
<1>6. LookupOK(m)
  BY <1>5, LookupFields
<1>7. Proper(m)
  BY <1>2, <1>4, <1>5 DEF Proper
<1>8. k.facts.cache = "source_changed" \/ fact = DecisionFact("source_changed") =>
          m.facts.cache = "source_changed"
  BY <1>1, <1>4, CacheSticks
<1>9. KnownDoubts(k) => KnownDoubts(m)
  BY <1>5, <1>8 DEF KnownDoubts
<1>10. Apt(k) => Apt(m)
  BY <1>5, <1>8, <1>9 DEF Apt, NoOlder, KnownPending
<1> QED BY <1>2, <1>3, <1>4, <1>5, <1>6, <1>7, <1>8, <1>9, <1>10

LEMMA ToldDecision ==
    ASSUME NEW k, Proper(k), LookupOK(k), NEW d \in Decision
    PROVE  LET m == Told(k, DecisionFact(d)) IN
           /\ Proper(m) /\ LookupOK(m)
           /\ m.subject = k.subject /\ m.retained = k.retained /\ m.fallback = k.fallback
           /\ m.at = k.at /\ m.fetched = k.fetched
           /\ k.facts.cache = "source_changed" \/ d = "source_changed" =>
                  m.facts.cache = "source_changed"
           /\ KnownDoubts(k) => KnownDoubts(m)
<1>1. PICK fact : fact = DecisionFact(d)
  OBVIOUS
<1>2. Harmless(k.facts, fact)
  BY <1>1 DEF Harmless
<1>3. d = "source_changed" => fact = DecisionFact("source_changed")
  BY <1>1
<1> QED BY <1>1, <1>2, <1>3, ToldGood

\* The call answers, or asks for what is next, after a reply.
LEMMA ResumesGood ==
    ASSUME CallTypeOK, CallInv, TimeOK, NEW k, Proper(k), LookupOK(k),
           NEW reply, ReplyOK(k, reply), call' = Resume(k, reply),
           reply.kind = "indeterminate" /\ reply.reason \in Blamed => NoOlder(k, records),
           reply.kind = "indeterminate" /\ reply.reason = "source_changed" =>
               k.facts.cache = "source_changed",
           UNCHANGED <<Environment, records>>
    PROVE  GoodStep
<1>1. PICK m : m = Resume(k, reply)
  OBVIOUS
<1>2. Proper(m) /\ (Open(m) \/ Closed(m))
  BY <1>1, ResumeGood DEF TimeOK
<1>3. Follows(k, m, reply)
  BY <1>1, ResumeFollows DEF Proper
<1>4. Steady(m, records) /\ Reported(m, records)
  BY <1>3, FollowsSteady
<1> QED BY <1>1, <1>2, <1>4, GoesOn

\* A call that answers from the cache.
LEMMA AnswersFromCache ==
    ASSUME CallTypeOK, CallInv, TimeOK, NEW k, Proper(k), LookupOK(k), k.subject \in Cached,
           NEW s \in Cache!SourceState, StateSeen(k.subject, s),
           s.kind = "reversal_pending" => k.facts.cache = "source_changed",
           call' = Resume(k, RecordReply(k.subject, s, clock)),
           UNCHANGED <<Environment, records>>
    PROVE  GoodStep
<1>1. PICK reply : reply = RecordReply(k.subject, s, clock)
  OBVIOUS
<1>2. ReplyOK(k, reply)
  BY <1>1, RecordReplyOK
<1>3. clock \in Int
  BY DEF TimeOK
<1>4. reply.kind = "indeterminate" =>
          /\ reply.reason \notin Blamed
          /\ reply.reason = "source_changed" => k.facts.cache = "source_changed"
  BY <1>1, <1>3, RecordReplyReasons
<1> QED BY <1>1, <1>2, <1>4, ResumesGood

\* A call that answers from what it kept when the cache fails.
LEMMA AnswersFromKept ==
    ASSUME CallTypeOK, CallInv, TimeOK, NEW k, Proper(k), LookupOK(k), KnownDoubts(k),
           call' = Resume(k, Fallback(k.retained, "upstream_unavailable")),
           UNCHANGED <<Environment, records>>
    PROVE  GoodStep
<1>1. PICK kept \in Cache!SourceState \cup {Null} :
          kept = k.retained /\ (kept # Null => k.subject \in Cached /\ StateSeen(k.subject, kept))
  BY DEF Proper, CallType, LookupOK, KeptSeen
<1>2. PICK reply : reply = Fallback(kept, "upstream_unavailable")
  OBVIOUS
<1>3. "upstream_unavailable" \in Reason /\ Explains(k.facts, "upstream_unavailable")
  BY DEF Reason, Explains
<1>4. ReplyOK(k, reply)
  BY <1>1, <1>2, <1>3, FallbackOK
<1>5. reply.kind = "indeterminate" =>
          \/ reply.reason = "upstream_unavailable"
          \/ reply.reason = "source_changed" /\ k.facts.cache = "source_changed"
  BY <1>1, <1>2, FallbackReasons DEF KnownDoubts
<1>6. call' = Resume(k, reply)
  BY <1>1, <1>2
<1> QED BY <1>4, <1>5, <1>6, ResumesGood DEF Blamed

LEMMA UndecidesGood ==
    ASSUME CallTypeOK, CallInv, NEW k, Proper(k), NEW reason \in Reason,
           Explains(k.facts, reason), call' = Undecided(k, reason),
           reason \notin Blamed, reason = "source_changed" => k.facts.cache = "source_changed",
           UNCHANGED <<Environment, records>>
    PROVE  GoodStep
<1>1. PICK m : m = Undecided(k, reason)
  OBVIOUS
<1>2. Proper(m) /\ Closed(m)
  BY <1>1, UndecidedGood
<1>3. PICK reply : reply = Indeterminate(reason)
  OBVIOUS
<1>4. reply.kind = "indeterminate" /\ reply.reason = reason
  BY <1>3 DEF Indeterminate
<1>5. Follows(k, m, reply)
  BY <1>1, <1>4, UndecidedFollows DEF Proper
<1>6. Steady(m, records) /\ Reported(m, records)
  BY <1>4, <1>5, FollowsSteady
<1> QED BY <1>1, <1>2, <1>6, GoesOn

\* The call goes without CourtListener.
LEMMA GoWithoutGood ==
    ASSUME CallTypeOK, CallInv, TimeOK, NEW k, Proper(k), LookupOK(k), Apt(k),
           NEW reason \in Reason \ {"source_changed"}, Explains(k.facts, reason),
           GoWithout(k, reason), UNCHANGED <<Environment, records>>
    PROVE  GoodStep
<1>1. KnownDoubts(k) /\ (k.fallback = Null => NoOlder(k, records))
  BY DEF Apt
<1>2. CASE call' = Resume(k, Fallback(k.fallback, reason))
  <2>1. PICK kept \in Cache!SourceState \cup {Null} :
            kept = k.fallback /\ (kept # Null => k.subject \in Cached /\ StateSeen(k.subject, kept))
    BY DEF Proper, CallType, LookupOK, KeptSeen
  <2>2. PICK reply : reply = Fallback(kept, reason)
    OBVIOUS
  <2>3. ReplyOK(k, reply)
    BY <2>1, <2>2, FallbackOK
  <2>4. reply.kind = "indeterminate" =>
            \/ reply.reason = reason /\ NoOlder(k, records)
            \/ reply.reason = "source_changed" /\ k.facts.cache = "source_changed"
    BY <1>1, <2>1, <2>2, FallbackReasons DEF KnownDoubts
  <2>5. call' = Resume(k, reply)
    BY <1>2, <2>1, <2>2
  <2> QED BY <2>3, <2>4, <2>5, ResumesGood DEF Blamed
<1>3. CASE call' = Resume(k, Fallback(k.retained, "upstream_unavailable"))
  BY <1>1, <1>3, AnswersFromKept
<1> QED BY <1>2, <1>3 DEF GoWithout, Becomes

(***************************************************************************)
(* The steps of the call.                                                  *)
(***************************************************************************)

LEMMA LookGood ==
    ASSUME CallTypeOK, CallInv, OutageInv, Look
    PROVE  GoodStep
<1>1. call.at = "looking" /\ call.subject \in Cached
  BY DEF Look, CallInv, LookupOK
<1>2. /\ TimeOK /\ Proper(call) /\ LookupOK(call)
      /\ \A subject \in Cached : /\ records[subject] \in Cache!SourceState
                                 /\ StateSeen(subject, records[subject])
      /\ KnownDoubts(call)
  BY <1>1, UnderWay
<1>3. PICK subject \in Cached : subject = call.subject
  BY <1>1
<1>4. PICK s \in Cache!SourceState : s = records[subject] /\ StateSeen(subject, s)
  BY <1>2
<1>5. PICK d \in Decision : d = Decide(s, clock)
  BY <1>2, DecideFacts DEF TimeOK
<1>6. PICK k : k = Told(call, DecisionFact(d))
  OBVIOUS
<1>7. Proper(k) /\ LookupOK(k) /\ k.subject = subject
  BY <1>2, <1>3, <1>6, ToldDecision
<1>told. s.kind = "reversal_pending" => k.facts.cache = "source_changed"
  <2>1. s.kind = "reversal_pending" => d = "source_changed"
    BY <1>2, <1>5, DecideFacts DEF TimeOK
  <2>2. d = "source_changed" => k.facts.cache = "source_changed"
    BY <1>2, <1>6, ToldDecision
  <2> QED BY <2>1, <2>2
<1>8. CASE Cache!RequiresRevalidation(s, clock)
  <2>1. PICK kept \in Cache!SourceState \cup {Null} :
            /\ kept = Retained(subject, s) /\ kept \in {s, Null}
            /\ kept = Null => s.kind # "positive"
            /\ kept # Null => s.kind \in {"positive", "reversal_pending"}
    BY RetainedFacts
  <2>2. PICK m : m = [k EXCEPT !.at = "leasing", !.retained = kept, !.fallback = kept]
    OBVIOUS
  <2>3. call' = m
    BY <1>3, <1>4, <1>5, <1>6, <1>8, <2>1, <2>2 DEF Look, Becomes
  <2>4. /\ m \in CallType /\ m.at = "leasing" /\ m.retained = kept /\ m.fallback = kept
        /\ m.began = k.began /\ m.subject = k.subject /\ m.tool = k.tool /\ m.cited = k.cited
        /\ m.required = k.required /\ m.searched = k.searched /\ m.facts = k.facts
    BY <1>7, <2>2 DEF Proper, CallType
  <2>5. KeptSeen(m) /\ SearchWitnessed(m) /\ (CitedWitnessed(k) => CitedWitnessed(m))
    BY <1>4, <1>7, <2>1, <2>4 DEF KeptSeen, LookupOK, SearchWitnessed, CitedWitnessed
  <2>6. LookupOK(m)
    BY <1>7, <2>4, <2>5 DEF LookupOK
  <2>7. Proper(m) /\ Open(m)
    BY <1>7, <2>4, <2>6 DEF Proper, Open
  <2>8. kept = Null => NoOlder(m, records)
    BY <1>4, <1>7, <2>1, <2>4 DEF NoOlder
  <2>9. KnownDoubts(m)
    BY <1>told, <2>1, <2>4 DEF KnownDoubts
  <2>10. Steady(m, records) /\ Reported(m, records)
    BY <2>4, <2>8, <2>9 DEF Steady, Reported
  <2> QED BY <2>3, <2>7, <2>10, GoesOn DEF Look
<1>9. CASE ~Cache!RequiresRevalidation(s, clock)
  <2>1. call' = Resume(k, RecordReply(k.subject, s, clock))
    BY <1>3, <1>4, <1>5, <1>6, <1>7, <1>9 DEF Look, Becomes
  <2> QED BY <1>2, <1>4, <1>7, <1>told, <2>1, AnswersFromCache DEF Look
<1> QED BY <1>8, <1>9

LEMMA WaitGood ==
    ASSUME CallTypeOK, CallInv, OutageInv, Wait
    PROVE  GoodStep
<1>1. call.at = "leasing" /\ call.subject \in Cached
  BY DEF Wait, CallInv, LookupOK
<1>2. /\ TimeOK /\ Proper(call) /\ LookupOK(call)
      /\ \A subject \in Cached : /\ records[subject] \in Cache!SourceState
                                 /\ StateSeen(subject, records[subject])
      /\ KnownDoubts(call)
  BY <1>1, UnderWay
<1>3. PICK subject \in Cached : subject = call.subject
  BY <1>1
<1>4. PICK s \in Cache!SourceState : s = records[subject] /\ StateSeen(subject, s)
  BY <1>2
<1>5. PICK d \in Decision : d = Decide(s, clock)
  BY <1>2, DecideFacts DEF TimeOK
<1>6. PICK k : k = Told(call, DecisionFact(d))
  OBVIOUS
<1>7. /\ Proper(k) /\ LookupOK(k) /\ k.subject = subject /\ k.at = "leasing"
      /\ k.fallback = call.fallback /\ KnownDoubts(k)
  BY <1>1, <1>2, <1>3, <1>6, ToldDecision
<1>told. s.kind = "reversal_pending" => k.facts.cache = "source_changed"
  <2>1. s.kind = "reversal_pending" => d = "source_changed"
    BY <1>2, <1>5, DecideFacts DEF TimeOK
  <2>2. d = "source_changed" => k.facts.cache = "source_changed"
    BY <1>2, <1>6, ToldDecision
  <2> QED BY <2>1, <2>2
<1>9. call' = Resume(k, RecordReply(k.subject, s, clock)) \/ call' = k
  BY <1>3, <1>4, <1>5, <1>6, <1>7 DEF Wait, Becomes
<1>10. CASE call' = Resume(k, RecordReply(k.subject, s, clock))
  BY <1>2, <1>4, <1>7, <1>told, <1>10, AnswersFromCache DEF Wait
<1>11. CASE call' = k
  <2>1. k.fallback = Null => NoOlder(k, records)
    BY <1>1, <1>2, <1>3, <1>7, OutageParts DEF Steady, NoOlder, Proper
  <2>2. Steady(k, records) /\ Reported(k, records)
    BY <1>7, <2>1 DEF Steady, Reported
  <2> QED BY <1>7, <1>11, <2>2, GoesOn DEF Wait, Open
<1> QED BY <1>9, <1>10, <1>11

LEMMA GiveUpGood ==
    ASSUME CallTypeOK, CallInv, OutageInv, GiveUp
    PROVE  GoodStep
<1>1. call.at = "leasing"
  BY DEF GiveUp
<1>2. TimeOK /\ Proper(call) /\ LookupOK(call) /\ KnownDoubts(call)
  BY <1>1, UnderWay
<1>3. PICK k : k = Told(call, DecisionFact("nothing"))
  OBVIOUS
<1>4. Proper(k) /\ LookupOK(k) /\ k.retained = call.retained /\ KnownDoubts(k)
  BY <1>2, <1>3, ToldDecision DEF Decision
<1>5. call' = Resume(k, Fallback(k.retained, "upstream_unavailable"))
  BY <1>3, <1>4 DEF GiveUp, Becomes
<1> QED BY <1>2, <1>4, <1>5, AnswersFromKept DEF GiveUp

LEMMA OwnGood ==
    ASSUME CallTypeOK, CallInv, OutageInv, Own
    PROVE  GoodStep
<1>1. call.at = "leasing" /\ call.subject \in Cached /\ UNCHANGED Environment
  BY DEF Own, CallInv, LookupOK
<1>2. /\ TimeOK /\ Proper(call) /\ LookupOK(call)
      /\ call.retained \in Cache!SourceState \cup {Null}
      /\ \A subject \in Cached : /\ records[subject] \in Cache!SourceState
                                 /\ StateSeen(subject, records[subject])
      /\ KnownDoubts(call)
  BY <1>1, UnderWay
<1>3. PICK subject \in Cached : subject = call.subject
  BY <1>1
<1>4. PICK s \in Cache!SourceState : s = records[subject] /\ StateSeen(subject, s)
  BY <1>2
<1>5. PICK current \in Cache!SourceState :
          current = Cache!PurgeExpiredNegative(s, clock) /\ StateSeen(subject, current)
  BY <1>4, PurgedSeen
<1>6. PICK d \in Decision, e \in Decision : d = Decide(s, clock) /\ e = Decide(current, clock)
  BY <1>2, DecideFacts DEF TimeOK
<1>7. PICK j : j = Told(call, DecisionFact(d))
  OBVIOUS
<1>8. /\ Proper(j) /\ LookupOK(j) /\ j.subject = subject /\ j.at = "leasing"
      /\ j.retained = call.retained /\ j.fallback = call.fallback /\ KnownDoubts(j)
      /\ d = "source_changed" => j.facts.cache = "source_changed"
  BY <1>1, <1>2, <1>3, <1>7, ToldDecision
<1>9. PICK k : k = Told(j, DecisionFact(e))
  OBVIOUS
<1>10. /\ Proper(k) /\ LookupOK(k) /\ k.subject = subject /\ k.at = "leasing"
       /\ k.retained = call.retained /\ k.fallback = call.fallback /\ KnownDoubts(k)
       /\ "source_changed" \in {d, e} => k.facts.cache = "source_changed"
  BY <1>8, <1>9, ToldDecision
<1>told. "reversal_pending" \in {s.kind, current.kind} => k.facts.cache = "source_changed"
  BY <1>2, <1>6, <1>10, DecideFacts DEF TimeOK
<1>11. CASE ~Cache!RequiresRevalidation(s, clock)
  <2>1. call' = Resume(k, RecordReply(k.subject, s, clock)) /\ records' = records
    BY <1>3, <1>4, <1>5, <1>6, <1>7, <1>9, <1>10, <1>11 DEF Own, Becomes
  <2> QED BY <1>1, <1>2, <1>4, <1>10, <1>told, <2>1, AnswersFromCache
<1>12. CASE Cache!RequiresRevalidation(s, clock) /\ subject = TheCitation
  <2>1. PICK kept : kept = Retained(subject, current)
    OBVIOUS
  <2>2. /\ kept \in {current, Null}
        /\ kept = Null => current.kind # "positive"
        /\ kept # Null => current.kind \in {"positive", "reversal_pending"}
    BY <2>1, RetainedFacts
  <2>3. PICK old : old = IF kept # Null THEN kept ELSE k.retained
    OBVIOUS
  <2>4. PICK m : m = [k EXCEPT !.at = "asking", !.fallback = kept, !.retained = old]
    OBVIOUS
  <2>5. PICK r : r = [records EXCEPT ![subject] = current]
    OBVIOUS
  <2>6. call' = m /\ records' = r
    <3>1. call' = [k EXCEPT !.at = "asking", !.fallback = Retained(subject, current),
                            !.retained = IF Retained(subject, current) # Null
                                         THEN Retained(subject, current) ELSE @]
          /\ records' = r
      BY <1>3, <1>4, <1>5, <1>6, <1>7, <1>9, <1>12, <2>5 DEF Own, Becomes
    <3> QED BY <2>1, <2>3, <2>4, <3>1
  <2>7. k.retained # Null => StateSeen(subject, k.retained)
    BY <1>10 DEF LookupOK, KeptSeen
  <2>8. /\ kept \in Cache!SourceState \cup {Null} /\ old \in Cache!SourceState \cup {Null}
        /\ kept # Null => StateSeen(subject, kept)
        /\ old # Null => StateSeen(subject, old)
    BY <1>2, <1>5, <1>10, <2>2, <2>3, <2>7
  <2>9. k \in CallType
    BY <1>10 DEF Proper
  <2>10. /\ m \in CallType /\ m.at = "asking" /\ m.retained = old /\ m.fallback = kept
         /\ m.began = k.began /\ m.subject = k.subject /\ m.tool = k.tool /\ m.cited = k.cited
         /\ m.required = k.required /\ m.searched = k.searched /\ m.facts = k.facts
    BY <2>4, <2>8, <2>9 DEF CallType
  <2>11. KeptSeen(m)
    BY <1>3, <1>10, <2>8, <2>10 DEF KeptSeen
  <2>12. SearchWitnessed(m) /\ (CitedWitnessed(k) => CitedWitnessed(m))
    BY <1>10, <2>10 DEF LookupOK, SearchWitnessed, CitedWitnessed
  <2>13. LookupOK(m)
    BY <1>10, <2>10, <2>11, <2>12 DEF LookupOK
  <2>14. Proper(m) /\ Open(m)
    BY <1>10, <2>10, <2>13 DEF Proper, Open
  <2>15. r \in [Cached -> Cache!SourceState]
    BY <2>5 DEF CallTypeOK
  <2>16. \A c \in Cached : StateSeen(c, r[c])
    BY <1>2, <1>5, <2>5 DEF CallTypeOK
  <2>17. kept = Null => NoOlder(m, r)
    BY <1>10, <2>2, <2>5, <2>10 DEF NoOlder, CallTypeOK
  <2>18. KnownDoubts(m)
    BY <1>10, <1>told, <2>2, <2>3, <2>10 DEF KnownDoubts
  <2>19. KnownPending(m, r)
    BY <1>10, <1>12, <2>10, Subjects DEF KnownPending
  <2>20. Steady(m, r) /\ Reported(m, r)
    BY <2>10, <2>17, <2>18, <2>19 DEF Steady, Reported
  <2> QED BY <1>1, <2>6, <2>14, <2>15, <2>16, <2>20, BecomesGood
<1>13. CASE Cache!RequiresRevalidation(s, clock) /\ subject # TheCitation
  <2>1. records' = records
    BY <1>3, <1>4, <1>13 DEF Own
  <2>2. CASE Cache!StaleNegative(s, clock)
    <3>1. PICK n : n = Told(call, DecisionFact("nothing"))
      OBVIOUS
    <3>2. Proper(n)
      BY <1>2, <3>1, ToldDecision DEF Decision
    <3>3. call' = Undecided(n, "incomplete")
      BY <1>3, <1>4, <1>13, <2>2, <3>1 DEF Own, Becomes
    <3>4. /\ "incomplete" \in Reason /\ Explains(n.facts, "incomplete")
          /\ "incomplete" \notin Blamed \cup {"source_changed"}
      BY DEF Reason, Explains, Blamed
    <3> QED BY <1>1, <2>1, <3>2, <3>3, <3>4, UndecidesGood
  <2>3. CASE ~Cache!StaleNegative(s, clock)
    <3>1. PICK m : m = [k EXCEPT !.at = "asking"]
      OBVIOUS
    <3>2. call' = m
      BY <1>3, <1>4, <1>5, <1>6, <1>7, <1>9, <1>13, <2>3, <3>1 DEF Own, Becomes
    <3>3. /\ m \in CallType /\ m.at = "asking" /\ m.retained = k.retained /\ m.fallback = k.fallback
          /\ m.began = k.began /\ m.subject = k.subject /\ m.tool = k.tool /\ m.cited = k.cited
          /\ m.required = k.required /\ m.searched = k.searched /\ m.facts = k.facts
      BY <1>10, <3>1 DEF Proper, CallType
    <3>4. KeptSeen(m) /\ SearchWitnessed(m) /\ (CitedWitnessed(k) => CitedWitnessed(m))
      BY <1>10, <3>3 DEF LookupOK, KeptSeen, SearchWitnessed, CitedWitnessed
    <3>5. LookupOK(m)
      BY <1>10, <3>3, <3>4 DEF LookupOK
    <3>6. Proper(m) /\ Open(m)
      BY <1>10, <3>3, <3>5 DEF Proper, Open
    <3>7. m.fallback = Null => NoOlder(m, records)
      BY <1>1, <1>3, <1>10, <3>3, OutageParts DEF Steady, NoOlder, Proper
    <3>8. KnownDoubts(m) /\ KnownPending(m, records)
      BY <1>4, <1>10, <1>told, <3>3 DEF KnownDoubts, KnownPending
    <3>9. Steady(m, records) /\ Reported(m, records)
      BY <3>3, <3>7, <3>8 DEF Steady, Reported
    <3> QED BY <1>1, <2>1, <3>2, <3>6, <3>9, GoesOn
  <2> QED BY <2>2, <2>3
<1> QED BY <1>11, <1>12, <1>13

LEMMA StoreFailsGood ==
    ASSUME CallTypeOK, CallInv, OutageInv, StoreFails
    PROVE  GoodStep
<1>1. call.at \in {"looking", "leasing"} /\ UNCHANGED <<Environment, records>>
  BY DEF StoreFails
<1>2. PICK k : k = call
  OBVIOUS
<1>3. TimeOK /\ Proper(k) /\ LookupOK(k) /\ KnownDoubts(k)
  BY <1>1, <1>2, UnderWay
<1>4. CASE call' = Undecided(k, "upstream_unavailable")
  <2>1. /\ "upstream_unavailable" \in Reason /\ Explains(k.facts, "upstream_unavailable")
        /\ "upstream_unavailable" \notin Blamed \cup {"source_changed"}
    BY DEF Reason, Explains, Blamed
  <2> QED BY <1>1, <1>3, <1>4, <2>1, UndecidesGood
<1>5. CASE call' = Resume(k, Fallback(k.retained, "upstream_unavailable"))
  BY <1>1, <1>3, <1>5, AnswersFromKept
<1> QED BY <1>2, <1>4, <1>5 DEF StoreFails, Becomes

LEMMA ToldUpstream ==
    ASSUME NEW k, Proper(k), LookupOK(k), NEW u \in UpstreamStatus,
           u \in {"success", "timeout", "server_error", "malformed_response"} => k.facts.timed
    PROVE  LET m == Told(k, UpstreamFact(u)) IN
           /\ Proper(m) /\ LookupOK(m) /\ m.facts.upstream = u
           /\ m.subject = k.subject /\ m.at = k.at /\ (Apt(k) => Apt(m))
<1>1. PICK fact : fact = UpstreamFact(u)
  OBVIOUS
<1>2. Harmless(k.facts, fact)
  BY <1>1 DEF Harmless
<1>3. PICK m : m = Told(k, fact)
  OBVIOUS
<1>4. /\ Proper(m) /\ LookupOK(m) /\ m.facts = Observe(k.facts, fact)
      /\ m.subject = k.subject /\ m.at = k.at /\ (Apt(k) => Apt(m))
  BY <1>2, <1>3, ToldGood
<1>5. k.facts \in ExecutionFacts
  BY DEF Proper, CallType
<1>6. m.facts.upstream = u
  BY <1>1, <1>4, <1>5 DEF Observe, UpstreamFact, ExecutionFacts
<1> QED BY <1>1, <1>3, <1>4, <1>6

LEMMA ToldCircuit ==
    ASSUME NEW k, Proper(k), LookupOK(k), NEW c \in CircuitStatus
    PROVE  LET m == Told(k, CircuitFact(c)) IN
           /\ Proper(m) /\ LookupOK(m) /\ m.facts.circuit = c
           /\ m.subject = k.subject /\ m.at = k.at /\ (Apt(k) => Apt(m))
<1>1. PICK fact : fact = CircuitFact(c)
  OBVIOUS
<1>2. Harmless(k.facts, fact)
  BY <1>1 DEF Harmless
<1>3. PICK m : m = Told(k, fact)
  OBVIOUS
<1>4. /\ Proper(m) /\ LookupOK(m) /\ m.facts = Observe(k.facts, fact)
      /\ m.subject = k.subject /\ m.at = k.at /\ (Apt(k) => Apt(m))
  BY <1>2, <1>3, ToldGood
<1>5. k.facts \in ExecutionFacts
  BY DEF Proper, CallType
<1>6. m.facts.circuit = c
  BY <1>1, <1>4, <1>5 DEF Observe, CircuitFact, ExecutionFacts
<1> QED BY <1>1, <1>3, <1>4, <1>6

LEMMA ToldAttempt ==
    ASSUME NEW k, Proper(k), LookupOK(k)
    PROVE  LET m == Told(k, AttemptFact) IN
           /\ Proper(m) /\ LookupOK(m) /\ m.facts.timed
           /\ m.subject = k.subject /\ m.at = k.at /\ (Apt(k) => Apt(m))
<1>1. Harmless(k.facts, AttemptFact)
  BY DEF Harmless
<1>3. PICK m : m = Told(k, AttemptFact)
  OBVIOUS
<1>4. /\ Proper(m) /\ LookupOK(m) /\ m.facts = Observe(k.facts, AttemptFact)
      /\ m.subject = k.subject /\ m.at = k.at /\ (Apt(k) => Apt(m))
  BY <1>1, <1>3, ToldGood
<1>5. k.facts \in ExecutionFacts
  BY DEF Proper, CallType
<1>6. m.facts.timed
  BY <1>4, <1>5 DEF Observe, AttemptFact, ExecutionFacts
<1> QED BY <1>3, <1>4, <1>6

\* Going without CourtListener once the coordinator has said why.
LEMMA RefusedGood ==
    ASSUME CallTypeOK, CallInv, TimeOK, NEW k, Proper(k), LookupOK(k), Apt(k),
           NEW u \in UpstreamStatus \ {"success", "timeout", "server_error", "malformed_response"},
           NEW reason \in Reason \ {"timeout", "circuit_open", "source_changed"},
           reason = "rate_limited" => u \in {"rate_limited", "quota_limited"},
           GoWithout(Told(k, UpstreamFact(u)), reason),
           UNCHANGED <<Environment, records>>
    PROVE  GoodStep
<1>1. PICK m : m = Told(k, UpstreamFact(u))
  OBVIOUS
<1>2. Proper(m) /\ LookupOK(m) /\ m.facts.upstream = u /\ Apt(m)
  BY <1>1, ToldUpstream
<1>3. Explains(m.facts, reason)
  BY <1>2 DEF Explains
<1> QED BY <1>1, <1>2, <1>3, GoWithoutGood

\* A call that goes on to ask.
LEMMA AptSteady ==
    ASSUME NEW k, Apt(k), NEW m, m.at \in {"asking", "syncing", "sending", "filling"},
           m.retained = k.retained, m.fallback = k.fallback, m.began = k.began,
           m.subject = k.subject, m.facts = k.facts
    PROVE  Steady(m, records) /\ Reported(m, records)
<1>1. m.fallback = Null => NoOlder(m, records)
  BY DEF Apt, NoOlder
<1>2. KnownDoubts(m) /\ KnownPending(m, records)
  BY DEF Apt, KnownDoubts, KnownPending
<1> QED BY <1>1, <1>2 DEF Steady, Reported

LEMMA AskWithoutGood ==
    ASSUME CallTypeOK, CallInv, OutageInv, AskWithout
    PROVE  GoodStep
<1>1. call.at = "asking" /\ UNCHANGED <<Environment, records>>
  BY DEF AskWithout
<1>2. TimeOK /\ Proper(call) /\ LookupOK(call) /\ Apt(call)
  BY <1>1, UnderWay
<1>3. PICK k : k = call
  OBVIOUS
<1>4. GoWithout(Told(k, UpstreamFact("unavailable")), "upstream_unavailable")
  BY <1>3 DEF AskWithout
<1>5. Proper(k) /\ LookupOK(k) /\ Apt(k)
  BY <1>2, <1>3
<1>6. "unavailable" \in UpstreamStatus /\ "upstream_unavailable" \in Reason
  BY DEF UpstreamStatus, Reason
<1> QED BY <1>1, <1>2, <1>4, <1>5, <1>6, RefusedGood

LEMMA AskGood ==
    ASSUME CallTypeOK, CallInv, OutageInv, Ask
    PROVE  GoodStep
<1>1. call.at = "asking" /\ UNCHANGED <<Environment, records>>
  BY DEF Ask
<1>2. TimeOK /\ Proper(call) /\ LookupOK(call) /\ Apt(call)
  BY <1>1, UnderWay
<1>3. PICK j : j = call
  OBVIOUS
<1>4. Proper(j) /\ LookupOK(j) /\ j.at = "asking" /\ Apt(j)
  BY <1>1, <1>2, <1>3
<1>5. /\ {"quota_unknown", "quota_limited"} \subseteq UpstreamStatus
      /\ {"quota_unknown", "rate_limited", "circuit_open"} \subseteq Reason
  BY DEF UpstreamStatus, Reason
<1>6. CASE GoWithout(Told(j, UpstreamFact("quota_unknown")), "quota_unknown")
  BY <1>1, <1>2, <1>4, <1>5, <1>6, RefusedGood
<1>7. ASSUME NEW decision \in Admission, NEW k, k = Told(j, CircuitFact(decision.circuit)),
             CASE decision.kind = "reserved" -> Becomes([k EXCEPT !.at = "sending"])
               [] decision.kind = "sync_required" /\ k.maySync ->
                     Becomes([k EXCEPT !.at = "syncing", !.maySync = FALSE])
               [] decision.kind = "quota_limited" ->
                     GoWithout(Told(k, UpstreamFact("quota_limited")), "rate_limited")
               [] decision.kind = "quota_exhausted" ->
                     GoWithout(Told(k, UpstreamFact("quota_limited")), "quota_unknown")
               [] decision.kind = "circuit_open" -> GoWithout(k, "circuit_open")
               [] OTHER ->
                     GoWithout(Told(k, UpstreamFact("quota_unknown")), "quota_unknown")
      PROVE  GoodStep
  <2>1. PICK c \in CircuitStatus : c = decision.circuit
    BY DEF Admission, CircuitStatus
  <2>2. k = Told(j, CircuitFact(c))
    BY <1>7, <2>1
  <2>3. Proper(k) /\ LookupOK(k) /\ k.facts.circuit = c /\ k.at = "asking" /\ Apt(k)
    BY <1>4, <2>2, ToldCircuit
  <2>4. ASSUME NEW m, NEW at \in {"sending", "syncing"}, NEW maySync \in BOOLEAN,
               m = [k EXCEPT !.at = at, !.maySync = maySync], call' = m
        PROVE  GoodStep
    <3>1. /\ m \in CallType /\ m.at = at /\ m.retained = k.retained /\ m.fallback = k.fallback
          /\ m.began = k.began /\ m.subject = k.subject /\ m.tool = k.tool /\ m.cited = k.cited
          /\ m.required = k.required /\ m.searched = k.searched /\ m.facts = k.facts
      BY <2>3, <2>4 DEF Proper, CallType
    <3>2. KeptSeen(m) /\ SearchWitnessed(m) /\ (CitedWitnessed(k) => CitedWitnessed(m))
      BY <2>3, <3>1 DEF LookupOK, KeptSeen, SearchWitnessed, CitedWitnessed
    <3>3. LookupOK(m)
      BY <2>3, <3>1, <3>2 DEF LookupOK
    <3>4. Proper(m) /\ Open(m)
      BY <2>3, <3>1, <3>3 DEF Proper, Open
    <3>5. Steady(m, records) /\ Reported(m, records)
      <4>1. m.at \in {"asking", "syncing", "sending", "filling"} /\ Apt(k)
        BY <2>3, <3>1
      <4> QED BY <3>1, <4>1, AptSteady
    <3> QED BY <1>1, <2>4, <3>4, <3>5, GoesOn
  <2>5. CASE decision.kind = "reserved"
    <3>1. call' = [k EXCEPT !.at = "sending"]
      BY <1>7, <2>5 DEF Becomes
    <3>2. PICK maySync \in BOOLEAN : maySync = k.maySync
      BY <2>3 DEF Proper, CallType
    <3>3. call' = [k EXCEPT !.at = "sending", !.maySync = maySync]
      BY <2>3, <3>1, <3>2 DEF Proper, CallType
    <3> QED BY <2>4, <3>3
  <2>6. CASE decision.kind = "sync_required" /\ k.maySync
    <3>1. call' = [k EXCEPT !.at = "syncing", !.maySync = FALSE]
      BY <1>7, <2>6 DEF Becomes
    <3> QED BY <2>4, <3>1
  <2>7. CASE decision.kind = "quota_limited"
    <3>1. GoWithout(Told(k, UpstreamFact("quota_limited")), "rate_limited")
      BY <1>7, <2>7
    <3> QED BY <1>1, <1>2, <1>5, <2>3, <3>1, RefusedGood
  <2>8. CASE decision.kind = "quota_exhausted"
    <3>1. GoWithout(Told(k, UpstreamFact("quota_limited")), "quota_unknown")
      BY <1>7, <2>8
    <3> QED BY <1>1, <1>2, <1>5, <2>3, <3>1, RefusedGood
  <2>9. CASE decision.kind = "circuit_open"
    <3>1. GoWithout(k, "circuit_open")
      BY <1>7, <2>9
    <3>2. c = "open"
      BY <2>1, <2>9 DEF Admission, Busy
    <3>3. Explains(k.facts, "circuit_open")
      BY <2>3, <3>2 DEF Explains
    <3> QED BY <1>1, <1>2, <1>5, <2>3, <3>1, <3>3, GoWithoutGood
  <2>10. CASE /\ decision.kind \notin {"reserved", "quota_limited", "quota_exhausted", "circuit_open"}
              /\ ~(decision.kind = "sync_required" /\ k.maySync)
    <3>1. GoWithout(Told(k, UpstreamFact("quota_unknown")), "quota_unknown")
      BY <1>7, <2>10
    <3> QED BY <1>1, <1>2, <1>5, <2>3, <3>1, RefusedGood
  <2> QED BY <2>5, <2>6, <2>7, <2>8, <2>9, <2>10
<1> QED BY <1>3, <1>6, <1>7 DEF Ask

LEMMA SyncGood ==
    ASSUME CallTypeOK, CallInv, OutageInv, Sync
    PROVE  GoodStep
<1>1. call.at = "syncing" /\ UNCHANGED <<Environment, records>>
  BY DEF Sync
<1>2. TimeOK /\ Proper(call) /\ LookupOK(call) /\ Apt(call)
  BY <1>1, UnderWay
<1>3. PICK j : j = call
  OBVIOUS
<1>4. Proper(j) /\ LookupOK(j) /\ j.at = "syncing" /\ Apt(j)
  BY <1>1, <1>2, <1>3
<1>5. /\ {"quota_unknown", "rate_limited"} \subseteq UpstreamStatus
      /\ {"quota_unknown", "rate_limited"} \subseteq Reason
  BY DEF UpstreamStatus, Reason
<1>6. CASE GoWithout(Told(j, UpstreamFact("quota_unknown")), "quota_unknown")
  BY <1>1, <1>2, <1>4, <1>5, <1>6, RefusedGood
<1>7. ASSUME NEW usage, NEW recorded \in BOOLEAN, NEW k, k = Told(j, AttemptFact),
             CASE usage = "usage" /\ recorded -> Becomes([k EXCEPT !.at = "asking"])
               [] usage = "rate_limited" /\ recorded ->
                     GoWithout(Told(k, UpstreamFact("rate_limited")), "rate_limited")
               [] OTHER ->
                     GoWithout(Told(k, UpstreamFact("quota_unknown")), "quota_unknown")
      PROVE  GoodStep
  <2>1. Proper(k) /\ LookupOK(k) /\ k.at = "syncing" /\ Apt(k)
    BY <1>4, <1>7, ToldAttempt
  <2>2. CASE usage = "usage" /\ recorded
    <3>1. PICK m : m = [k EXCEPT !.at = "asking"]
      OBVIOUS
    <3>2. call' = m
      BY <1>7, <2>2, <3>1 DEF Becomes
    <3>3. /\ m \in CallType /\ m.at = "asking" /\ m.retained = k.retained
          /\ m.fallback = k.fallback
          /\ m.began = k.began /\ m.subject = k.subject /\ m.tool = k.tool /\ m.cited = k.cited
          /\ m.required = k.required /\ m.searched = k.searched /\ m.facts = k.facts
      BY <2>1, <3>1 DEF Proper, CallType
    <3>4. KeptSeen(m) /\ SearchWitnessed(m) /\ (CitedWitnessed(k) => CitedWitnessed(m))
      BY <2>1, <3>3 DEF LookupOK, KeptSeen, SearchWitnessed, CitedWitnessed
    <3>5. LookupOK(m)
      BY <2>1, <3>3, <3>4 DEF LookupOK
    <3>6. Proper(m) /\ Open(m)
      BY <2>1, <3>3, <3>5 DEF Proper, Open
    <3>7. Steady(m, records) /\ Reported(m, records)
      BY <2>1, <3>3, AptSteady
    <3> QED BY <1>1, <3>2, <3>6, <3>7, GoesOn
  <2>3. CASE usage = "rate_limited" /\ recorded
    <3>1. GoWithout(Told(k, UpstreamFact("rate_limited")), "rate_limited")
      BY <1>7, <2>3
    <3> QED BY <1>1, <1>2, <1>5, <2>1, <3>1, RefusedGood
  <2>4. CASE ~(usage \in {"usage", "rate_limited"} /\ recorded)
    <3>1. GoWithout(Told(k, UpstreamFact("quota_unknown")), "quota_unknown")
      BY <1>7, <2>4
    <3> QED BY <1>1, <1>2, <1>5, <2>1, <3>1, RefusedGood
  <2> QED BY <2>2, <2>3, <2>4
<1> QED BY <1>3, <1>6, <1>7 DEF Sync

\* What CourtListener says can be stored, unless there is no usable text.
LEMMA SaidIsObservable ==
    ASSUME NEW s \in Source, NEW subject \in Cached, Says(s, subject) # "none"
    PROVE  Says(s, subject) \in Observable(subject)
<1>1. CASE subject = TheCitation
  BY <1>1, SaysFacts, Subjects DEF Observable
<1>2. CASE subject \in Opinion
  <2>1. Says(s, subject) = s.text[subject] /\ s.text[subject] \in Text \cup {"none", Absent}
    BY <1>2, SaysFacts, Subjects
  <2> QED BY <1>2, <2>1, Subjects DEF Observable
<1> QED BY <1>1, <1>2 DEF Cached

LEMMA SendGood ==
    ASSUME CallTypeOK, CallInv, OutageInv, Send
    PROVE  GoodStep
<1>1. call.at = "sending" /\ UNCHANGED <<Environment, records>>
  BY DEF Send
<1>2. TimeOK /\ Proper(call) /\ LookupOK(call) /\ call.subject \in Subject /\ Apt(call)
  BY <1>1, UnderWay
<1>3. PICK j : j = call
  OBVIOUS
<1>4. Proper(j) /\ LookupOK(j) /\ j.at = "sending" /\ j.subject \in Subject /\ Apt(j)
  BY <1>1, <1>2, <1>3
<1>5. PICK result \in Results[source][j.subject], recorded \in BOOLEAN :
          CASE ~recorded -> GoWithout(Attempted(j, result.outcome), "quota_unknown")
            [] recorded /\ result.reply.kind = "indeterminate" ->
                  GoWithout(Attempted(j, result.outcome), result.reply.reason)
            [] recorded /\ result.reply.kind = "unusable" ->
                  Becomes(Undecided(Attempted(j, result.outcome), "incomplete"))
            [] recorded /\ result.reply.kind = "listing" ->
                  Becomes(Resume(Attempted(j, result.outcome), result.reply))
            [] recorded /\ result.reply.kind = "fetched" ->
                  Becomes([Attempted(j, result.outcome) EXCEPT !.at = "filling",
                               !.fetched = result.reply.observation])
  BY <1>3 DEF Send
<1>6. source \in Source
  BY DEF CallTypeOK
<1>7. TrueResult(source, j.subject, result)
  BY <1>4, <1>5, <1>6, RequestsAreTrue
<1>8. PICK outcome \in Outcomes, reply \in {result.reply} :
          reply = result.reply /\ outcome = result.outcome
  BY <1>7 DEF TrueResult
<1>9. PICK k : k = Attempted(j, outcome)
  OBVIOUS
<1>10. PICK u \in UpstreamStatus :
           /\ u = IF outcome = "transport_error" THEN "unavailable" ELSE outcome
  BY DEF Outcomes, UpstreamStatus
<1>11. /\ Proper(k) /\ LookupOK(k) /\ k.facts.upstream = u
       /\ k.subject = j.subject /\ k.at = "sending" /\ Apt(k)
  <2>1. PICK i : i = Told(j, AttemptFact)
    OBVIOUS
  <2>2. /\ Proper(i) /\ LookupOK(i) /\ i.facts.timed /\ i.subject = j.subject
        /\ i.at = "sending" /\ Apt(i)
    BY <1>4, <2>1, ToldAttempt
  <2>3. k = Told(i, UpstreamFact(u))
    BY <1>9, <1>10, <2>1 DEF Attempted, OutcomeFact
  <2> QED BY <2>2, <2>3, ToldUpstream
<1>12. CASE ~recorded
  <2>1. GoWithout(k, "quota_unknown")
    BY <1>5, <1>8, <1>9, <1>12
  <2>2. "quota_unknown" \in Reason /\ Explains(k.facts, "quota_unknown")
    BY DEF Reason, Explains
  <2> QED BY <1>1, <1>2, <1>11, <2>1, <2>2, GoWithoutGood
<1>13. CASE recorded /\ IndeterminateResult(result)
  <2>1. PICK reason \in Reason : reason = result.reply.reason
    BY <1>13 DEF IndeterminateResult, Reason
  <2>2. GoWithout(k, reason)
    BY <1>5, <1>8, <1>9, <1>13, <2>1 DEF IndeterminateResult
  <2>3. /\ reason \in {"rate_limited", "timeout", "upstream_unavailable", "incomplete"}
        /\ reason = "timeout" => outcome = "timeout"
        /\ reason = "rate_limited" => outcome = "rate_limited"
    BY <1>8, <1>13, <2>1 DEF IndeterminateResult
  <2>4. Explains(k.facts, reason)
    BY <1>10, <1>11, <2>3 DEF Explains
  <2> QED BY <1>1, <1>2, <1>11, <2>2, <2>3, <2>4, GoWithoutGood
<1>14. CASE recorded /\ reply.kind = "listing" /\ j.subject = TheCluster
            /\ reply.opinions = source.listing
  <2>1. call' = Resume(k, reply)
    BY <1>5, <1>8, <1>9, <1>14 DEF Becomes
  <2>2. source.listing \subseteq Opinion
    BY <1>6 DEF SourceType
  <2>3. <<clock, TheCluster, source.listing>> \in was
    <3>1. <<clock, TheCluster, Says(source, TheCluster)>> \in Had(source, clock)
      BY DEF Had, Subject
    <3>2. Says(source, TheCluster) = source.listing
      BY Subjects DEF Says
    <3> QED BY <3>1, <3>2 DEF CallInv, RecordsSeen
  <2>4. Listed(source.listing)
    BY <1>2, <2>3 DEF Listed, TimeOK
  <2>5. ReplyOK(k, reply)
    BY <1>11, <1>14, <2>2, <2>4 DEF ReplyOK
  <2> QED BY <1>1, <1>2, <1>11, <1>14, <2>1, <2>5, ResumesGood
<1>15. CASE recorded /\ reply.kind = "unusable"
  <2>1. call' = Undecided(k, "incomplete")
    BY <1>5, <1>8, <1>9, <1>15 DEF Becomes
  <2>2. /\ "incomplete" \in Reason /\ Explains(k.facts, "incomplete")
        /\ "incomplete" \notin Blamed \cup {"source_changed"}
    BY DEF Reason, Explains, Blamed
  <2> QED BY <1>1, <1>11, <2>1, <2>2, UndecidesGood
<1>16. CASE /\ recorded /\ reply.kind = "fetched" /\ j.subject \in Cached
            /\ reply.observation = Says(source, j.subject) /\ reply.observation # "none"
  <2>1. PICK observation : observation = reply.observation
    OBVIOUS
  <2>2. <<clock, j.subject, observation>> \in was
    BY <1>4, <1>16, <2>1 DEF CallInv, RecordsSeen, Had
  <2>3. observation \in Observable(j.subject)
    BY <1>6, <1>16, <2>1, SaidIsObservable
  <2>4. observation \in Cache!Observation
    BY <2>3 DEF Observable, Cache!Observation
  <2>5. PICK m : m = [k EXCEPT !.at = "filling", !.fetched = observation]
    OBVIOUS
  <2>6. call' = m
    BY <1>5, <1>8, <1>9, <1>16, <2>1, <2>5 DEF Becomes
  <2>7. /\ m \in CallType /\ m.at = "filling" /\ m.retained = k.retained
        /\ m.fallback = k.fallback /\ m.fetched = observation
        /\ m.began = k.began /\ m.subject = k.subject /\ m.tool = k.tool /\ m.cited = k.cited
        /\ m.required = k.required /\ m.searched = k.searched /\ m.facts = k.facts
    BY <1>11, <2>4, <2>5 DEF Proper, CallType
  <2>8. KeptSeen(m) /\ SearchWitnessed(m) /\ (CitedWitnessed(k) => CitedWitnessed(m))
    BY <1>11, <2>7 DEF LookupOK, KeptSeen, SearchWitnessed, CitedWitnessed
  <2>9. LookupOK(m)
    <3>1. m.fetched \in IF m.subject = TheCitation THEN {"cluster", Absent}
                        ELSE Text \cup {Absent}
      BY <1>11, <2>3, <2>7 DEF Observable
    <3>2. m.subject \in Cached /\ <<clock, m.subject, m.fetched>> \in was
      BY <1>11, <1>16, <2>2, <2>7
    <3> QED BY <1>11, <2>7, <2>8, <3>1, <3>2 DEF LookupOK
  <2>10. Proper(m) /\ Open(m)
    BY <1>11, <2>7, <2>9 DEF Proper, Open
  <2>11. Steady(m, records) /\ Reported(m, records)
    BY <1>11, <2>7, AptSteady
  <2> QED BY <1>1, <2>6, <2>10, <2>11, GoesOn
<1>17. \/ IndeterminateResult(result)
       \/ reply.kind = "listing" /\ j.subject = TheCluster /\ reply.opinions = source.listing
       \/ /\ reply.kind = "fetched" /\ j.subject \in Cached
          /\ reply.observation = Says(source, j.subject) /\ reply.observation # "none"
       \/ reply.kind = "unusable"
  BY <1>7, <1>8 DEF TrueResult
<1> QED BY <1>12, <1>13, <1>14, <1>15, <1>16, <1>17

LEMMA FillGood ==
    ASSUME CallTypeOK, CallInv, OutageInv, Fill
    PROVE  GoodStep
<1>1. call.at = "filling" /\ call.subject \in Cached /\ UNCHANGED Environment
  BY DEF Fill, CallInv, LookupOK
<1>2. /\ TimeOK /\ Proper(call) /\ LookupOK(call)
      /\ \A subject \in Cached : /\ records[subject] \in Cache!SourceState
                                 /\ StateSeen(subject, records[subject])
      /\ KnownDoubts(call)
  BY <1>1, UnderWay
<1>3. PICK subject \in Cached : subject = call.subject
  BY <1>1
<1>4. PICK observation : observation = call.fetched
  OBVIOUS
<1>5. observation \in Observable(subject) /\ <<clock, subject, observation>> \in was
  BY <1>1, <1>2, <1>3, <1>4 DEF LookupOK, Observable
<1>6. PICK old \in Cache!SourceState : old = records[subject] /\ StateSeen(subject, old)
  BY <1>2
<1>7. PICK s \in Cache!SourceState :
          s = Cache!RecordObservation(old, observation, clock) /\ StateSeen(subject, s)
  BY <1>2, <1>5, <1>6, ObservedSeen
<1>8. PICK d \in Decision : d = Decide(s, clock)
  BY <1>2, DecideFacts DEF TimeOK
<1>9. PICK j : j = call
  OBVIOUS
<1>10. Proper(j) /\ LookupOK(j) /\ j.subject = subject /\ j.at = "filling"
  BY <1>1, <1>2, <1>3, <1>9
<1>11. PICK k : k = IF subject = TheCitation THEN Told(j, DecisionFact(d)) ELSE j
  OBVIOUS
<1>12. Proper(k) /\ LookupOK(k) /\ k.subject = subject
  BY <1>10, <1>11, ToldDecision
<1>13. PICK reply : reply = RecordReply(k.subject, s, clock)
  OBVIOUS
<1>14. ReplyOK(k, reply)
  BY <1>2, <1>7, <1>12, <1>13, RecordReplyOK
<1>15. PICK m : m = Resume(k, reply)
  OBVIOUS
<1>16. Proper(m) /\ (Open(m) \/ Closed(m))
  BY <1>2, <1>12, <1>14, <1>15, ResumeGood DEF TimeOK
<1>17. PICK r : r = [records EXCEPT ![subject] = s]
  OBVIOUS
<1>18. call' = m /\ records' = r
  BY <1>3, <1>4, <1>6, <1>7, <1>8, <1>9, <1>11, <1>12, <1>13, <1>15, <1>17 DEF Fill, Becomes
<1>19. r \in [Cached -> Cache!SourceState]
  BY <1>17 DEF CallTypeOK
<1>20. \A c \in Cached : StateSeen(c, r[c])
  BY <1>2, <1>7, <1>17 DEF CallTypeOK
<1>21. Follows(k, m, reply)
  BY <1>12, <1>14, <1>15, ResumeFollows DEF Proper
<1>22. reply.kind = "indeterminate" =>
          /\ reply.reason \notin Blamed
          /\ reply.reason = "source_changed" => s.kind = "reversal_pending"
  BY <1>2, <1>13, RecordReplyReasons DEF TimeOK
<1>23. ASSUME s.kind = "reversal_pending"
       PROVE  k.facts.cache = "source_changed" \/ (call.subject \in Opinion /\ r # records)
  <2>1. CASE subject = TheCitation
    <3>1. d = "source_changed" /\ k = Told(j, DecisionFact(d))
      BY <1>2, <1>8, <1>11, <1>23, <2>1, DecideFacts DEF TimeOK
    <3> QED BY <1>10, <3>1, ToldDecision
  <2>2. CASE subject # TheCitation /\ old # s
    BY <1>3, <1>6, <1>17, <2>2 DEF Cached, CallTypeOK
  <2>3. CASE subject # TheCitation /\ old = s
    <3>1. KnownPending(j, records)
      BY <1>9, <1>10, OutageParts DEF Steady
    <3> QED BY <1>3, <1>6, <1>10, <1>11, <1>23, <2>3, <3>1 DEF KnownPending, Cached
  <2> QED BY <2>1, <2>2, <2>3
<1>24. Steady(m, r) /\ Reported(m, r)
  BY <1>21, <1>22, <1>23, FollowsSteady
<1> QED BY <1>1, <1>16, <1>18, <1>19, <1>20, <1>24, BecomesGood

LEMMA LoseLeaseGood ==
    ASSUME CallTypeOK, CallInv, OutageInv, LoseLease
    PROVE  GoodStep
<1>1. /\ call.at \in {"filling", "outrun"} /\ call.subject \in Cached
      /\ UNCHANGED <<Environment, records>>
  BY DEF LoseLease, CallInv, LookupOK
<1>2. /\ TimeOK /\ Proper(call) /\ LookupOK(call)
      /\ \A subject \in Cached : /\ records[subject] \in Cache!SourceState
                                 /\ StateSeen(subject, records[subject])
      /\ KnownDoubts(call)
  BY <1>1, UnderWay
<1>3. PICK subject \in Cached : subject = call.subject
  BY <1>1
<1>4. PICK s \in Cache!SourceState : s = records[subject] /\ StateSeen(subject, s)
  BY <1>2
<1>5. PICK d \in Decision : d = Decide(s, clock)
  BY <1>2, DecideFacts DEF TimeOK
<1>6. PICK j : j = call
  OBVIOUS
<1>7. Proper(j) /\ LookupOK(j) /\ j.subject = subject /\ KnownDoubts(j)
  BY <1>2, <1>3, <1>6
<1>8. PICK k : k = Told(j, DecisionFact(d))
  OBVIOUS
<1>9. /\ Proper(k) /\ LookupOK(k) /\ k.subject = subject /\ k.retained = j.retained
      /\ KnownDoubts(k) /\ (d = "source_changed" => k.facts.cache = "source_changed")
  BY <1>7, <1>8, ToldDecision
<1>10. /\ {"upstream_unavailable", "source_changed", "incomplete"} \subseteq Reason
       /\ \A facts : /\ Explains(facts, "upstream_unavailable")
                     /\ Explains(facts, "source_changed") /\ Explains(facts, "incomplete")
       /\ {"upstream_unavailable", "source_changed", "incomplete"} \cap Blamed = {}
  BY DEF Reason, Explains, Blamed
<1>11. ASSUME NEW i \in {j, k}, call' = Resume(i, Fallback(j.retained, "upstream_unavailable"))
       PROVE  GoodStep
  <2>1. Proper(i) /\ LookupOK(i) /\ i.retained = j.retained /\ KnownDoubts(i)
    BY <1>7, <1>9
  <2>2. call' = Resume(i, Fallback(i.retained, "upstream_unavailable"))
    BY <1>11, <2>1
  <2> QED BY <1>1, <1>2, <2>1, <2>2, AnswersFromKept
<1>12. CASE call' = Undecided(j, "upstream_unavailable")
  BY <1>1, <1>7, <1>10, <1>12, UndecidesGood
<1>13. CASE call' = Undecided(k, "upstream_unavailable")
  BY <1>1, <1>9, <1>10, <1>13, UndecidesGood
<1>14. CASE d \in {"fresh", "stale"} /\ call' = Resume(k, Found(s.positive, d))
  <2>1. s.kind = "positive" /\ (d = "fresh" => clock - s.positive.retrievedAt < PositiveFreshness)
    BY <1>2, <1>5, <1>14, DecideFacts DEF TimeOK
  <2>2. PICK reply : reply = Found(s.positive, d)
    OBVIOUS
  <2>3. ReplyOK(k, reply) /\ reply.kind = "found"
    BY <1>2, <1>4, <1>9, <1>14, <2>1, <2>2, FoundOK DEF Found
  <2> QED BY <1>1, <1>2, <1>9, <1>14, <2>2, <2>3, ResumesGood
<1>15. CASE d = "source_changed" /\ call' = Undecided(k, "source_changed")
  BY <1>1, <1>9, <1>10, <1>15, UndecidesGood
<1>16. CASE call' = Undecided(k, "incomplete")
  BY <1>1, <1>9, <1>10, <1>16, UndecidesGood
<1>17. CASE subject = TheCitation
  <2>1. call' = Resume(j, Fallback(j.retained, "upstream_unavailable"))
    BY <1>3, <1>6, <1>17 DEF LoseLease, Becomes
  <2> QED BY <1>11, <2>1
<1>18. CASE subject # TheCitation
  <2>1. \/ call' = Undecided(j, "upstream_unavailable")
        \/ call' = CASE d \in {"fresh", "stale"} ->
                           IF j.fetched = Absent /\ s = j.retained
                           THEN Undecided(k, "upstream_unavailable")
                           ELSE Resume(k, Found(s.positive, d))
                     [] d = "source_changed" -> Undecided(k, "source_changed")
                     [] s.kind = "empty" ->
                           Resume(k, Fallback(j.retained, "upstream_unavailable"))
                     [] s.kind = "negative" -> Undecided(k, "incomplete")
    BY <1>3, <1>4, <1>5, <1>6, <1>8, <1>18 DEF LoseLease, Becomes
  <2>2. /\ d \in {"fresh", "stale"} <=> s.kind = "positive"
        /\ d = "source_changed" <=> s.kind = "reversal_pending"
        /\ s.kind \in {"positive", "reversal_pending", "empty", "negative"}
    BY <1>2, <1>5, DecideFacts DEF TimeOK, Cache!SourceState
  <2>3. \/ call' = Undecided(j, "upstream_unavailable")
        \/ call' = Undecided(k, "upstream_unavailable")
        \/ d \in {"fresh", "stale"} /\ call' = Resume(k, Found(s.positive, d))
        \/ d = "source_changed" /\ call' = Undecided(k, "source_changed")
        \/ call' = Resume(k, Fallback(j.retained, "upstream_unavailable"))
        \/ call' = Undecided(k, "incomplete")
    BY <2>1, <2>2
  <2> QED BY <1>11, <1>12, <1>13, <1>14, <1>15, <1>16, <2>3
<1> QED BY <1>17, <1>18

(***************************************************************************)
(* Beginning, and the steps around the call.                               *)
(***************************************************************************)

LEMMA OthersRefreshGood ==
    ASSUME CallTypeOK, CallInv, OutageInv, OthersRefresh
    PROVE  GoodStep
<1>1. /\ call.at \in {"leasing", "filling"} /\ call.subject \in Cached
      /\ UNCHANGED Environment
  BY DEF OthersRefresh, CallInv, LookupOK
<1>2. /\ TimeOK /\ Proper(call) /\ LookupOK(call)
      /\ \A subject \in Cached : /\ records[subject] \in Cache!SourceState
                                 /\ StateSeen(subject, records[subject])
      /\ KnownDoubts(call)
  BY <1>1, UnderWay
<1>3. PICK subject \in Cached : subject = call.subject
  BY <1>1
<1>4. PICK observation : observation = Says(source, subject)
  OBVIOUS
<1>5. observation \in Observable(subject)
  BY <1>3, <1>4, SaidIsObservable DEF CallTypeOK, OthersRefresh
<1>6. <<clock, subject, observation>> \in was
  <2>1. <<clock, subject, Says(source, subject)>> \in Had(source, clock)
    BY DEF Had, Subject
  <2> QED BY <1>4, <2>1 DEF CallInv, RecordsSeen
<1>7. PICK old \in Cache!SourceState : old = records[subject] /\ StateSeen(subject, old)
  BY <1>2
<1>8. PICK s \in Cache!SourceState :
          s = Cache!RecordObservation(old, observation, clock) /\ StateSeen(subject, s)
  BY <1>2, <1>5, <1>6, <1>7, ObservedSeen
<1>9. PICK r : r = [records EXCEPT ![subject] = s]
  OBVIOUS
<1>10. records' = r
  BY <1>3, <1>4, <1>7, <1>8, <1>9 DEF OthersRefresh, CallTypeOK
<1>11. r \in [Cached -> Cache!SourceState]
  BY <1>9 DEF CallTypeOK
<1>12. \A c \in Cached : StateSeen(c, r[c])
  BY <1>2, <1>8, <1>9 DEF CallTypeOK
<1>13. PICK k : k = call
  OBVIOUS
<1>14. Proper(k) /\ LookupOK(k) /\ k.at \in {"leasing", "filling"} /\ KnownDoubts(k)
  BY <1>1, <1>2, <1>13
<1>15. PICK m : m = IF k.at = "filling" THEN [k EXCEPT !.at = "outrun"] ELSE k
  OBVIOUS
<1>16. call' = m
  BY <1>13, <1>15 DEF OthersRefresh, Becomes
<1>17. Proper(m) /\ Open(m)
  <2>1. CASE k.at = "leasing"
    BY <1>14, <1>15, <2>1 DEF Open
  <2>2. CASE k.at = "filling"
    <3>1. /\ m \in CallType /\ m.at = "outrun" /\ m.retained = k.retained
          /\ m.fallback = k.fallback
          /\ m.began = k.began /\ m.subject = k.subject /\ m.tool = k.tool /\ m.cited = k.cited
          /\ m.required = k.required /\ m.searched = k.searched /\ m.facts = k.facts
      BY <1>14, <1>15, <2>2 DEF Proper, CallType
    <3>2. KeptSeen(m) /\ SearchWitnessed(m) /\ (CitedWitnessed(k) => CitedWitnessed(m))
      BY <1>14, <3>1 DEF LookupOK, KeptSeen, SearchWitnessed, CitedWitnessed
    <3>3. LookupOK(m)
      BY <1>14, <2>2, <3>1, <3>2 DEF LookupOK
    <3> QED BY <1>14, <3>1, <3>3 DEF Proper, Open
  <2> QED BY <1>14, <2>1, <2>2
<1>18. /\ m.at \in {"leasing", "outrun"} /\ m.subject = k.subject /\ m.began = k.began
       /\ m.facts = k.facts /\ m.retained = k.retained /\ m.fallback = k.fallback
  BY <1>14, <1>15 DEF Proper, CallType
<1>19. NoOlder(m, r)
  <2>1. s.kind = "positive" => s.positive.retrievedAt = clock
    <3>1. CASE observation # Absent
      BY <1>8, <3>1 DEF Cache!RecordObservation, Cache!PositiveState
    <3>2. CASE observation = Absent
      <4>1. old.kind \in {"empty", "positive", "negative", "reversal_pending"}
        BY DEF Cache!SourceState
      <4>2. s.kind \in {"negative", "reversal_pending"}
        BY <1>8, <3>2, <4>1
           DEF Cache!RecordObservation, Cache!NegativeState, Cache!ReversalPending
      <4> QED BY <4>2
    <3> QED BY <3>1, <3>2
  <2>2. m.began = call.began /\ m.subject = subject
    BY <1>3, <1>13, <1>18
  <2> QED BY <1>2, <1>9, <2>1, <2>2 DEF NoOlder, TimeOK, CallTypeOK
<1>20. Steady(m, r) /\ Reported(m, r)
  BY <1>14, <1>18, <1>19 DEF Steady, Reported, KnownDoubts
<1> QED BY <1>1, <1>10, <1>11, <1>12, <1>16, <1>17, <1>20, BecomesGood

\* More history does a call that is under way no harm, nor does a later time unless it
\* is about to store what it has just fetched.
LEMMA LaterGood ==
    ASSUME CallTypeOK, CallInv, OutageInv, call.at # "answered",
           UNCHANGED <<bound, records, call>>,
           clock' \in 0 .. MaxClock, clock <= clock', call.at = "filling" => clock' = clock,
           source' \in Source, changes' \in 0 .. MaxChanges,
           was' = was \cup Had(source', clock')
    PROVE  GoodStep
<1>1. CallTypeOK'
  BY DEF CallTypeOK
<1>2. PICK now \in 0 .. MaxClock : now = clock' /\ now >= clock /\ clock \in 0 .. MaxClock
  BY DEF CallTypeOK
<1>3. /\ \A subject, p : PositiveSeen(subject, p) => PositiveSeen(subject, p)'
      /\ \A subject, at : AbsenceSeen(subject, at) => AbsenceSeen(subject, at)'
  BY <1>2 DEF PositiveSeen, AbsenceSeen
<1>4. \A subject, s : StateSeen(subject, s) => StateSeen(subject, s)'
  BY <1>3 DEF StateSeen
<1>5. RecordsSeen'
  <2>1. (Had(source, clock) \subseteq was)'
    BY DEF Had
  <2> QED BY <1>4, <2>1 DEF CallInv, RecordsSeen
<1>6. ASSUME LookupOK(call) PROVE LookupOK(call)'
  <2>1. call \in CallType /\ call.began \in 0 .. MaxClock /\ call.began <= now
    BY <1>2, <1>6 DEF LookupOK, CallTypeOK, CallType
  <2>2. Lately(PositiveFreshness)' = Lately(PositiveFreshness)
    BY DEF Lately
  <2>3. \A subject, said, at, freshness : Witnessed(subject, said, at, freshness)
                                          => Witnessed(subject, said, at, freshness)'
    BY <2>2 DEF Witnessed
  <2>4. CitedWitnessed(call) => CitedWitnessed(call)'
    BY <2>3 DEF CitedWitnessed
  <2>5. Listed(call.required) => Listed(call.required)'
    BY DEF Listed
  <2>6. SearchWitnessed(call)'
    BY <1>6, <2>3, <2>5 DEF LookupOK, SearchWitnessed
  <2>7. KeptSeen(call)'
    BY <1>4, <1>6 DEF LookupOK, KeptSeen
  <2> QED BY <1>2, <1>6, <2>1, <2>4, <2>6, <2>7 DEF LookupOK
<1>7. CallInv'
  BY <1>5, <1>6 DEF CallInv, NotFoundIsComplete, VerifiedIsWitnessed, Answer
<1>8. OutageInv' /\ Reported(call', records')
  BY DEF OutageInv, NothingWasThere, DoubtsReported, EvidenceOutlivesOutage, Reported
<1> QED BY <1>1, <1>7, <1>8 DEF GoodStep

LEMMA ChangeGood ==
    ASSUME CallTypeOK, CallInv, OutageInv, Change
    PROVE  GoodStep
<1>1. PICK s \in Source : source' = s /\ was' = was \cup Had(s, clock)
  BY DEF Change
<1>2. clock' = clock /\ clock \in 0 .. MaxClock /\ changes' \in 0 .. MaxChanges
  BY DEF Change, CallTypeOK
<1>3. was' = was \cup Had(source', clock')
  BY <1>1, <1>2
<1> QED BY <1>1, <1>2, <1>3, LaterGood DEF Change

LEMMA TickGood ==
    ASSUME CallTypeOK, CallInv, OutageInv, Tick
    PROVE  GoodStep
<1>1. clock' \in 0 .. MaxClock /\ clock <= clock'
  BY DEF Tick, CallTypeOK
<1>2. source' \in Source /\ changes' \in 0 .. MaxChanges
  BY DEF Tick, CallTypeOK
<1>3. was' = was \cup Had(source', clock')
  BY DEF Tick
<1> QED BY <1>1, <1>2, <1>3, LaterGood DEF Tick

LEMMA IdleFacts ==
    /\ Idle \in CallType
    /\ Idle.at = "idle" /\ Idle.began = 0 /\ Idle.facts = InitialFacts
    /\ Idle.required = {} /\ Idle.searched = {}
    /\ Idle.retained = Null /\ Idle.fallback = Null
<1>1. InitialFacts \in ExecutionFacts
  BY DEF InitialFacts, ExecutionFacts, CacheStatus, FreshnessStatus, CircuitStatus,
     UpstreamStatus
<1>2. PICK f \in ExecutionFacts : f = InitialFacts
  BY <1>1
<1>3. Idle = [at |-> "idle", tool |-> "none", subject |-> TheCitation, maySync |-> TRUE,
              retained |-> Null, fallback |-> Null, fetched |-> Null,
              cited |-> Null, required |-> {}, searched |-> {},
              facts |-> f, answer |-> Null, began |-> 0]
  BY <1>2 DEF Idle
<1>4. Idle \in CallType
  BY <1>3, Subjects DEF CallType
<1> QED BY <1>2, <1>3, <1>4

\* A call that begins knows nothing yet.
LEMMA BeginGood ==
    ASSUME CallTypeOK, RecordsSeen, NEW tool \in {"verify_citation", "verify_quote"}, Begin(tool)
    PROVE  GoodStep
<1>1. UNCHANGED <<Environment, records>>
  BY DEF Begin
<1>2. /\ clock' = clock /\ source' = source /\ changes' = changes /\ bound' = bound
      /\ was' = was /\ records' = records
  BY <1>1 DEF Environment
<1>3. RecordsSeen'
  BY <1>2 DEF RecordsSeen, Had, StateSeen, PositiveSeen, AbsenceSeen
<1>4. PICK now \in 0 .. MaxClock : now = clock
  BY DEF CallTypeOK
<1>5. Idle \in CallType
  BY IdleFacts
<1>6. PICK j : j = [Idle EXCEPT !.tool = tool, !.began = now]
  OBVIOUS
<1>7. /\ j \in CallType /\ j.tool = tool /\ j.began = now /\ j.facts = InitialFacts
      /\ j.required = {} /\ j.searched = {}
  BY <1>5, <1>6 DEF CallType, Idle
<1>8. Timed(InitialFacts)
  BY DEF Timed, InitialFacts
<1>9. CASE call' = [Seek(Idle, TheCitation) EXCEPT !.tool = tool, !.began = clock]
  <2>1. PICK k : k = Seek(Idle, TheCitation)
    OBVIOUS
  <2>2. /\ k \in CallType /\ k.at = "looking" /\ k.subject = TheCitation
        /\ k.retained = Null /\ k.fallback = Null
        /\ k.required = {} /\ k.searched = {} /\ k.facts = InitialFacts
    <3>1. TheCitation \in Subject /\ TheCitation # TheCluster
      BY Subjects
    <3>2. PICK i \in CallType : i = Idle
      BY <1>5
    <3>3. i.required = {} /\ i.searched = {} /\ i.facts = InitialFacts
      BY <3>2, IdleFacts
    <3>4. k = Seek(i, TheCitation)
      BY <2>1, <3>2
    <3> QED BY <3>1, <3>3, <3>4, SeekFields
  <2>3. PICK m : m = [k EXCEPT !.tool = tool, !.began = now]
    OBVIOUS
  <2>4. /\ m \in CallType /\ m.at = "looking" /\ m.subject = TheCitation
        /\ m.retained = Null /\ m.fallback = Null /\ m.tool = tool /\ m.began = now
        /\ m.required = {} /\ m.searched = {} /\ m.facts = InitialFacts
    BY <2>2, <2>3 DEF CallType
  <2>5. call' = m
    BY <1>4, <1>9, <2>1, <2>3
  <2>6. LookupOK(call)'
    BY <1>2, <1>4, <2>4, <2>5, Subjects DEF LookupOK, SearchWitnessed, KeptSeen
  <2>7. CallTypeOK'
    BY <1>2, <2>4, <2>5 DEF CallTypeOK
  <2>8. CallInv'
    BY <1>3, <1>8, <2>4, <2>5, <2>6 DEF CallInv, NotFoundIsComplete, VerifiedIsWitnessed, Answer
  <2>9. OutageInv' /\ Reported(call', records')
    BY <2>4, <2>5
       DEF OutageInv, NothingWasThere, DoubtsReported, EvidenceOutlivesOutage, Reported
  <2> QED BY <2>7, <2>8, <2>9 DEF GoodStep
<1>10. CASE call' = Undecided([Idle EXCEPT !.tool = tool, !.began = clock],
                              "unsupported_citation")
  <2>1. PICK m : m = Undecided(j, "unsupported_citation")
    OBVIOUS
  <2>2. [outcome |-> "indeterminate", reason |-> "unsupported_citation"] \in AnswerType
    BY DEF AnswerType, Reason
  <2>3. /\ m \in CallType /\ m.at = "answered" /\ m.tool = tool /\ m.facts = InitialFacts
        /\ m.answer.outcome = "indeterminate" /\ m.answer.reason = "unsupported_citation"
        /\ m.retained = Null /\ m.fallback = Null
    BY <1>7, <2>1, <2>2, AnsweredFields DEF Undecided
  <2>4. call' = m
    BY <1>4, <1>6, <1>10, <2>1
  <2>5. CallTypeOK'
    BY <1>2, <2>3, <2>4 DEF CallTypeOK
  <2>6. Explains(m.facts, m.answer.reason)
    BY <2>3 DEF Explains
  <2>7. CallInv'
    BY <1>3, <1>8, <2>3, <2>4, <2>6 DEF CallInv, NotFoundIsComplete, VerifiedIsWitnessed, Answer
  <2>8. OutageInv' /\ Reported(call', records')
    BY <2>3, <2>4
       DEF OutageInv, NothingWasThere, DoubtsReported, EvidenceOutlivesOutage, Reported
  <2> QED BY <2>5, <2>7, <2>8 DEF GoodStep
<1> QED BY <1>9, <1>10 DEF Begin, Becomes

LEMMA InitGood ==
    ASSUME Init
    PROVE  CallTypeOK /\ CallInv /\ OutageInv
<1>1. /\ clock = 0 /\ source \in Source /\ changes = 0 /\ bound \in {"all", "no_bucket", "none"}
      /\ call = Idle /\ was = Had(source, 0)
  BY DEF Init
<1>2. PICK known \in Known :
          records = [subject \in Cached |->
                        IF subject \in known /\ Says(source, subject) # "none"
                        THEN Cache!RecordObservation(Cache!Empty, Says(source, subject), 0)
                        ELSE Cache!Empty]
  BY DEF Init
<1>3. Idle \in CallType /\ Idle.at = "idle" /\ Idle.began = 0 /\ Idle.facts = InitialFacts
  BY IdleFacts
<1>4. TimeOK
  BY <1>1, <1>3 DEF TimeOK
<1>5. Cache!Empty \in Cache!SourceState /\ \A subject : StateSeen(subject, Cache!Empty)
  BY DEF Cache!Empty, Cache!SourceState, StateSeen
<1>6. ASSUME NEW subject \in Cached
      PROVE  records[subject] \in Cache!SourceState /\ StateSeen(subject, records[subject])
  <2>1. CASE subject \in known /\ Says(source, subject) # "none"
    <3>1. PICK observation : observation = Says(source, subject)
      OBVIOUS
    <3>2. observation \in Observable(subject)
      BY <1>1, <2>1, <3>1, SaidIsObservable
    <3>3. <<clock, subject, observation>> \in was
      <4>1. <<clock, subject, Says(source, subject)>> \in Had(source, clock)
        BY DEF Had, Subject
      <4> QED BY <1>1, <3>1, <4>1
    <3>4. records[subject] = Cache!RecordObservation(Cache!Empty, observation, clock)
      BY <1>1, <1>2, <2>1, <3>1
    <3>5. PICK empty \in Cache!SourceState : empty = Cache!Empty /\ StateSeen(subject, empty)
      BY <1>5
    <3>6. PICK r : r = Cache!RecordObservation(empty, observation, clock)
      OBVIOUS
    <3>7. r \in Cache!SourceState /\ StateSeen(subject, r)
      BY <1>4, <3>2, <3>3, <3>5, <3>6, ObservedSeen
    <3>8. records[subject] = r
      BY <3>4, <3>5, <3>6
    <3> QED BY <3>7, <3>8
  <2>2. CASE ~(subject \in known /\ Says(source, subject) # "none")
    <3>1. records[subject] = Cache!Empty
      BY <1>2, <2>2
    <3> QED BY <1>5, <3>1
  <2> QED BY <2>1, <2>2
<1>7. CallTypeOK
  <2>1. DOMAIN records = Cached /\ records = [subject \in Cached |-> records[subject]]
    BY <1>2
  <2>2. records \in [Cached -> Cache!SourceState]
    BY <1>6, <2>1
  <2> QED BY <1>1, <1>3, <2>2 DEF CallTypeOK
<1>8. RecordsSeen
  BY <1>1, <1>6 DEF RecordsSeen
<1>9. Timed(InitialFacts)
  BY DEF Timed, InitialFacts
<1>10. CallInv
  BY <1>1, <1>3, <1>8, <1>9 DEF CallInv, NotFoundIsComplete, VerifiedIsWitnessed, Answer
<1>11. OutageInv
  BY <1>1, IdleFacts DEF OutageInv, NothingWasThere, DoubtsReported, EvidenceOutlivesOutage
<1> QED BY <1>7, <1>10, <1>11

(***************************************************************************)
(* Every step of a call, and every step around it.                         *)
(***************************************************************************)

\* A step of verifyCitation, verifyQuote or the cached source: the call stays well-typed; what
\* it takes a fact from is what CourtListener had lately; not_found and verified stay witnessed;
\* an outage is only reported over nothing retained; and an answer that says CourtListener
\* contradicts what was kept is in the execution facts too.
THEOREM StepsGood ==
    ASSUME CallTypeOK, CallInv, OutageInv, Steps
    PROVE  GoodStep
<1>1. CASE Look
  BY <1>1, LookGood
<1>2. CASE Wait
  BY <1>2, WaitGood
<1>3. CASE GiveUp
  BY <1>3, GiveUpGood
<1>4. CASE Own
  BY <1>4, OwnGood
<1>5. CASE StoreFails
  BY <1>5, StoreFailsGood
<1>6. CASE AskWithout
  BY <1>6, AskWithoutGood
<1>7. CASE Ask
  BY <1>7, AskGood
<1>8. CASE Sync
  BY <1>8, SyncGood
<1>9. CASE Send
  BY <1>9, SendGood
<1>10. CASE Fill
  BY <1>10, FillGood
<1>11. CASE LoseLease
  BY <1>11, LoseLeaseGood
<1> QED BY <1>1, <1>2, <1>3, <1>4, <1>5, <1>6, <1>7, <1>8, <1>9, <1>10, <1>11 DEF Steps

\* The same of what goes on around the call: another request's refresh, a change of what
\* CourtListener has, and the clock.
THEOREM AroundGood ==
    ASSUME CallTypeOK, CallInv, OutageInv, Around
    PROVE  GoodStep
BY OthersRefreshGood, ChangeGood, TickGood DEF Around

(***************************************************************************)
(* The request around the call.                                            *)
(***************************************************************************)

RequestType == [stage : Stage, keyed : BOOLEAN, charged : BOOLEAN,
                boundary : Boundary \cup {Null}, facts : ExecutionFacts \cup {Null}]
BodyType == [bytes : Nat, chunks : Nat, whole : BOOLEAN]
ResponseType == [status : 200 .. 503, id : BOOLEAN,
                 tool : {"mcp", "parse_citation", "verify_citation", "verify_quote"},
                 answer : Answers \cup {Null}]
Fate == {"untried", "took", "failed"}
SinksType == [log : Fate, trace : Fate, metric : Fate]

\* What the invariant says of the request alone.
Pipe ==
    /\ request \in RequestType
    /\ body \in BodyType
    /\ response # Null => response \in ResponseType
    /\ event # Null => event.facts \in ExecutionFacts
    /\ sinks \in SinksType
    /\ AdmissionOK
    /\ CompletionOK
    /\ IdIsWhole
    /\ FailuresAreExplained
    /\ LatencyOfAttempts

LEMMA Parts ==
    IInv <=> /\ CallTypeOK /\ Pipe
             /\ request.stage \in Early => CallInv
             /\ OutageInv
             /\ request.stage # "calling" => call = Idle
BY DEF IInv, TypeOK, Pipe, RequestType, BodyType, ResponseType, SinksType, Fate

\* The same after a step.
LEMMA PartsAfter ==
    ASSUME CallTypeOK', Pipe', (request.stage \in Early => CallInv)', OutageInv',
           (request.stage # "calling" => call = Idle)'
    PROVE  IInv'
BY DEF IInv, TypeOK, Pipe, RequestType, BodyType, ResponseType, SinksType, Fate

\* The call is as it was while the request goes on.
LEMMA CallKept ==
    ASSUME UNCHANGED callVars
    PROVE  (CallTypeOK => CallTypeOK') /\ (CallInv => CallInv') /\ (OutageInv => OutageInv')
<1>1. /\ clock' = clock /\ source' = source /\ changes' = changes /\ records' = records
      /\ bound' = bound /\ call' = call /\ was' = was
  BY DEF callVars
<1>2. CallTypeOK => CallTypeOK'
  BY <1>1 DEF CallTypeOK
<1>3. ASSUME CallInv PROVE CallInv'
  <2>1. RecordsSeen'
    BY <1>1, <1>3 DEF CallInv, RecordsSeen, Had, StateSeen, PositiveSeen, AbsenceSeen
  <2>2. LookupOK(call) => LookupOK(call)'
    BY <1>1 DEF LookupOK, CitedWitnessed, SearchWitnessed, KeptSeen, StateSeen, PositiveSeen,
       AbsenceSeen, Witnessed, Listed, Lately
  <2>3. NotFoundIsComplete'
    BY <1>1, <1>3 DEF CallInv, NotFoundIsComplete, Answer, Lately
  <2>4. VerifiedIsWitnessed'
    BY <1>1, <1>3 DEF CallInv, VerifiedIsWitnessed, Answer, Witnessed, Listed, Lately
  <2> QED BY <1>1, <1>3, <2>1, <2>2, <2>3, <2>4 DEF CallInv
<1>4. OutageInv => OutageInv'
  BY <1>1 DEF OutageInv, NothingWasThere, DoubtsReported, EvidenceOutlivesOutage
<1> QED BY <1>2, <1>3, <1>4

LEMMA StageFacts ==
    /\ Early \subseteq Stage
    /\ \A stage \in {"summarizing", "logging", "tracing", "measuring", "done"} :
           stage \in Stage /\ stage \notin Early
BY DEF Early, Stage

\* A step of the request that leaves the call alone.
LEMMA GoesWithoutCall ==
    ASSUME IInv, UNCHANGED callVars, Pipe', request.stage # "calling",
           request'.stage \in Early => request.stage \in Early
    PROVE  IInv'
<1>1. CallTypeOK' /\ (request'.stage \in Early => CallInv') /\ OutageInv'
  BY CallKept, Parts
<1>2. call' = Idle
  BY Parts DEF callVars
<1> QED BY <1>1, <1>2, PartsAfter

\* The completion of a request is one that its telemetry can be made of.
LEMMA CompletesGood ==
    ASSUME Pipe, request.stage \in Early, NEW r \in RequestType,
           NEW outcome \in Boundary \cup {Null}, NEW facts \in ExecutionFacts \cup {Null},
           facts # Null => Timed(facts), Completes(r, outcome, facts),
           NEW b \in BodyType, body' = b, NEW m \in ResponseType, response' = m,
           m.answer # Null => facts # Null /\ Explains(facts, m.answer.reason),
           m.id => b.whole /\ b.bytes <= MaxIdBytes /\ b.chunks <= MaxIdChunks
    PROVE  Pipe' /\ request'.stage \notin Early
<1>1. event = Null /\ event' = event /\ sinks' = sinks
  BY DEF Completes, Pipe, CompletionOK
<1>2. PICK stage \in {"summarizing", "done"} :
          request' = [r EXCEPT !.stage = stage, !.boundary = outcome, !.facts = facts]
  BY DEF Completes
<1>3. stage \in Stage /\ stage \notin Early
  BY StageFacts
<1>4. PICK q : q = [r EXCEPT !.stage = stage, !.boundary = outcome, !.facts = facts]
  OBVIOUS
<1>5. q \in RequestType /\ q.stage = stage /\ q.facts = facts
  BY <1>3, <1>4 DEF RequestType
<1>6. request' = q
  BY <1>2, <1>4
<1>7. AdmissionOK'
  BY <1>5, <1>6 DEF AdmissionOK
<1>8. CompletionOK'
  BY <1>1, <1>3, <1>5, <1>6 DEF CompletionOK, Early
<1>9. IdIsWhole' /\ FailuresAreExplained' /\ LatencyOfAttempts'
  BY <1>1 DEF IdIsWhole, FailuresAreExplained, LatencyOfAttempts
<1> QED BY <1>1, <1>3, <1>5, <1>6, <1>7, <1>8, <1>9 DEF Pipe

LEMMA InitialFactsFacts == InitialFacts \in ExecutionFacts /\ Timed(InitialFacts)
BY IdleFacts DEF CallType, Timed, InitialFacts

LEMMA BareFacts ==
    ASSUME NEW status \in 200 .. 503, NEW id \in BOOLEAN
    PROVE  LET m == [Bare(status) EXCEPT !.id = id] IN
           m \in ResponseType /\ m.answer = Null /\ m.id = id
BY DEF Bare, ResponseType

\* A request that is turned away.
LEMMA RejectsGood ==
    ASSUME IInv, request.stage \in Early \ {"calling"}, UNCHANGED callVars,
           NEW status \in 200 .. 503,
           NEW outcome \in Boundary, NEW facts \in {Null, InitialFacts},
           Rejects(status, outcome, facts)
    PROVE  IInv'
<1>1. Pipe /\ request \in RequestType /\ body \in BodyType
  BY Parts DEF Pipe
<1>2. PICK m : m = Bare(status)
  OBVIOUS
<1>3. m \in ResponseType /\ m.answer = Null /\ m.id = FALSE
  BY <1>2 DEF Bare, ResponseType
<1>4. response' = m /\ body' = body /\ Completes(request, outcome, facts)
  BY <1>2 DEF Rejects
<1>5. Pipe' /\ request'.stage \notin Early
  BY <1>1, <1>3, <1>4, CompletesGood, InitialFactsFacts
<1> QED BY <1>5, GoesWithoutCall

(***************************************************************************)
(* The steps of a request.                                                 *)
(***************************************************************************)

\* A request goes on to another early stage.
LEMMA EarlyGood ==
    ASSUME IInv, request.stage \in Early \ {"calling"}, UNCHANGED callVars,
           NEW q \in RequestType, request' = q, q.stage \in Early, q.facts = request.facts,
           NEW b \in BodyType, body' = b,
           UNCHANGED <<response, event, sinks>>, AdmissionOK'
    PROVE  IInv'
<1>1. Pipe /\ response = Null /\ event = Null
  BY Parts DEF Pipe, CompletionOK
<1>2. CompletionOK'
  BY <1>1 DEF Pipe, CompletionOK, Early
<1>3. IdIsWhole' /\ FailuresAreExplained' /\ LatencyOfAttempts'
  BY <1>1 DEF IdIsWhole, FailuresAreExplained, LatencyOfAttempts
<1>4. Pipe'
  BY <1>1, <1>2, <1>3 DEF Pipe
<1> QED BY <1>4, GoesWithoutCall

LEMMA GoesFields ==
    ASSUME request \in RequestType, NEW stage \in Stage
    PROVE  LET q == [request EXCEPT !.stage = stage] IN
           /\ q \in RequestType /\ q.stage = stage /\ q.keyed = request.keyed
           /\ q.charged = request.charged /\ q.facts = request.facts
           /\ q.boundary = request.boundary
BY DEF RequestType

LEMMA ArriveGood == ASSUME IInv, Arrive PROVE IInv'
<1>1. At("arrived") /\ UNCHANGED callVars
  BY DEF Arrive
<1>2. Pipe /\ request \in RequestType /\ body \in BodyType /\ request.stage = "arrived"
  BY <1>1, Parts DEF Pipe, At
<1>3. ASSUME NEW status \in {200, 404, 405}, Ends(status) PROVE IInv'
  <2>1. PICK q : q = [request EXCEPT !.stage = "done"]
    OBVIOUS
  <2>2. q \in RequestType /\ q.stage = "done" /\ q.facts = request.facts
    BY <1>2, <2>1, GoesFields, StageFacts
  <2>3. PICK m : m = Bare(status)
    OBVIOUS
  <2>4. m \in ResponseType /\ m.answer = Null /\ m.id = FALSE
    BY <2>3 DEF Bare, ResponseType
  <2>5. /\ request' = q /\ response' = m /\ body' = body /\ event' = event /\ sinks' = sinks
    BY <1>3, <2>1, <2>3 DEF Ends, Goes
  <2>6. event = Null
    BY <1>2 DEF Pipe, CompletionOK, Early
  <2>7. AdmissionOK' /\ CompletionOK'
    BY <1>2, <2>2, <2>4, <2>5 DEF Pipe, AdmissionOK, CompletionOK, Early
  <2>8. IdIsWhole' /\ FailuresAreExplained' /\ LatencyOfAttempts'
    BY <2>4, <2>5, <2>6 DEF IdIsWhole, FailuresAreExplained, LatencyOfAttempts
  <2>9. Pipe'
    BY <1>2, <2>2, <2>4, <2>5, <2>7, <2>8 DEF Pipe
  <2>10. request.stage # "calling" /\ request'.stage \notin Early
    BY <1>2, <2>2, <2>5 DEF Early
  <2> QED BY <1>1, <2>9, <2>10, GoesWithoutCall
<1>4. CASE Goes("authenticating") /\ UNCHANGED <<body, response, event, sinks>>
  <2>1. PICK q : q = [request EXCEPT !.stage = "authenticating"]
    OBVIOUS
  <2>2. q \in RequestType /\ q.stage = "authenticating" /\ q.facts = request.facts
    BY <1>2, <2>1, GoesFields DEF Stage
  <2>3. request' = q
    BY <1>4, <2>1 DEF Goes
  <2>4. AdmissionOK'
    BY <1>2, <1>4, <2>2, <2>3 DEF Pipe, AdmissionOK
  <2> QED BY <1>1, <1>2, <1>4, <2>2, <2>3, <2>4, EarlyGood DEF Early
<1> QED BY <1>3, <1>4 DEF Arrive

LEMMA AuthenticateGood == ASSUME IInv, Authenticate PROVE IInv'
<1>1. At("authenticating") /\ UNCHANGED callVars
  BY DEF Authenticate
<1>2. Pipe /\ request \in RequestType /\ body \in BodyType /\ request.stage = "authenticating"
  BY <1>1, Parts DEF Pipe, At
<1>3. ASSUME NEW status \in {401, 503},
             NEW outcome \in {"unauthorized", "authentication_unavailable"},
             Rejects(status, outcome, Null)
      PROVE  IInv'
  BY <1>1, <1>2, <1>3, RejectsGood DEF Boundary, Early
<1>4. CASE /\ request' = [request EXCEPT !.stage = "admitting", !.keyed = TRUE]
           /\ UNCHANGED <<body, response, event, sinks>>
  <2>1. PICK q : q = [request EXCEPT !.stage = "admitting", !.keyed = TRUE]
    OBVIOUS
  <2>2. q \in RequestType /\ q.stage = "admitting" /\ q.facts = request.facts
    BY <1>2, <2>1 DEF RequestType, Stage
  <2>3. AdmissionOK'
    BY <1>2, <1>4, <2>1, <2>2 DEF Pipe, AdmissionOK
  <2> QED BY <1>1, <1>2, <1>4, <2>1, <2>2, <2>3, EarlyGood DEF Early
<1> QED BY <1>3, <1>4 DEF Authenticate

LEMMA AdmitGood == ASSUME IInv, Admit PROVE IInv'
<1>1. At("admitting") /\ UNCHANGED callVars
  BY DEF Admit
<1>2. Pipe /\ request \in RequestType /\ body \in BodyType /\ request.stage = "admitting"
  BY <1>1, Parts DEF Pipe, At
<1>3. PICK answer \in LimiterAnswer :
          LET counted == [request EXCEPT !.charged = answer.counted] IN
          CASE Admitted(answer) ->
                  /\ request' = [counted EXCEPT !.stage = "checking"]
                  /\ UNCHANGED <<body, response, event, sinks>>
            [] ~Admitted(answer) /\ answer.kind = "lost" ->
                  /\ Completes(counted, "admission_unavailable", Null)
                  /\ response' = Bare(503)
                  /\ UNCHANGED body
            [] answer.kind = "exhausted" ->
                  /\ Goes("recovering")
                  /\ UNCHANGED <<body, response, event, sinks>>
  BY DEF Admit
<1>4. /\ answer.kind \in {"allowed", "exhausted", "lost"} /\ answer.counted \in BOOLEAN
      /\ answer.kind = "allowed" => answer.counted
  BY DEF LimiterAnswer
<1>5. PICK r : r = [request EXCEPT !.charged = answer.counted]
  OBVIOUS
<1>6. /\ r \in RequestType /\ r.stage = "admitting" /\ r.charged = answer.counted
      /\ r.keyed = request.keyed /\ r.facts = request.facts
  BY <1>2, <1>4, <1>5 DEF RequestType
<1>7. CASE answer.kind = "allowed"
  <2>1. PICK q : q = [r EXCEPT !.stage = "checking"]
    OBVIOUS
  <2>2. /\ q \in RequestType /\ q.stage = "checking" /\ q.charged = r.charged
        /\ q.keyed = r.keyed /\ q.facts = r.facts
    BY <1>6, <2>1 DEF RequestType, Stage
  <2>3. request' = q /\ UNCHANGED <<body, response, event, sinks>>
    BY <1>3, <1>5, <1>7, <2>1 DEF Admitted
  <2>4. AdmissionOK'
    BY <1>2, <1>4, <1>6, <1>7, <2>2, <2>3 DEF Pipe, AdmissionOK
  <2> QED BY <1>1, <1>2, <1>6, <2>2, <2>3, <2>4, EarlyGood DEF Early
<1>8. CASE answer.kind = "lost"
  <2>1. /\ Completes(r, "admission_unavailable", Null) /\ response' = Bare(503)
        /\ body' = body
    BY <1>3, <1>5, <1>8 DEF Admitted
  <2>2. PICK m : m = Bare(503)
    OBVIOUS
  <2>3. m \in ResponseType /\ m.answer = Null /\ m.id = FALSE
    BY <2>2 DEF Bare, ResponseType
  <2>4. "admission_unavailable" \in Boundary /\ request.stage \in Early \ {"calling"}
    BY <1>2 DEF Boundary, Early
  <2>5. Pipe' /\ request'.stage \notin Early
    BY <1>2, <1>6, <2>1, <2>2, <2>3, <2>4, CompletesGood
  <2> QED BY <1>1, <2>4, <2>5, GoesWithoutCall
<1>9. CASE answer.kind = "exhausted"
  <2>1. PICK q : q = [request EXCEPT !.stage = "recovering"]
    OBVIOUS
  <2>2. q \in RequestType /\ q.stage = "recovering" /\ q.facts = request.facts
    BY <1>2, <2>1, GoesFields DEF Stage
  <2>3. request' = q /\ UNCHANGED <<body, response, event, sinks>>
    BY <1>3, <1>9, <2>1 DEF Admitted, Goes
  <2>4. AdmissionOK'
    BY <1>2, <2>2, <2>3 DEF Pipe, AdmissionOK
  <2> QED BY <1>1, <1>2, <2>2, <2>3, <2>4, EarlyGood DEF Early
<1> QED BY <1>4, <1>7, <1>8, <1>9

LEMMA CheckGood == ASSUME IInv, Check PROVE IInv'
<1>1. At("checking") /\ UNCHANGED callVars
  BY DEF Check
<1>2. Pipe /\ request \in RequestType /\ body \in BodyType /\ request.stage = "checking"
  BY <1>1, Parts DEF Pipe, At
<1>3. ASSUME NEW status \in {400, 413}, NEW outcome \in {"protocol_rejected", "payload_too_large"},
             Rejects(status, outcome, InitialFacts)
      PROVE  IInv'
  BY <1>1, <1>2, <1>3, RejectsGood DEF Boundary, Early
<1>4. ASSUME NEW stage \in {"reading", "serving"}, Goes(stage),
             NEW b \in BodyType, body' = b, UNCHANGED <<response, event, sinks>>,
             b.bytes = 0, stage = "serving" => b.whole
      PROVE  IInv'
  <2>1. PICK q : q = [request EXCEPT !.stage = stage]
    OBVIOUS
  <2>2. /\ q \in RequestType /\ q.stage = stage /\ q.facts = request.facts
        /\ q.keyed = request.keyed /\ q.charged = request.charged
    BY <1>2, <2>1, GoesFields DEF Stage
  <2>3. request' = q
    BY <1>4, <2>1 DEF Goes
  <2>4. AdmissionOK'
    BY <1>2, <1>4, <2>2, <2>3 DEF Pipe, AdmissionOK
  <2> QED BY <1>1, <1>2, <1>4, <2>2, <2>3, <2>4, EarlyGood DEF Early
<1>5. body.bytes = 0
  BY <1>2 DEF Pipe, AdmissionOK
<1>6. CASE Goes("reading") /\ UNCHANGED <<body, response, event, sinks>>
  BY <1>2, <1>4, <1>5, <1>6
<1>7. CASE /\ Goes("serving") /\ body' = [body EXCEPT !.whole = TRUE]
           /\ UNCHANGED <<response, event, sinks>>
  <2>1. PICK b : b = [body EXCEPT !.whole = TRUE]
    OBVIOUS
  <2>2. b \in BodyType /\ b.bytes = 0 /\ b.whole
    BY <1>2, <1>5, <2>1 DEF BodyType
  <2> QED BY <1>4, <1>7, <2>1, <2>2
<1> QED BY <1>3, <1>6, <1>7 DEF Check

LEMMA ExhaustedGood ==
    ASSUME IInv, request.stage = "recovering", UNCHANGED callVars,
           NEW id \in BOOLEAN, Exhausted(id), NEW b \in BodyType, body' = b,
           id => b.whole /\ b.bytes <= MaxIdBytes /\ b.chunks <= MaxIdChunks
    PROVE  IInv'
<1>1. Pipe /\ request \in RequestType /\ request.stage \in Early \ {"calling"}
  BY Parts DEF Pipe, Early
<1>2. PICK m : m = [Bare(429) EXCEPT !.id = id]
  OBVIOUS
<1>3. m \in ResponseType /\ m.answer = Null /\ m.id = id
  BY <1>2, BareFacts
<1>4. Completes(request, "admission_exhausted", Null) /\ response' = m
  BY <1>2 DEF Exhausted
<1>5. "admission_exhausted" \in Boundary
  BY DEF Boundary
<1>6. Pipe' /\ request'.stage \notin Early
  BY <1>1, <1>3, <1>4, <1>5, CompletesGood
<1> QED BY <1>1, <1>6, GoesWithoutCall

LEMMA RecoverGood == ASSUME IInv, Recover PROVE IInv'
<1>1. At("recovering") /\ UNCHANGED callVars
  BY DEF Recover, RecoverChunk, RecoverEnd, RecoverNothing
<1>2. Pipe /\ request \in RequestType /\ body \in BodyType /\ request.stage = "recovering"
  BY <1>1, Parts DEF Pipe, At
<1>3. body.bytes <= MaxIdBytes /\ body.chunks <= MaxIdChunks
  BY <1>2 DEF Pipe, AdmissionOK
<1>4. ASSUME NEW size \in {0, 1}, RecoverChunk(size) PROVE IInv'
  <2>1. PICK b : b = Counts(size)
    OBVIOUS
  <2>2. b \in BodyType
    <3>1. body.bytes + size \in Nat /\ body.chunks + 1 \in Nat
      BY <1>2 DEF BodyType
    <3>2. b = [body EXCEPT !.bytes = body.bytes + size, !.chunks = body.chunks + 1]
      BY <2>1 DEF Counts
    <3> QED BY <1>2, <3>1, <3>2 DEF BodyType
  <2>3. CASE TooMuch(b)
    <3>1. Exhausted(FALSE) /\ body' = b
      BY <1>4, <2>1, <2>3 DEF RecoverChunk
    <3> QED BY <1>1, <1>2, <2>2, <3>1, ExhaustedGood
  <2>4. CASE ~TooMuch(b)
    <3>1. UNCHANGED <<request, response, event, sinks>> /\ body' = b
      BY <1>4, <2>1, <2>4 DEF RecoverChunk
    <3>2. b.bytes <= MaxIdBytes /\ b.chunks <= MaxIdChunks
      BY <2>2, <2>4 DEF TooMuch, BodyType
    <3>3. AdmissionOK'
      BY <1>2, <3>1, <3>2 DEF AdmissionOK
    <3>4. PICK q \in RequestType : q = request /\ q.stage = "recovering"
      BY <1>2
    <3> QED BY <1>1, <1>2, <2>2, <3>1, <3>3, <3>4, EarlyGood DEF Early
  <2> QED BY <2>3, <2>4
<1>5. CASE RecoverEnd
  <2>1. PICK id \in BOOLEAN : Exhausted(id)
    BY <1>5 DEF RecoverEnd
  <2>2. PICK b : b = [body EXCEPT !.whole = TRUE]
    OBVIOUS
  <2>3. b \in BodyType /\ b.whole /\ b.bytes = body.bytes /\ b.chunks = body.chunks
    BY <1>2, <2>2 DEF BodyType
  <2>4. body' = b
    BY <1>5, <2>2 DEF RecoverEnd
  <2> QED BY <1>1, <1>2, <1>3, <2>1, <2>3, <2>4, ExhaustedGood
<1>6. CASE RecoverNothing
  <2>1. Exhausted(FALSE) /\ body' = body
    BY <1>6 DEF RecoverNothing
  <2> QED BY <1>1, <1>2, <2>1, ExhaustedGood
<1> QED BY <1>4, <1>5, <1>6 DEF Recover

LEMMA ReadGood == ASSUME IInv, Read PROVE IInv'
<1>1. At("reading") /\ UNCHANGED callVars
  BY DEF Read, ReadChunk, ReadEnd, ReadBreaks
<1>2. Pipe /\ request \in RequestType /\ body \in BodyType /\ request.stage = "reading"
  BY <1>1, Parts DEF Pipe, At
<1>3. ASSUME Rejects(413, "payload_too_large", InitialFacts) PROVE IInv'
  <2>1. "payload_too_large" \in Boundary /\ request.stage \in Early \ {"calling"}
    BY <1>2 DEF Boundary, Early
  <2> QED BY <1>1, <1>3, <2>1, RejectsGood
<1>4. ASSUME NEW size \in {0, 1}, ReadChunk(size) PROVE IInv'
  <2>1. CASE body.bytes + size <= MaxBody
    <3>1. PICK b : b = [body EXCEPT !.bytes = @ + size]
      OBVIOUS
    <3>2. b \in BodyType /\ b.bytes <= MaxBody
      BY <1>2, <2>1, <3>1 DEF BodyType
    <3>3. body' = b /\ UNCHANGED <<request, response, event, sinks>>
      BY <1>4, <2>1, <3>1 DEF ReadChunk
    <3>4. AdmissionOK'
      BY <1>2, <3>2, <3>3 DEF Pipe, AdmissionOK
    <3>5. PICK q \in RequestType : q = request /\ q.stage = "reading"
      BY <1>2
    <3> QED BY <1>1, <1>2, <3>2, <3>3, <3>4, <3>5, EarlyGood DEF Early
  <2>2. CASE ~(body.bytes + size <= MaxBody)
    BY <1>3, <1>4, <2>2 DEF ReadChunk
  <2> QED BY <2>1, <2>2
<1>5. CASE ReadBreaks
  BY <1>3, <1>5 DEF ReadBreaks
<1>6. CASE ReadEnd
  <2>1. PICK q : q = [request EXCEPT !.stage = "serving"]
    OBVIOUS
  <2>2. /\ q \in RequestType /\ q.stage = "serving" /\ q.facts = request.facts
        /\ q.keyed = request.keyed /\ q.charged = request.charged
    BY <1>2, <2>1, GoesFields DEF Stage
  <2>3. PICK b : b = [body EXCEPT !.whole = TRUE]
    OBVIOUS
  <2>4. b \in BodyType /\ b.whole /\ b.bytes = body.bytes
    BY <1>2, <2>3 DEF BodyType
  <2>5. request' = q /\ body' = b /\ UNCHANGED <<response, event, sinks>>
    BY <1>6, <2>1, <2>3 DEF ReadEnd, Goes
  <2>6. AdmissionOK'
    BY <1>2, <2>2, <2>4, <2>5 DEF Pipe, AdmissionOK
  <2> QED BY <1>1, <1>2, <2>2, <2>4, <2>5, <2>6, EarlyGood DEF Early
<1> QED BY <1>4, <1>5, <1>6 DEF Read

LEMMA ServeOthersGood == ASSUME IInv, ServeOthers PROVE IInv'
<1>1. PICK tool \in {"mcp", "parse_citation"}, outcome \in {Null, "parsed", "unrecognized"},
           status \in 200 .. 503 : Serve(tool, outcome, status)
  BY DEF ServeOthers
<1>2. At("serving") /\ UNCHANGED callVars /\ body' = body
  BY <1>1 DEF Serve
<1>3. /\ Pipe /\ request \in RequestType /\ body \in BodyType /\ request.stage = "serving"
      /\ request.stage \in Early \ {"calling"}
  BY <1>2, Parts DEF Pipe, At, Early
<1>4. PICK a : a = IF outcome = Null THEN Null ELSE [outcome |-> outcome, reason |-> Null]
  OBVIOUS
<1>5. a \in Answers \cup {Null} /\ (a # Null => a.reason = Null)
  BY <1>4 DEF Answers
<1>6. PICK m : m = [Bare(status) EXCEPT !.tool = tool, !.answer = a]
  OBVIOUS
<1>7. m \in ResponseType /\ m.answer = a /\ m.id = FALSE
  BY <1>5, <1>6 DEF Bare, ResponseType
<1>8. response' = m /\ Completes(request, Null, InitialFacts)
  BY <1>1, <1>4, <1>6 DEF Serve
<1>9. m.answer # Null => Explains(InitialFacts, m.answer.reason)
  BY <1>5, <1>7, NullIsNoReason
<1>10. InitialFacts # Null
  BY InitialFactsFacts
<1>11. Pipe' /\ request'.stage \notin Early
  BY <1>2, <1>3, <1>7, <1>8, <1>9, <1>10, InitialFactsFacts, CompletesGood
<1> QED BY <1>2, <1>3, <1>11, GoesWithoutCall

LEMMA CallGood ==
    ASSUME IInv, NEW tool \in {"verify_citation", "verify_quote"}, Call(tool) PROVE IInv'
<1>1. request.stage = "serving" /\ Begin(tool) /\ Goes("calling")
      /\ UNCHANGED <<response, event, sinks>>
  BY DEF Call, At
<1>2. Pipe /\ CallTypeOK /\ CallInv
  BY <1>1, Parts DEF Early
<1>3. CallTypeOK' /\ CallInv' /\ OutageInv'
  BY <1>1, <1>2, BeginGood DEF CallInv, GoodStep
<1>4. PICK q : q = [request EXCEPT !.stage = "calling"]
  OBVIOUS
<1>5. q \in RequestType /\ q.stage = "calling" /\ q.facts = request.facts
  BY <1>2, <1>4, GoesFields DEF Stage, Pipe
<1>6. request' = q
  BY <1>1, <1>4 DEF Goes
<1>7. PICK b \in BodyType : b = [bytes |-> 0, chunks |-> 0, whole |-> FALSE]
  BY DEF BodyType
<1>8. body' = b
  BY <1>7 DEF Call
<1>9. response = Null /\ event = Null
  BY <1>1, <1>2 DEF Pipe, CompletionOK, Early
<1>10. AdmissionOK' /\ CompletionOK'
  BY <1>1, <1>2, <1>5, <1>6, <1>9 DEF Pipe, AdmissionOK, CompletionOK, Early
<1>11. IdIsWhole' /\ FailuresAreExplained' /\ LatencyOfAttempts'
  BY <1>1, <1>9 DEF IdIsWhole, FailuresAreExplained, LatencyOfAttempts
<1>12. Pipe'
  BY <1>1, <1>2, <1>5, <1>6, <1>8, <1>9, <1>10, <1>11 DEF Pipe
<1> QED BY <1>3, <1>5, <1>6, <1>12, PartsAfter

\* The request is as it was while the call goes on.
LEMMA PipeKept ==
    ASSUME Pipe, UNCHANGED pipeline
    PROVE  Pipe'
BY DEF Pipe, pipeline, AdmissionOK, CompletionOK, IdIsWhole, FailuresAreExplained,
   LatencyOfAttempts

LEMMA VerifyGood == ASSUME IInv, Verify PROVE IInv'
<1>1. request.stage = "calling" /\ Steps /\ UNCHANGED pipeline /\ request' = request
  BY DEF Verify, At, pipeline
<1>2. CallTypeOK' /\ CallInv' /\ OutageInv'
  BY <1>1, Parts, StepsGood DEF Early, GoodStep
<1>3. Pipe'
  BY <1>1, Parts, PipeKept
<1> QED BY <1>1, <1>2, <1>3, PartsAfter

LEMMA ElsewhereGood == ASSUME IInv, Elsewhere PROVE IInv'
<1>1. /\ request.stage \in {"serving", "calling"} /\ Around /\ UNCHANGED pipeline
      /\ request' = request
  BY DEF Elsewhere, pipeline
<1>2. CallTypeOK' /\ CallInv' /\ OutageInv'
  BY <1>1, Parts, AroundGood DEF Early, GoodStep
<1>3. Pipe'
  BY <1>1, Parts, PipeKept
<1>4. ASSUME request.stage # "calling" PROVE call' = Idle
  <2>1. call = Idle /\ call.at = "idle"
    BY <1>4, Parts, IdleFacts
  <2> QED BY <1>1, <2>1 DEF Around, OthersRefresh, Change, Tick
<1> QED BY <1>1, <1>2, <1>3, <1>4, PartsAfter

LEMMA FinishGood == ASSUME IInv, Finish PROVE IInv'
<1>1. /\ request.stage = "calling" /\ call.at = "answered" /\ call' = Idle /\ body' = body
      /\ clock' = clock /\ source' = source /\ changes' = changes /\ bound' = bound
      /\ records' = records /\ Completes(request, Null, call.facts)
  BY DEF Finish, At
<1>2. Pipe /\ CallTypeOK /\ CallInv /\ request \in RequestType /\ body \in BodyType
  BY <1>1, Parts DEF Early, Pipe
<1>3. CallTypeOK'
  BY <1>1, <1>2, IdleFacts DEF CallTypeOK
<1>4. /\ call.facts \in ExecutionFacts /\ call.answer \in AnswerType \cup {Null}
      /\ call.tool \in {"verify_citation", "verify_quote"}
  BY <1>1, <1>2 DEF CallTypeOK, CallType, CallInv
<1>5. Timed(call.facts) /\ Explains(call.facts, call.answer.reason)
  BY <1>1, <1>2 DEF CallInv
<1>6. PICK facts \in ExecutionFacts, a \in Answers \cup {Null},
           tool \in {"verify_citation", "verify_quote"} :
          facts = call.facts /\ a = call.answer /\ tool = call.tool
  BY <1>4 DEF Answers
<1>7. PICK m : m = [Bare(200) EXCEPT !.tool = tool, !.answer = a]
  OBVIOUS
<1>8. m \in ResponseType /\ m.answer = a /\ m.id = FALSE
  <2>1. a \in Answers \cup {Null} /\ tool \in {"verify_citation", "verify_quote"}
    BY <1>6
  <2>2. PICK bare : bare = Bare(200)
    OBVIOUS
  <2>3. bare \in ResponseType /\ bare.id = FALSE
    BY <2>2 DEF Bare, ResponseType
  <2>4. m = [bare EXCEPT !.tool = tool, !.answer = a]
    BY <1>7, <2>2
  <2> QED BY <2>1, <2>3, <2>4 DEF ResponseType
<1>9. response' = m
  BY <1>6, <1>7 DEF Finish
<1>10. Completes(request, Null, facts) /\ facts # Null /\ Timed(facts) /\ Explains(facts, a.reason)
  BY <1>1, <1>5, <1>6
<1>11. Pipe' /\ request'.stage \notin Early
  BY <1>1, <1>2, <1>8, <1>9, <1>10, CompletesGood DEF Early
<1>12. OutageInv'
  BY <1>1, IdleFacts DEF OutageInv, NothingWasThere, DoubtsReported, EvidenceOutlivesOutage
<1> QED BY <1>1, <1>3, <1>11, <1>12, PartsAfter

(***************************************************************************)
(* Telemetry.                                                              *)
(***************************************************************************)

\* A step of the telemetry: the completion stands, and so does the event once it is made.
LEMMA TelemetryGood ==
    ASSUME IInv, UNCHANGED <<callVars, body, response>>, request.stage \notin Early,
           NEW stage \in Stage \ (Early \cup {"summarizing"}), Goes(stage), sinks' \in SinksType,
           event' # Null => event'.facts \in ExecutionFacts /\ Timed(event'.facts),
           event' # Null /\ response.answer # Null =>
               Explains(event'.facts, response.answer.reason)
    PROVE  IInv'
<1>1. Pipe /\ request \in RequestType
  BY Parts DEF Pipe
<1>2. PICK q : q = [request EXCEPT !.stage = stage]
  OBVIOUS
<1>3. q \in RequestType /\ q.stage = stage /\ q.facts = request.facts
  BY <1>1, <1>2, GoesFields
<1>4. request' = q
  BY <1>2 DEF Goes
<1>5. AdmissionOK'
  BY <1>3, <1>4 DEF AdmissionOK, Early
<1>6. CompletionOK'
  BY <1>1, <1>3, <1>4 DEF Pipe, CompletionOK
<1>7. IdIsWhole' /\ FailuresAreExplained' /\ LatencyOfAttempts'
  BY <1>1 DEF Pipe, IdIsWhole, FailuresAreExplained, LatencyOfAttempts
<1>8. Pipe'
  BY <1>1, <1>3, <1>4, <1>5, <1>6, <1>7 DEF Pipe
<1>9. request.stage # "calling" /\ request'.stage \notin Early
  BY <1>3, <1>4 DEF Early
<1> QED BY <1>8, <1>9, GoesWithoutCall

LEMMA SummarizeGood == ASSUME IInv, Summarize PROVE IInv'
<1>1. /\ request.stage = "summarizing" /\ Goes("logging")
      /\ UNCHANGED <<body, response, sinks, callVars>>
  BY DEF Summarize, At
<1>2. Pipe /\ request \in RequestType
  BY Parts DEF Pipe
<1>3. PICK facts : facts = IF request.facts = Null THEN InitialFacts ELSE request.facts
  OBVIOUS
<1>4. event'.facts = facts
  <2>1. PICK outcome, category :
            event' = [outcome |-> outcome, errorCategory |-> category,
                      facts |-> IF request.facts = Null THEN InitialFacts ELSE request.facts]
    BY DEF Summarize
  <2> QED BY <1>3, <2>1
<1>5. facts \in ExecutionFacts /\ Timed(facts)
  BY <1>2, <1>3, InitialFactsFacts DEF RequestType, Pipe, CompletionOK
<1>6. response.answer # Null => Explains(facts, response.answer.reason)
  BY <1>1, <1>2, <1>3, StageFacts DEF Pipe, CompletionOK
<1>7. sinks' \in SinksType /\ request.stage \notin Early
  BY <1>1, <1>2, StageFacts DEF Pipe
<1>8. "logging" \in Stage \ (Early \cup {"summarizing"})
  BY DEF Stage, Early
<1> QED BY <1>1, <1>4, <1>5, <1>6, <1>7, <1>8, TelemetryGood

LEMMA SinksGood == ASSUME IInv, Log \/ Trace \/ Measure PROVE IInv'
<1>1. PICK stage \in {"tracing", "measuring", "done"} :
          Goes(stage) /\ request.stage \in {"logging", "tracing", "measuring"}
  BY DEF Log, Trace, Measure, At
<1>2. UNCHANGED <<body, response, event, callVars>>
  BY DEF Log, Trace, Measure
<1>3. sinks' \in SinksType
  <2>1. sinks \in SinksType
    BY Parts DEF Pipe
  <2> QED BY <2>1 DEF Log, Trace, Measure, SinksType, Fate
<1>4. /\ event' # Null => event'.facts \in ExecutionFacts /\ Timed(event'.facts)
      /\ event' # Null /\ response.answer # Null => Explains(event'.facts, response.answer.reason)
  BY <1>2, Parts DEF Pipe, LatencyOfAttempts, FailuresAreExplained
<1>5. stage \in Stage \ (Early \cup {"summarizing"}) /\ request.stage \notin Early
  BY <1>1 DEF Stage, Early
<1> QED BY <1>1, <1>2, <1>3, <1>4, <1>5, TelemetryGood

(***************************************************************************)
(* The invariant, and what follows from it.                                *)
(***************************************************************************)

LEMMA WorkerInitGood == ASSUME WorkerInit PROVE IInv
<1>1. CallTypeOK /\ CallInv /\ OutageInv /\ call = Idle
  BY InitGood DEF WorkerInit, Init
<1>2. PICK q \in RequestType : q = [stage |-> "arrived", keyed |-> FALSE, charged |-> FALSE,
                                    boundary |-> Null, facts |-> Null]
  BY DEF RequestType, Stage
<1>3. PICK b \in BodyType : b = [bytes |-> 0, chunks |-> 0, whole |-> FALSE]
  BY DEF BodyType
<1>4. PICK s \in SinksType : s = [log |-> "untried", trace |-> "untried", metric |-> "untried"]
  BY DEF SinksType, Fate
<1>5. request = q /\ body = b /\ response = Null /\ event = Null /\ sinks = s
  BY <1>2, <1>3, <1>4 DEF WorkerInit, RequestInit
<1>6. AdmissionOK /\ CompletionOK
  BY <1>2, <1>3, <1>5 DEF AdmissionOK, CompletionOK, Early
<1>7. IdIsWhole /\ FailuresAreExplained /\ LatencyOfAttempts
  BY <1>5 DEF IdIsWhole, FailuresAreExplained, LatencyOfAttempts
<1> QED BY <1>1, <1>5, <1>6, <1>7, Parts DEF Pipe

LEMMA NextGood == ASSUME IInv, [Next]_vars PROVE IInv'
<1>1. CASE Arrive \/ Authenticate \/ Admit \/ Check \/ Recover
  BY <1>1, ArriveGood, AuthenticateGood, AdmitGood, CheckGood, RecoverGood
<1>2. CASE Read \/ ServeOthers
  BY <1>2, ReadGood, ServeOthersGood
<1>3. ASSUME NEW tool \in {"verify_citation", "verify_quote"}, Call(tool) PROVE IInv'
  BY <1>3, CallGood
<1>4. CASE Verify \/ Finish \/ Elsewhere
  BY <1>4, VerifyGood, FinishGood, ElsewhereGood
<1>5. CASE Summarize \/ Log \/ Trace \/ Measure
  BY <1>5, SummarizeGood, SinksGood
<1>6. CASE UNCHANGED vars
  <2>1. Pipe' /\ CallTypeOK' /\ (CallInv => CallInv') /\ OutageInv'
    BY <1>6, Parts, PipeKept, CallKept DEF vars
  <2>2. request' = request /\ call' = call
    BY <1>6 DEF vars, pipeline, callVars
  <2> QED BY <2>1, <2>2, Parts, PartsAfter
<1> QED BY <1>1, <1>2, <1>3, <1>4, <1>5, <1>6 DEF Next, Worker

\* IInv: whatever the client sends, CourtListener answers and the stores keep, what the
\* worker knows of a request and of its call was so, and its limits were kept.
THEOREM RequestInvariant == Spec => []IInv
<1>1. WorkerInit => IInv
  BY WorkerInitGood
<1>2. IInv /\ [Next]_vars => IInv'
  BY NextGood
<1> QED BY <1>1, <1>2, PTL DEF Spec

LEMMA CallIdle ==
    ASSUME IInv
    PROVE  CallInv \/ (call = Idle /\ call.at = "idle")
<1>1. CASE request.stage \in Early
  BY <1>1, Parts
<1>2. CASE request.stage \notin Early
  <2>1. call = Idle
    BY <1>2, Parts DEF Early
  <2> QED BY <2>1, IdleFacts
<1> QED BY <1>1, <1>2

\* NotFoundIsComplete: "not found" is only answered of a citation whose absence is recent,
\* or of a quote whose every opinion was searched.
THEOREM NotFoundTakesAll == Spec => []NotFoundIsComplete
<1>1. IInv => NotFoundIsComplete
  BY CallIdle DEF CallInv, NotFoundIsComplete, Answer
<1> QED BY <1>1, RequestInvariant, PTL

\* VerifiedIsWitnessed: what is verified CourtListener said, when the evidence says it did.
THEOREM VerifiedTakesWitness == Spec => []VerifiedIsWitnessed
<1>1. IInv => VerifiedIsWitnessed
  BY CallIdle DEF CallInv, VerifiedIsWitnessed, Answer
<1> QED BY <1>1, RequestInvariant, PTL

\* EvidenceOutlivesOutage: a call that blames CourtListener's failure, or the coordinator's
\* refusal, had no evidence in the cache from before it began, however its lookups and
\* those of others interleave.
THEOREM EvidenceOutlives == Spec => []EvidenceOutlivesOutage
<1>1. IInv => EvidenceOutlivesOutage
  BY Parts DEF OutageInv
<1> QED BY <1>1, RequestInvariant, PTL

\* ContradictionsReported: telemetry learns of every contradiction that is answered.
THEOREM ContradictionsAreTold == Spec => ContradictionsReported
<1> DEFINE A == /\ call'.at = "answered" /\ call'.answer.reason = "source_changed"
                /\ ~(call.subject \in Opinion /\ records' # records)
                => call'.facts.cache = "source_changed"
<1>1. ASSUME IInv, [Next]_vars PROVE A \/ UNCHANGED callVars
  <2>1. CASE Verify
    <3>1. Reported(call', records')
      BY <1>1, <2>1, Parts, StepsGood DEF Verify, At, Early, GoodStep
    <3> QED BY <3>1 DEF Reported
  <2>2. CASE Elsewhere
    <3>1. Reported(call', records')
      BY <1>1, <2>2, Parts, AroundGood DEF Elsewhere, Early, GoodStep
    <3> QED BY <3>1 DEF Reported
  <2>3. ASSUME NEW tool \in {"verify_citation", "verify_quote"}, Call(tool) PROVE A
    <3>1. request.stage = "serving" /\ Begin(tool)
      BY <2>3 DEF Call, At
    <3>2. CallTypeOK /\ RecordsSeen
      BY <1>1, <3>1, Parts DEF Early, CallInv
    <3>3. Reported(call', records')
      BY <3>1, <3>2, BeginGood DEF GoodStep
    <3> QED BY <3>3 DEF Reported
  <2>4. CASE Finish
    BY <2>4, IdleFacts DEF Finish
  <2>5. CASE \/ Arrive \/ Authenticate \/ Admit \/ Check \/ Recover \/ Read \/ ServeOthers
             \/ Summarize \/ Log \/ Trace \/ Measure \/ UNCHANGED vars
    BY <2>5 DEF Arrive, Authenticate, Admit, Check, Recover, RecoverChunk, RecoverEnd,
       RecoverNothing, Read, ReadChunk, ReadEnd, ReadBreaks, ServeOthers, Serve, Summarize,
       Log, Trace, Measure, vars
  <2> HIDE DEF A
  <2> QED BY <1>1, <2>1, <2>2, <2>3, <2>4, <2>5 DEF Next, Worker
<1>2. IInv /\ [Next]_vars => [A]_callVars
  BY <1>1
<1> QED BY <1>2, RequestInvariant, PTL DEF Spec, ContradictionsReported

\* FailuresAreExplained: the event of an answer that blames CourtListener shows for what.
THEOREM EventsExplainFailures == Spec => []FailuresAreExplained
<1>1. IInv => FailuresAreExplained
  BY DEF IInv
<1> QED BY <1>1, RequestInvariant, PTL

\* OnlyAdmittedCalled: no tool is called for a request that was not authenticated and
\* counted, or of which only a part was read.
THEOREM CallsAreAdmitted == Spec => OnlyAdmittedCalled
<1> DEFINE Entitled == /\ request.keyed /\ request.charged
                       /\ body.whole /\ body.bytes <= MaxBody
<1>1. ASSUME IInv, [Next]_vars, call.at = "idle", call'.at # "idle" PROVE Entitled
  <2>1. ASSUME NEW tool, Call(tool) PROVE Entitled
    BY <1>1, <2>1, Parts DEF Call, At, Pipe, AdmissionOK
  <2>2. ~Verify
    BY <1>1 DEF Verify, Steps, Look, Wait, GiveUp, Own, StoreFails, AskWithout, Ask, Sync,
       Send, Fill, LoseLease
  <2>3. ~Finish /\ ~Elsewhere
    BY <1>1 DEF Finish, Elsewhere, Around, OthersRefresh, Change, Tick
  <2>4. call' # call
    BY <1>1
  <2>5. /\ ~Arrive /\ ~Authenticate /\ ~Admit /\ ~Check /\ ~Recover /\ ~Read /\ ~ServeOthers
        /\ ~Summarize /\ ~Log /\ ~Trace /\ ~Measure /\ ~(UNCHANGED vars)
    BY <2>4 DEF Arrive, Authenticate, Admit, Check, Recover, RecoverChunk, RecoverEnd,
       RecoverNothing, Read, ReadChunk, ReadEnd, ReadBreaks, ServeOthers, Serve, Summarize,
       Log, Trace, Measure, vars, callVars
  <2> QED BY <1>1, <2>1, <2>2, <2>3, <2>5 DEF Next, Worker
<1>2. IInv /\ [Next]_vars => [call.at = "idle" /\ call'.at # "idle" => Entitled]_vars
  BY <1>1
<1> QED BY <1>2, RequestInvariant, PTL DEF Spec, OnlyAdmittedCalled
=============================================================================
