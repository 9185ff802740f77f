-------------------------- MODULE CourtListenerApi --------------------------
(***************************************************************************)
(* The clients of CourtListener's API, src/courtlistener/api.ts and        *)
(* case-law-api.ts: what they make of whatever comes back.  A response is  *)
(* an exception, or a status with a body; a body is readable if it is JSON *)
(* of at most MAX_RESPONSE_BODY_BYTES that arrives whole.  Of what a body  *)
(* says matters whether it is about what was asked for.                    *)
(***************************************************************************)
EXTENDS Sequences, FiniteSets, Integers

Failed(aborted) == [thrown |-> TRUE, aborted |-> aborted]
Response(status, readable, json) ==
    [thrown |-> FALSE, status |-> status, readable |-> readable, json |-> json]

\* The outcomes of the clients.
Malformed == [kind |-> "malformed_response"]
Missing == [kind |-> "missing"]
RateLimited == [kind |-> "rate_limited"]
Unavailable(failure) == [kind |-> "unavailable", failure |-> failure]
Outcome(kind) == [kind |-> kind]

\* sendCourtListenerRequest: an attempt that is aborted has run out of time.
Thrown(response) == Unavailable(IF response.aborted THEN "timeout" ELSE "transport")

ServerError(response) == response.status \in 500 .. 599
Ok(response) == response.status \in 200 .. 299

-----------------------------------------------------------------------------
(* The citation lookup                                                     *)

\* An item answers for the citations it names.
Item(status, named, clusters) == [status |-> status, named |-> named, clusters |-> clusters]
Named(id, trusted) == [id |-> id, trusted |-> trusted]

CitationOutcome(requested, item) ==
    LET isRequestedCitation == item.named = <<requested>> IN
    CASE item.status = 200 ->
            IF \/ ~isRequestedCitation
               \/ item.clusters = <<>>
               \/ \E i \in DOMAIN item.clusters : ~item.clusters[i].trusted
            THEN Malformed
            ELSE [kind |-> "matched", clusters |-> item.clusters]
      [] item.status = 300 -> Outcome("ambiguous")
      [] item.status = 400 -> Outcome("unknown_reporter")
      [] item.status = 404 -> IF isRequestedCitation THEN Outcome("absent") ELSE Malformed
      [] item.status = 429 -> Outcome("item_cap")
      [] OTHER -> Malformed

LookupCitation(requested, response) ==
    CASE response.thrown -> Thrown(response)
      [] ~response.thrown /\ ServerError(response) -> Unavailable("server")
      [] ~response.thrown /\ response.status = 429 -> RateLimited
      [] ~response.thrown /\ Ok(response) /\ response.readable /\ Len(response.json) = 1 ->
            CitationOutcome(requested, response.json[1])
      [] OTHER -> Malformed

\* Only the body of a report of usage is abstracted to whether it parses.
GetUsage(response) ==
    CASE response.thrown -> Outcome("unavailable")
      [] ~response.thrown /\ response.status >= 500 -> Outcome("unavailable")
      [] ~response.thrown /\ response.status = 429 -> RateLimited
      [] ~response.thrown /\ Ok(response) /\ response.readable -> Outcome("usage")
      [] OTHER -> Malformed

-----------------------------------------------------------------------------
(* Clusters and opinions                                                   *)

\* get: a resource that is gone is told from one that cannot be had.
Get(response, parsed) ==
    CASE response.thrown -> Thrown(response)
      [] ~response.thrown /\ response.status = 404 -> Missing
      [] ~response.thrown /\ response.status = 429 -> RateLimited
      [] ~response.thrown /\ ServerError(response) -> Unavailable("server")
      [] ~response.thrown /\ Ok(response) /\ response.readable /\ parsed # Malformed -> parsed
      [] OTHER -> Malformed

\* One reference that cannot be trusted spoils the list.
ClusterFrom(id, response) ==
    LET raw == response.json IN
    IF response.thrown \/ ~response.readable \/ raw.id # id \/ ~raw.trusted
       \/ \E reference \in raw.opinions : ~reference.trusted
    THEN Malformed
    ELSE [kind |-> "found", url |-> raw.url,
          opinions |-> {reference.id : reference \in raw.opinions}]

GetCluster(id, response) == Get(response, ClusterFrom(id, response))

\* Variant: the text is taken whichever opinion it is of.
AnyOpinionFrom(id, response) ==
    LET raw == response.json IN
    IF response.thrown \/ ~response.readable \/ raw.clusterIds = {}
    THEN Malformed
    ELSE [kind |-> "found", clusterIds |-> raw.clusterIds, text |-> raw.text]

\* The cluster of an opinion is named by its number, by a link or by both, which
\* must then agree.
OpinionFrom(id, response) ==
    LET raw == response.json IN
    IF response.thrown \/ ~response.readable \/ raw.id # id \/ Cardinality(raw.clusterIds) # 1
    THEN Malformed
    ELSE [kind |-> "found", clusterIds |-> raw.clusterIds, text |-> raw.text]

GetOpinion(id, response) == Get(response, OpinionFrom(id, response))
=============================================================================
