# LexCerta in TLA+

LexCerta answers, over MCP, whether a legal citation exists and whether a
quotation is in the opinion it cites. The evidence comes from CourtListener,
which allows a limited number of requests; everything below protects that
allowance, the allowance of each customer, or the meaning of the evidence kept
between requests.

The new stack is a Cloudflare Worker (`src/worker.ts`) with Durable Objects, D1
and R2. Workers share nothing in memory: they meet in the rows of D1, the objects
of R2 and the RPCs of two kinds of Durable Object, and can be evicted between any
two awaits. That is where the modules look. The older Node and Vercel server
(`src/server.ts`, `app/`) is still in the repository and is not modelled.

## 1. The system

| Component | State | Operations | What is hard | What makes it correct |
|---|---|---|---|---|
| Budget coordinator, `src/courtlistener/coordinator.ts`, `budget-*.ts` | one row: two circuits, the quota, pending reservations with leases | `admit`, `recordOutcome`, `beginQuotaSync`, `recordQuotaSync`, `failQuotaSync`, `recordQuotaSyncRateLimited` | callers die and answer late, clocks differ, a report of usage overlaps requests in flight | one probe of a half-open circuit, one synchronization, no overdraft, a 429 is obeyed, no deadlock of the quota |
| Lookups, `gateway.ts`, `case-law-admission.ts`, `quota-sync.ts` | none but where each lookup is | a lookup is a sequence of RPCs and requests | retries, deaths between the request and its record | what is granted is there; a lookup causes a bounded number of requests |
| API-key limiter, `src/admission/` | SQLite rows of one Durable Object per key, its alarm; the limits in D1 | `admit`, `alarm`; `changeLimits` from outside | an await between reading the limits and deciding, late and unordered stamps, retention | never more than the allowance in any minute or day, no stale limits, rows are deleted |
| Citation source cache, `src/verification/citation-source-cache.ts`, `cached-citation-gateway.ts`, `src/cache/d1-citation-observation-store.ts` | two rows per citation: state and fetch lease | `read`, `acquireLease`, `fillLease`, `purgeExpiredNegativeLease`, `releaseLease` | read-modify-write over awaits, leases that lapse during a fetch, unequal clocks | evidence is never lost, a reversal is confirmed, one fetch at a time, answers are current |
| Opinion source cache, `opinion-source-cache.ts`, `d1-r2-opinion-source-store.ts`, `case-law-opinion-source.ts` | as above, with objects in R2 and a row per version | as above, with a staged upload | two stores that do not commit together, responses that are lost | a stored opinion can be read; late owners publish nothing and take nothing away |
| Key lifecycle and retention, `src/admin/`, `src/retention/` | rows of customers, keys and audit events in D1 | issue, rotate, revoke, change limits, sweep | a read, a decision and a batch, by several operators, while a sweep deletes rows | one successor per key, revocation is final, events are true, a version names one pair of limits, the sweep never fails |
| Authentication, `src/auth/api-key.ts`, `src/admin/access.ts` | none | authenticate | the row may change at any time | a key that was revoked, has expired or was replaced is refused |
| Request pipeline, `src/worker.ts`, `worker-request.ts`, `request-body.ts`, `mcp.ts` | where one request is | one request, from its arrival to its telemetry | early returns, a body its client feeds as it likes, answers of the limiter that are lost | admission comes first, only whole bodies within the limit are served, the worker itself leaves no request without an answer |
| Verification, `verify-citation.ts`, `verify-quote.ts` and the gateways they use | the course of one call | `verify_citation`, `verify_quote` | the source and the caches change between the requests of one call | "not found" only after everything was searched, "verified" only with a witness, evidence outlives an outage |
| CourtListener API clients, `api.ts`, `case-law-api.ts` | none | `lookupCitation`, `getUsage`, `getCluster`, `getOpinion` | answers that are late, broken or about something else | only what is about what was asked for becomes evidence |
| Telemetry, `src/telemetry/` | the facts of one request | observe, summarize, log, trace, measure | facts of several lookups folded into one event, sinks that fail | the event explains the answer, every sink is offered it |
| Legacy server, `src/clients/`, `src/resilience/`, `src/cache/*-cache.ts`, `src/tools/`, `src/parser/` | in-memory caches, a circuit breaker, a token bucket | tool calls | promises that interleave | replaced by the above |

A request goes through authentication, the limiter of its key, and then a tool.
A tool asks the citation cache; a miss asks the coordinator for a reservation,
sends one request to CourtListener and records its outcome; a quotation does the
same for clusters and opinions, the opinions through the opinion cache.

`PROJECT.json` lists the hazards of each component at their lines, with the
properties that would catch them.

## 2. Plan

| # | Modules | State |
|---|---|---|
| 1 | `CourtListenerBudget`, `CourtListenerCoordinator` and proofs | done |
| 2 | `CourtListenerClients`, which composes lookups with the coordinator, and proofs | done |
| 3 | `RollingWindow`, `ApiKeyLimiter` and proofs | done |
| 4 | `CitationSource`, `CitationRecord` (abstract), `CitationCache` (implements it) and proofs | done |
| 5 | `OpinionStore`: 4 over R2 objects, version rows and leases, again an implementation of `CitationRecord`, and proofs | done |
| 6 | `KeyLifecycle`: operators, authentication and the retention sweep on the rows of D1, and proofs | done |
| 7 | `ExecutionFacts`, `CourtListenerApi`, `Verification`, `WorkerRequest`: one request from its arrival to its telemetry, with the call it makes, and proofs | done |
| 8 | liveness of the lookups of opinions; `CourtListenerCoordinator` as an implementation of the decisions that `Verification` assumes | left |

Every module takes its periods, bounds and fault model as CONSTANTS, has one
action per operation and no RECURSIVE operator, so that it can be proved about.

## 3. The modules

### CourtListenerBudget, CourtListenerCoordinator

`CourtListenerBudget` translates the pure functions of `budget-*.ts`: a budget is a
record (`circuits`, `quota`, `pendingReservations`) and every function is an
operator from a budget and a time to a budget. `CourtListenerCoordinator` is the
Durable Object: its only variable of the code's is the row, `budget`; each RPC is
an action, atomic because the object loads, transforms and stores the row without
an await in between. The time of a call is the caller's: any time between
`clock - Behind` and `clock + Ahead`. `lastRetryAt` is history.

Reservations are compared by token, endpoint and kind, as in the code; that tokens
are not reused while in use (`crypto.randomUUID`) is in the callers' guards.
Windows have a scope, so several windows of one scope are possible.

### CourtListenerClients

Lookups of both kinds as processes over the coordinator: each await of `gateway.ts`,
`case-law-admission.ts` and `quota-sync.ts` is an action. `upstream` is the account
at CourtListener, external: it counts the requests it serves, refuses when a window
is empty and renews windows at their resets. A lookup may die between any two
awaits. Times agree here (`Ahead = Behind = 0` in the run). A reserved request is
assumed to leave before its lease ends; the lease is twice the request timeout and
nothing is awaited between the reservation and the request.

### RollingWindow, ApiKeyLimiter

`RollingWindow` is `rolling-window.ts` as operators over a set of admissions (rows
with the same time are numbered). `ApiKeyLimiter` is one object: `Arrive`,
`ReadCanonicalLimits` (the D1 read, the only await of a decision), `Decide`
(the transaction and the schedule that follows it; Cloudflare lets no other event in
between because nothing else is awaited but storage), `Alarm`, and `Fail` for a call
that ends with an error before it decided. `cleanupAt` stands for the row of the
schedule and the alarm, which are always set together. `granted` is history: every
admission ever made.

### CitationSource, CitationRecord, CitationCache

`CitationSource` is `citation-source-cache.ts`: four kinds of state, the decision
(`RequiresRevalidation`), the observation and the purge. `CitationRecord` is what
the cache promises: one record that learns one observation at a time, and only when
it has nothing to answer from. Its instants need not be in order, since they come
from many clocks. `CitationCache` is the code: every D1 statement and what the worker
does with its result are separate actions. A lookup's state holds exactly the
locals that are read again: the state it has read, its last reading of the clock,
the end of the lease, the fallback, and the answer. Each lookup's clock differs from
the true time by a constant `Skew`. `during` and `evidence` are history.

What differs from the code, on purpose: the owner's token is chosen when the lookup
begins instead of after its first read; the freshness of an answer is judged when the
batch returns; the delays of the polling loop are left out, so a waiter may look
again at any time.

### OpinionStore

`case-law-opinion-source.ts` over `d1-r2-opinion-source-store.ts`. The states are those of
`CitationSource` with a text for a cluster (the two TypeScript files are the same machine), so
`Record` is `CitationRecord` again. A text is a content, a representation and the owner whose
token is in the key of its object; `objects` are the keys in R2, `versions` the rows of metadata.
Reading takes three actions (state, object, row), filling six: `FindVersion`, `VerifyObject` or
`Upload`, `ReadForFill`, `Stamp` (the clock is read once more), `Commit` (the batch, which either
finds its lease or changes nothing) and `Unstage`. `Fail` is a statement that throws.
`Commit` also has the outcome that the batch took effect and its response was lost; `lost` is
history. Statements other than the batch may take effect and be reported as failures too; what
the others see of that is what the death of the lookup right after it would have left, which
`Finish` includes.

`CallerOrder` is the order in which the caller writes the keys of a provenance. The purge compares
rows as text, so it matters: `"schema"` is what the tests use, `"other"` what
`case-law-opinion-source.ts` does. A lookup's state holds the locals read again, as for citations,
and the token is chosen at the beginning. Polling delays and the reasons for
`indeterminate` other than `source_changed` are left out, as are rows that are corrupt or belong to
another provenance.

### KeyLifecycle

`src/admin/worker.ts` over `key-lifecycle.ts` and `key-store.ts`, the five statements of
`d1-lifecycle-retention.ts`, and what `auth/api-key.ts` makes of a row. A request of an operator has two
actions: `Find` (or `BeginIssue`), which reads the row and takes the decision the code takes on it, and
the batch, which D1 runs as one transaction: `Issue`, `Rotate`, `Revoke`, `ChangeLimits`. The time a
request writes is that of the decision, any time between its read and its batch. `Fail` is a
statement that throws or a worker that dies before the batch. `Sweep` is one transaction too and may
run late, with the time it was scheduled for. `Authenticate` is an operator, which the properties ask
at any moment.

Limits are one number instead of two. Audit events are a set, without their random id, actor and
environment; two revocations of one key at one instant are therefore one event here. A request that
is refused before it writes leaves no trace and is left out. `used` and `revoked` are history.

### ExecutionFacts, CourtListenerApi

`ExecutionFacts` is the collector of `execution-facts.ts`: an operator per kind of fact, and their
fold. `CourtListenerApi` is what `api.ts` and `case-law-api.ts` make of a response. A response is an
exception or a status with a body; a body is readable or not, and of what it says only matters which
citation, cluster or opinion it is about and whether its identifiers and URLs can be trusted.

### Verification

One call of `verify_citation` or `verify_quote`, through `cached-citation-gateway.ts`,
`gateway.ts`, `case-law-gateway.ts` and `case-law-opinion-source.ts`, with the facts each of them tells. Every
await is an action: `Look` at the cache, `Wait`, `GiveUp` or `Own` a lease, `Ask` the coordinator,
`Sync` the quota, `Send` the request, `Fill` the cache or `LoseLease`; `StoreFails` is D1 or R2, which may
fail at each of them. `Resume` is the tool: what it does with a reply, whichever gateway it came from.

Below the call everything is as abstract as its own module allows. A cache is one state per subject,
as in `CitationRecord`, which `CitationCache` and `OpinionStore` implement; other lookups refresh it
(`OthersRefresh`). The coordinator is the set of decisions it can take (`Admission`). CourtListener is
a `source` that may change at any time (`Change`) and, asked for a subject, answers with the truth, a
failure, or something about another subject; `Results` is what the clients make of that.
`was` is history: what CourtListener had, and when. A text is `"match"` or `"other"`
(it has the quote or not), `"blank"` or unusable (`"none"`).

As in the other modules a fetch takes no time, an opinion whose absence has expired is
not fetched again (finding 3), and the text of a retained opinion can always be read (finding 2
is about the store). The order in which opinions are searched is left open.

### WorkerRequest

One request through `worker.ts` and `worker-request.ts`; `request.stage` is where it is. `body` counts what was
read, for both readers: that of the id of an exhausted request, with limits on bytes and
chunks and a deadline, and that of an admitted request, with a limit on bytes alone. A chunk may be
empty. `Completes` is `completed(...)`: the response, and the telemetry that follows it in
`waitUntil`: `Summarize` (the response is read again, if it can be, and the event is made), `Log`,
`Trace`, `Measure`. `charged` is history: whether the limiter has counted the request. The call is
`Verification`, composed through its variables: `Verify` is a step of the call and `Elsewhere` one of what
surrounds it. The tool in the telemetry of a request that calls none is `"mcp"` here; the code takes it from the
header `mcp-name` (`telemetry/runtime.ts:34`): that changes the label of its event, and its outcome from
"verified" to "parsed".

## 4. The runs

| Run | Module | Result | States |
|---|---|---|---|
| `CoordinatorCircuits` | `MCCourtListenerCoordinator` | `SingleProbe`, `OpenDrains` hold | 91 thousand |
| `CoordinatorQuota` | `MCCourtListenerCoordinator` | `SyncExclusive`, `RateLimitHonoured`, `StrandedForever` hold | 134 thousand |
| `CoordinatorStranding` | `MCCourtListenerCoordinator` | `ExhaustedUntilReset` is violated | |
| `QuotaFlow` | `MCCourtListenerClients` | `ClientsIInv`, `AllowanceCovered`, `NoRequestStorm` hold | 1.04 million |
| `LimiterAdmissions` | `MCApiKeyLimiter` | `WithinMaximum`, `OneMeaningPerVersion`, `UsageExpires`, `RetryAfterHonest`, `FreshLimits` hold | 650 thousand |
| `CitationRefresh` | `MCCitationCache` | `AnswersAreCurrent`, `OneFetchPerLease`, `PositiveKept`, `ReversalConfirmed`, `ImplementsRecord`, `FetchOnlyWhenNeeded` hold | 536 thousand |
| `CitationWaiters` | `MCCitationCache` | `LookupsEnd` holds | 426 thousand |
| `OpinionRefresh` | `MCOpinionStore` | `EvidenceStored`, `OneObjectPerContent`, `AnswersAreCurrent`, `ImplementsRecord`, `AbsenceSuppressesRetained`, `NegativeLasts` hold | 1.99 million |
| `OpinionRevalidation` | `MCOpinionStore` | `RevalidatedIsReadable` is violated | |
| `OpinionExpiredNegative` | `MCOpinionStore` | `OwnerPurges` is violated | |
| `KeyLifecycle` | `MCKeyLifecycle` | `RowsAgree`, `RevocationIsFinal`, `OverlapIsShort`, `LimitsAreInherited`, `EventsAreTrue`, `VersionNamesLimits` hold | 586 thousand |
| `WorkerRequests` | `MCWorkerRequest` | `IInv`, `NotFoundIsComplete`, `VerifiedIsWitnessed`, `EvidenceOutlivesOutage`, `FailuresAreExplained`, `ContradictionsReported`, `OnlyAdmittedCalled`, `RequestsAreAnswered` hold | 635 thousand |

What the runs ask:

- the coordinator: does a half-open circuit send one probe, is nothing older in flight when it does,
  is a 429 obeyed, is there one synchronization, and can its quota be stuck?
- lookups over it: is what was granted there at CourtListener, and is a lookup bounded in its requests?
- the limiter: is a key ever allowed more than its limits in any window, and are the limits current?
- the caches: is evidence lost, is a reversal believed at once, are answers current, do the rows of
  two workers with unequal clocks amount to one record, do waiting lookups end?
- the keys: do the tables agree whichever requests and sweeps meet, is a revoked or replaced key refused?
- a request: is an answer true of the source as it was during the call and as complete as it says,
  does the event explain it, is every request answered?

Bounds, and why they are enough:

- `CoordinatorCircuits`: clock 0..7, lease 2, first open period 3, longest 4. Three
  failures, the open period, a probe, its failure and the doubled (capped) period fit;
  one failure more changes nothing, the period has reached its cap. Two pending
  reservations fill the pool; a third token is the late one. Clocks are up to 1 ahead.
- `CoordinatorQuota`: two tokens, a usage allowance of one that resets after 2, clock
  0..4 and retries after 1 and 3: a synchronization, a 429 during it, a lapse, a reset
  and a second synchronization fit.
- `QuotaFlow`: two lookups, three tokens, windows of 2, 1 and 2, renewed every 3 units,
  clock 0..3. A reservation of a dead lookup outlives it and a reset happens in between.
- `LimiterAdmissions`: two calls in flight, limits (1, 2) and (2, 3), a minute of 2, a
  day of 4 and a retention of 5 units, stamps up to 1 late and alarms up to 1 late; the
  clock runs to 7, past the first deletion by alarm.
- `CitationRefresh`: two lookups with clocks 1 apart and one cluster, all periods 1, lease
  2, clock 0..2. The cycle positive, absence, confirmed absence, purge and absence
  again fits; a lease lapses for the fast clock before it does for the slow one. Three
  tokens: the two in use and the one of a dead owner.
- `CitationWaiters`: as before with a lease of 1 and the clock up to 1, so the clock stands
  still in the end, which is the hard case for a waiter. No symmetry, as required for
  liveness.
- `OpinionRefresh`: two lookups with clocks 1 apart, one content in both representations, the
  provenance in the production order, all periods and the lease 1, clock 0..1: a text, its refresh in the
  other representation by a second owner while the first is still uploading, an absence, its
  confirmation for the fast clock and the refused purge fit. Three tokens, as above. Two contents
  would only add rows that never meet: every query has the content in its key.
- The violation runs use the smallest of these bounds: one representation, and the clock to 2.
- `KeyLifecycle`: three ids, two operators, one customer, limits 1 and 2, four requests; a key lives 2
  units, the overlap and the retention are 1, the clock runs to 4. A key is issued, rotated by two
  operators at once, revoked during a rotation, its limits changed by both, and it expires and is
  deleted while a request still holds its row. One customer is enough: no statement relates rows of two.
- `WorkerRequests`: two opinions and four states of the source (a quote in the second of two texts,
  in none, a citation that is not there beside texts that cannot be used, a quote next to an opinion that is gone), one change between
  any two of them, caches that know nothing or everything at first, all periods 1, clock 0..1. The body
  is limited to 1 byte, the search for an id to 1 byte and 2 chunks, so each limit can be met and
  exceeded. No symmetry, as liveness is checked.
- The opinion runs stop where the clock is at its bound and every token has been used by an
  object or a version that stays, so deadlock is not checked there; nor in `WorkerRequests`, whose
  request ends.

Symmetry is over tokens, ids of keys and interchangeable callers or operators only.

**Fairness.** Two runs need it. `CitationWaiters`: weak fairness of each lookup's steps, that
is, every await settles. D1 statements and requests to CourtListener end or fail in
bounded time (`attempt-timing.ts` aborts a request), and timers fire. Deaths and failures
stay possible for ever. `LookupsEnd` is conditional on no other lookup starting again and
again: `acquireLease` calls itself when the lease it was refused has vanished, so a worker
can in principle be overtaken for ever. `WorkerRequests`: weak fairness of the worker's own steps: each await
settles, as above, and so do the calls of Durable Objects and of R2; reading a response again for its event has a
deadline (`response-mapping.ts`). Three waits have no bound in the code and none in the fairness, so each is a
disjunct of `RequestsAreAnswered`: reading the body of an admitted request, which its client may send for ever
(`boundedMcpRequest` has no deadline); `AwaitsLease`, the wait for the lease of a record that must be
refreshed, which other lookups may take again and again (the loop at `case-law-opinion-source.ts:70`, the
recursion of `acquireLease` for citations); and `AwaitsTrace`, the fetch of the trace service (`runtime.ts:86`,
no timeout), which excuses only the trace and the metric, since the request is answered and logged by then.
A lease is only waited for while nothing refreshes the record: once somebody has, the next read, of the wait or
of an owner, answers, and that step is fair. Others' refreshes, changes of the source and time are not fair. A
worker that is evicted is not modelled here: its request has no answer.

**Mutants.** For each property, `PROJECT.json` names a variant of a definition with a bug
of the kind one would make there (`...Blind`, `...Forgetting`, `...Unowned`); the variants
stand next to the originals and each violates its property under the run's own bounds.

## 5. What is proved

All proofs are checked by TLAPS for every value of the constants that satisfies the
named assumptions.

**Coordinator** (`CourtListenerCoordinatorProofs`). Assumption: leases, periods and bounds
are positive numbers and `Ahead + Behind + Lease <= FirstOpen`, that is, unequal clocks and
one lease fit in the first open period (10 s and 30 s in the code). `IInv` strengthens `TypeOK`
and the four properties by `LeasesBounded` (no lease outlives a fresh one) and
`RateLimitTracked` (where the last deadline is kept). `OpenDrains` needs the first: a circuit
opened now may have admitted requests up to a moment ago. `SingleProbe` needs `OpenDrains`:
when the probe is sent nothing older is pending. `RateLimitHonoured` follows from
`RateLimitTracked`. One lemma per operator of `CourtListenerBudget` says what it preserves, one
step per action uses it. `FailedTimesIsReduce` justifies writing the code's `reduce` over the
lapsed leases as a count. `StrandingIsForever` is finding 1 for every allowance, period and number of
callers: no grant, report, 429 or lapse leads out of a spent usage allowance without a reset.

**Lookups over the coordinator** (`CourtListenerClientsProofs`). Assumption: a window of CourtListener
has a positive period. `ClientsIInv` is the coordinator's `IInv` with what ties it to
the lookups and to the account. `AllowanceCovered` alone is not inductive, because the
coordinator knows nothing between a failed synchronization and the next report: `UnsentCovered` bounds the
granted requests by the account alone, and `ReportsCovered` does so for a report that is on its way
back, corrected by the requests captured when its synchronization began. Both need that a reservation not
yet sent is pending and its lease not over (`ReservedPending`), and that a 429 met during a synchronization
keeps the allowance from before it (`RateLimitKeepsPrior`). From `ClientsInvariant` follow
`AllowanceIsCovered`, `NoStorms` and `LookupsSynchronizeAlone`. `LookupsImplementCoordinator` says that the
composition is a behaviour of `CourtListenerCoordinator` by itself, provided that CourtListener may report
anything there: every action of a lookup is a call of the coordinator, or none.

**Limiter** (`ApiKeyLimiterProofs`). Assumption: `Day + Ahead + Behind <= Retention`. `IInv` says
that stamps are punctual, that what was forgotten is older than any day still to be decided
(`Forgotten`), that rows are numbered, and that versions of the limits have one meaning
(`VersionsAgree`). `WithinMaximum` is over all admissions ever made: a window that ends at any
of them is compared with the one that the last decision in it has counted. `RetriesFindRoom` is
about `retryAfterSeconds`. Its lemmas say that a finite set of rows has one at each
index of its sorted list (`BlockingRow`, from a least count instead of an induction), that a window is
exhausted before the time `nextOpeningTime` gives and at no time after it (`WindowOpens`), and what `Math.ceil` does
to a number of ticks (`SecondsRoundUp`).

**Citation record and cache** (`CitationRecordProofs`, `CitationCacheProofs`). `RecordInv` is
inductive by itself, for any set of instants; `CacheKeepsEvidence` and `CacheConfirmsReversals`
carry its two promises over to the cache through the refinement. `CacheImplementsRecord` is a refinement with the same `source` and
`evidence`: a purge by the owner is `Forget`, a fill is `Learn`, everything else stutters. It
needs `OwnerSeesSource`: while the lease is its own, what a lookup has read is what is stored, and
the reason to fetch still holds. That is proved from `TokensDiffer` and from the fact that every
write asks for the owner's token. It uses no assumption on the clocks or on the length of the
lease. `NoRacingWriter` follows: the branch `cached-citation-gateway.ts:99-118` is never taken.
`HistoryInv` is inductive beside `IInv`: what a lookup has read, may fall back on or will answer was
stored since it began (`ReadsAreCurrent`), and the lease of a lookup that fetches is in its row until
some clock says that it is over (`LeasesHeld`). `LookupsAnswerWhatIsStored` and `FetchesTakeTurns` follow.
"Some clock" is as strong as it gets. With three lookups the lease need not have run out by the clock of
either of the two that fetch: the third, whose clock is ahead, takes it over and releases it, and the
next then finds no lease at all.

**Opinion store** (`OpinionStoreProofs`). The refinement and `OwnerSeesState` are as for citations.
`FetchedStored` adds what R2 needs: an object a lookup is about to commit is there, staged by
itself with no version of that content while the lease is its own, or taken from a version.
`Unpublished` says that no version carries the token of a lookup that has still to commit, so its
cleanup can only remove an object of nobody else's; the exception, a lost response, is in `lost`.
Together they give `RowsAreSound`. Two more theorems say that findings 2 and 3 are for
good: `MismatchIsForGood` (a text that does not match its row is never repaired) and, for every
`CallerOrder` but the schema's, `NegativeIsForGood`. `OwnersPurge` is the converse: with the order
of the schema the purge could never be refused to an owner. Nothing is assumed of the clocks.
`HistoryInv` is `ReadsAreCurrent`, as for citations, and `AbsenceHeard`: a lookup that was told of an absence
is about to store it or to read who won, and where a lookup has retained a text the record still retains
one. The second part is why `durableWinner` never meets an empty record with a text retained, the only branch in which it
would answer with that text; `AbsencesSuppress` rests on it. `OpinionsAnswerWhatIsStored` is
`AnswersAreCurrent`, for any number of lookups. One relation, `Goes`, says what any step may make of a lookup;
one lemma per action shows that it does no more.

**Keys** (`KeyLifecycleProofs`). Assumption: the lifetime, the overlap and the retention are positive.
`IInv` is `TypeOK`, the four parts of `RowsAgree`, and what they rest on: `RowOK` (status, revocation,
end and retention of a row agree), `LineageOK` (an active key with a successor is marked as
replaced and about to end), `RequestOK` (how the row may have changed since a request read it:
`SincePrior`), and that no customer is marked for deletion after a sweep, because the sweep that
marks one also deletes it. From `IInv` follow `TablesAgree`, `RevokedKeysAreRefused`,
`ReplacedKeysEnd` and six theorems about steps: a key is never extended (`KeysOnlyEnd`), a version names one pair
of limits (`VersionsNameLimits`), rows are kept for a year (`RowsAreKept`), a revoked key gets no successor
(`RevokedKeysEndTheirLine`), limits are inherited (`SuccessorsInheritLimits`), events are true
(`EventsTellTheTruth`). `VersionsNameLimits` discharges for the operators what the limiter assumes of
the row of its limits.

**Calls** (`WorkerRequestProofs`, first part). Assumption: the periods are positive. `RequestsAreTrue` says that whatever
CourtListener sends, what the clients and gateways make of it is true of the source at that
moment: an item, cluster or opinion about something else never becomes evidence. `CallInv`
carries this along a call: `RecordsSeen` (every state of a cache is what CourtListener had at the time
it bears), `LookupOK` (so is what the call has found so far, and every listed opinion that is no longer
to be searched has been searched). `OutageInv` goes with it. It says that a call which asks with nothing to fall
back upon found no evidence older than itself (`NothingWasThere`), and that telemetry already knows of
every contradiction the call may yet answer (`DoubtsReported`: the one it kept, and the one that an
absence of the opinion it asks for would leave as it is). `StepsGood` and `AroundGood` say that every
step of the call and of its surroundings keeps both, with one lemma per action.

**Requests** (`WorkerRequestProofs`). `IInv` adds `AdmissionOK` (what is known of the request at each
stage) and `CompletionOK` (what a completion carries), and that there is no call outside the stage `"calling"`.
`RequestInvariant`, and from it `NotFoundTakesAll`, `VerifiedTakesWitness`, `EvidenceOutlives`,
`ContradictionsAreTold`, `EventsExplainFailures` and `CallsAreAdmitted`: for any number of opinions, changes of the source and limits on bodies.

**Only model-checked**: the two liveness properties, `LookupsEnd` and `RequestsAreAnswered`; every other
property of a passing run is a theorem. Liveness under fairness is outside the prover, and so are
induction over data and recursive operators, which is why sets and counts are used where the code folds.
The three properties of the violation runs are false; that two of these disagreements last for ever is proved
(`StrandingIsForever`, `MismatchIsForGood`), and of the third `NegativeIsForGood` and its converse `OwnersPurge`.

## 6. Findings

1. **A renewed usage allowance can strand the coordinator** (`CoordinatorStranding`).
   `normalizeWindow` (`budget-sync.ts:142`) sets `resetAt` to null when a reset has passed. If
   the synchronizations that spend the renewed allowance bring no report, it ends at
   `remaining 0, resetAt null` and `beginQuotaSync` refuses for ever (`StrandedForever`). The test
   at `test/courtlistener-coordinator-remediation.integration.test.ts:106` says the exhaustion lasts
   "until its reset".
2. **An opinion revalidated unchanged becomes unreadable** (`OpinionRevalidation`).
   `INSERT OR IGNORE` (`d1-r2-opinion-source-store.ts:125`) keeps the version row with the first
   `retrievedAt`; `validateVersion` (`:182-184`) compares it with the refreshed state and throws, and
   a lookup whose first read throws never refreshes. After 30 days every opinion that did not change
   is lost. `test/opinion-source-store.integration.test.ts:140` "refreshes a stale same-byte
   representation" changes the representation and so avoids it.
3. **An expired negative is never purged** (`OpinionExpiredNegative`). `d1-opinion-source-purge.ts:21`
   compares the row with the JSON of what was parsed from it; the schema
   (`opinion-source-record.ts:8-14`) orders the keys of a provenance otherwise than
   `case-law-opinion-source.ts:44-48`, whose order is in the row. Every purge is refused as
   `state_changed`. `test/opinion-source-store-purge.integration.test.ts:77` and
   `test/issue-8-opinion-cache.integration.test.ts:147` write the keys in the order of the schema.
   The citation cache is not affected: there both orders agree.

Remarks that are not findings:

- *Coordinator.* It keeps the deadline of the last 429, not the latest one
  (`budget-outcomes.ts:102`): a 429 for usage with a short Retry-After replaces a longer one for data,
  so `RateLimitHonoured` is about the last. A `Retry-After: 0` that reaches an answer does not fit
  `quote-contract.ts:30`, which wants a positive number; delays are not in `Verification`.
- *Citations.* The lease (10 s) can lapse during a fetch, because a lookup may make several requests of
  up to 5 s; safety does not depend on it. The `state_changed` branch of the citation gateway is
  dead code, by the proof above, and so is `cluster_limit_exceeded`: the client accepts at most 100 clusters.
- *Opinions.* A batch that was committed and whose response is lost makes the worker delete the object it
  has just published (`d1-r2-opinion-source-store.ts:152`); `EvidenceStored` holds but for these.
  An object whose worker died before its batch stays in R2; nothing refers to it, it costs storage.
- *Keys.* A key that has expired but was not revoked can be rotated; its successor is usable
  and the overlap is over at once. A rotation whose response is lost leaves a successor whose
  plaintext nobody has, and a retry is answered 409. Two revocations at one instant can leave two
  events although the second is answered 404. An event can outlive its key and then
  names none. If limits are changed during a rotation, the successor may start with the old ones
  (`LimitsAreInherited` says so).
- *Verification.* `not_found` for a citation rests on a cached absence of up to its period; a stale
  text, on the other hand, makes a search incomplete. A quote that is nothing but white space normalizes to the empty
  string, which is in every text, and is "verified". The owner of an opinion's lease does not take
  the stale evidence of its second read as retained.
- *Telemetry.* A contradiction that a call's own refresh of an opinion brings to light is told as a
  cache hit (the exception in `ContradictionsReported`); `operations/observability.md` counts on
  "Source contradiction". Its "Quota-only statuses have no outbound attempt, so no latency sample" is
  not so for a cluster refused after a timed lookup or after a failed synchronization, and after
  a successful synchronization a refusal by the circuit leaves `not_called` with a latency. A response that
  is not a tool call, or cannot be read in time, is "verified" by its status. A malformed answer of
  CourtListener ends as `incomplete` with the error category "none". A waiter that gives up on retained
  evidence is told as a miss. The metric waits for the trace.
- *Bodies.* `boundedMcpRequest` has neither a deadline nor a limit on chunks, unlike `recoverRequestId`.

## 7. Not modelled, and why

- **The legacy server** (`src/server.ts`, `src/clients/`, `src/resilience/`, `src/cache/*-cache.ts`, `src/tools/`,
  `src/parser/`, `app/`): superseded by the Worker, shares no state with it, and keeps nothing across restarts.
- **Liveness of the lookups of opinions**: their wait asks for the lease again as long as it takes,
  so it depends on the polling delays and on clocks that move, which `OpinionStore` leaves out.
  `RequestsAreAnswered` therefore excuses a call that waits for one.
- **Parsing and normalization**: citations, quotes, the text of an opinion, JSON, URLs and
  headers are abstracted to verdicts. So is an exception inside them: `registerVerificationTools` turns it
  into `upstream_unavailable`.
- **Cryptography and tokens**: HMAC, JWTs, the format of keys are functions of bytes.
- **The wording of events, traces and logs, the trace worker**: nothing reads them back.
- **Scripts** for deployment and qualification: command lines run by a developer.
- **Corrupted rows and rows of an older schema**: the code throws, and nothing it writes is corrupt
  (`TypeOK` of each module), but for finding 2.
