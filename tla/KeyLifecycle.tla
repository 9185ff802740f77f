---------------------------- MODULE KeyLifecycle ----------------------------
(***************************************************************************)
(* The API keys: admin/worker.ts over key-lifecycle.ts and key-store.ts,   *)
(* the retention sweep of d1-lifecycle-retention.ts, and what auth/        *)
(* api-key.ts makes of a row.                                              *)
(*                                                                         *)
(* A request of an operator reads one row, decides without awaiting, and   *)
(* writes one batch.  D1 runs a batch as a transaction, so a batch is one  *)
(* action; anything may happen between the read and the batch.             *)
(***************************************************************************)
EXTENDS Integers, Functions

CONSTANTS
    PublicId,       \* random, so that each is used once
    Customer,
    Operator,       \* the requests of operators that may run at the same time
    DefaultLimits,  \* DEFAULT_API_KEY_LIMITS
    Asked,          \* the limits operators ask for; a number stands for both limits
    MaximumLimits,  \* MAXIMUM_API_KEY_LIMITS
    None,           \* null
    Lifetime,       \* DEFAULT_KEY_LIFETIME_MILLISECONDS
    Overlap,        \* MAX_ROTATION_OVERLAP_MILLISECONDS
    Year,           \* for how long rows are kept after their end
    MaxRequests,    \* bound: so many requests get as far as their batch
    MaxClock        \* bound: the clock stops here

ASSUME LifecycleAssumption ==
    /\ {Lifetime, Overlap, Year} \subseteq Nat \ {0}
    /\ {MaxRequests, MaxClock} \subseteq Nat
    /\ MaximumLimits \in Nat
    /\ DefaultLimits \in 1 .. MaximumLimits
    /\ Asked \subseteq Int
    /\ None \notin Nat \cup PublicId

VARIABLES
    customers,  \* the rows of customers: when each may be deleted, if that is known
    keys,       \* the rows of api_key_records
    audits,     \* the rows of admin_audit_events
    request,    \* where the request of each operator is
    clock,
    begun,      \* the requests so far
    used,       \* history: the public ids ever stored
    revoked     \* history: the keys ever revoked

vars == <<customers, keys, audits, request, clock, begun, used, revoked>>

Stored == DOMAIN keys
Time == Nat \cup {None}

\* An ApiKeyLifecycleRecord with the columns limits_version and retention_expires_at.
KeyRow ==
    [customer : Customer, status : {"active", "revoked"}, issuedAt : Nat, expiresAt : Nat,
     revokedAt : Time, parent : PublicId \cup {None}, overlapUntil : Time,
     limits : 1 .. MaximumLimits, version : Nat, retainedUntil : Nat]

AuditRow ==
    [action : {"key_issued", "key_rotated", "key_revoked", "key_limits_changed"},
     customer : Customer, key : PublicId \cup {None},
     at : Nat, retainedUntil : Nat]

\* A request that has read, or needs to read, nothing, and one that has read prior.
Idle == [kind |-> "idle"]
Issuing == [kind : {"issue"}, customer : Customer, limits : 1 .. MaximumLimits, since : Nat]
Found == [kind : {"rotate", "revoke", "limits"}, key : PublicId, prior : KeyRow,
          limits : 1 .. MaximumLimits, since : Nat]

TypeOK ==
    /\ DOMAIN customers \subseteq Customer /\ customers \in [DOMAIN customers -> Time]
    /\ Stored \subseteq PublicId /\ keys \in [Stored -> KeyRow]
    /\ audits \subseteq AuditRow
    /\ request \in [Operator -> {Idle} \cup Issuing \cup Found]
    /\ clock \in 0 .. MaxClock
    /\ begun \in 0 .. MaxRequests
    /\ used \subseteq PublicId
    /\ revoked \subseteq PublicId

Init ==
    /\ customers = [c \in {} |-> None]
    /\ keys = [k \in {} |-> None]
    /\ audits = {}
    /\ request = [o \in Operator |-> Idle]
    /\ clock = 0
    /\ begun = 0
    /\ used = {}
    /\ revoked = {}

-----------------------------------------------------------------------------
(* key-lifecycle.ts: the decisions.                                        *)

AreValidLimits(limits) == limits \in 1 .. MaximumLimits
ExpiryAt(from, duration) == from + duration
EarliestTimestamp(left, right) == IF left <= right THEN left ELSE right
RetentionAt(time) == time + Year

\* createActiveKey, with the two columns that every INSERT sets in the same way.
ActiveKey(customer, issuedAt, limits, parent) ==
    [customer |-> customer, status |-> "active", issuedAt |-> issuedAt,
     expiresAt |-> ExpiryAt(issuedAt, Lifetime), revokedAt |-> None,
     parent |-> parent, overlapUntil |-> None, limits |-> limits, version |-> 0,
     retainedUntil |-> RetentionAt(ExpiryAt(issuedAt, Lifetime))]

Rotatable(prior) == prior.status = "active" /\ prior.revokedAt = None
OverlapUntil(prior, issuedAt) ==
    EarliestTimestamp(prior.expiresAt, ExpiryAt(issuedAt, Overlap))
\* Variant: the successor starts again with the default limits.
SuccessorDefault(prior, parent, issuedAt) ==
    ActiveKey(prior.customer, issuedAt, DefaultLimits, parent)
Successor(prior, parent, issuedAt) ==
    ActiveKey(prior.customer, issuedAt, prior.limits, parent)

-----------------------------------------------------------------------------
(* key-store.ts: the rows each batch writes.                               *)

\* Variant: a rotation does not ask whether its parent has been rotated.
ReplaceableAgain(parent, prior) ==
    /\ parent \in Stored
    /\ keys[parent].customer = prior.customer
    /\ keys[parent].status = "active"
\* The WHERE of both statements of a rotation.
Replaceable(parent, prior) ==
    /\ parent \in Stored
    /\ keys[parent].customer = prior.customer
    /\ keys[parent].status = "active"
    /\ keys[parent].overlapUntil = None

IsActive(k) == k \in Stored /\ keys[k].status = "active"

\* Variant: the old key lives as long as before.
ReplacedUnlimited(row, overlapUntil) == [row EXCEPT !.overlapUntil = overlapUntil]
\* parentUpdateStatement
Replaced(row, overlapUntil) ==
    [row EXCEPT !.expiresAt = overlapUntil, !.overlapUntil = overlapUntil,
                !.retainedUntil = RetentionAt(overlapUntil)]

RevokedRow(row, revokedAt) ==
    [row EXCEPT !.status = "revoked", !.revokedAt = revokedAt, !.overlapUntil = None,
                !.retainedUntil = RetentionAt(revokedAt)]

\* Variant: the version comes from the row that was read.
LimitedRowCounted(row, prior, limits) ==
    [row EXCEPT !.limits = limits, !.version = prior.version + 1]
LimitedRow(row, prior, limits) ==
    [row EXCEPT !.limits = limits, !.version = row.version + 1]

Insert(k, row) == [x \in Stored \cup {k} |-> IF x = k THEN row ELSE keys[x]]

AuditRetention(action, at, key) ==
    IF action = "key_revoked" THEN RetentionAt(at) ELSE RetentionAt(key.expiresAt)

\* auditStatements, for the key as the request knows it.
AuditEvent(action, k, key, at) ==
    [action |-> action, customer |-> key.customer, key |-> k,
     at |-> at, retainedUntil |-> AuditRetention(action, at, key)]

IssueBatch(k, row) ==
    /\ customers' = [c \in DOMAIN customers \cup {row.customer} |->
                        IF c = row.customer THEN None ELSE customers[c]]
    /\ keys' = Insert(k, row)
    /\ audits' = audits \cup {AuditEvent("key_issued", k, row, row.issuedAt)}
    /\ used' = used \cup {k}
    /\ UNCHANGED revoked

RotateBatch(parent, prior, child, issuedAt) ==
    LET row == Successor(prior, parent, issuedAt)
    IN  /\ IF Replaceable(parent, prior)
           THEN /\ keys' = [Insert(child, row) EXCEPT
                                ![parent] = Replaced(@, OverlapUntil(prior, issuedAt))]
                /\ audits' = audits \cup
                       {AuditEvent("key_rotated", child, row, issuedAt)}
                /\ used' = used \cup {child}
           ELSE UNCHANGED <<keys, audits, used>>
        /\ UNCHANGED <<customers, revoked>>

\* The event asks for a key revoked at the time of this revocation, by whomever.
RevokeBatch(k, prior, revokedAt) ==
    /\ keys' = IF IsActive(k)
               THEN [keys EXCEPT ![k] = RevokedRow(@, revokedAt)] ELSE keys
    /\ revoked' = IF IsActive(k) THEN revoked \cup {k} ELSE revoked
    /\ audits' = IF k \in Stored /\ keys'[k].status = "revoked"
                                 /\ keys'[k].revokedAt = revokedAt
                 THEN audits \cup {AuditEvent("key_revoked", k, prior, revokedAt)}
                 ELSE audits
    /\ UNCHANGED <<customers, used>>

\* Variant: the event asks only that there is such a key.
LimitsBatchUnguarded(k, prior, limits, at) ==
    /\ keys' = IF IsActive(k)
               THEN [keys EXCEPT ![k] = LimitedRow(@, prior, limits)] ELSE keys
    /\ audits' = IF k \in Stored
                 THEN audits \cup {AuditEvent("key_limits_changed", k, prior, at)}
                 ELSE audits
    /\ UNCHANGED <<customers, used, revoked>>
LimitsBatch(k, prior, limits, at) ==
    /\ keys' = IF IsActive(k)
               THEN [keys EXCEPT ![k] = LimitedRow(@, prior, limits)] ELSE keys
    /\ audits' = IF IsActive(k)
                 THEN audits \cup {AuditEvent("key_limits_changed", k, prior, at)}
                 ELSE audits
    /\ UNCHANGED <<customers, used, revoked>>

-----------------------------------------------------------------------------
(* admin/worker.ts: the requests.  One that is refused before it writes    *)
(* leaves no trace: it ends where it began.                                *)

BeginIssue(o) ==
    \E c \in Customer, l \in Asked \cup {DefaultLimits} :
        /\ request[o].kind = "idle" /\ begun < MaxRequests
        /\ AreValidLimits(l)
        /\ request' = [request EXCEPT ![o] =
               [kind |-> "issue", customer |-> c, limits |-> l, since |-> clock]]
        /\ begun' = begun + 1
        /\ UNCHANGED <<customers, keys, audits, clock, used, revoked>>

Issue(o) ==
    /\ request[o].kind = "issue"
    /\ \E k \in PublicId \ used :
           IssueBatch(k, ActiveKey(request[o].customer, request[o].since,
                                      request[o].limits, None))
    /\ request' = [request EXCEPT ![o] = Idle]
    /\ UNCHANGED <<clock, begun>>

\* AdminKeyStore.find, by a request to rotate, revoke or limit k.
Find(o) ==
    \E k \in Stored, kind \in {"rotate", "revoke", "limits"}, l \in Asked :
        /\ request[o].kind = "idle" /\ begun < MaxRequests
        /\ kind = "rotate" => Rotatable(keys[k])
        /\ IF kind = "limits" THEN AreValidLimits(l) ELSE l = keys[k].limits
        /\ request' = [request EXCEPT ![o] =
               [kind |-> kind, key |-> k, prior |-> keys[k], limits |-> l, since |-> clock]]
        /\ begun' = begun + 1
        /\ UNCHANGED <<customers, keys, audits, clock, used, revoked>>

\* A request reads its clock once it has the row, and the batch runs later.
Rotate(o) ==
    /\ request[o].kind = "rotate"
    /\ \E child \in PublicId \ used, at \in request[o].since .. clock :
           RotateBatch(request[o].key, request[o].prior, child, at)
    /\ request' = [request EXCEPT ![o] = Idle]
    /\ UNCHANGED <<clock, begun>>

Revoke(o) ==
    /\ request[o].kind = "revoke"
    /\ \E at \in request[o].since .. clock :
           RevokeBatch(request[o].key, request[o].prior, at)
    /\ request' = [request EXCEPT ![o] = Idle]
    /\ UNCHANGED <<clock, begun>>

ChangeLimits(o) ==
    /\ request[o].kind = "limits"
    /\ \E at \in request[o].since .. clock :
           LimitsBatch(request[o].key, request[o].prior, request[o].limits, at)
    /\ request' = [request EXCEPT ![o] = Idle]
    /\ UNCHANGED <<clock, begun>>

\* A statement fails, or the worker dies, before the batch.
Fail(o) ==
    /\ request[o].kind # "idle"
    /\ request' = [request EXCEPT ![o] = Idle]
    /\ UNCHANGED <<customers, keys, audits, clock, begun, used, revoked>>

-----------------------------------------------------------------------------
(* d1-lifecycle-retention.ts: the five statements of the sweep.            *)

Dead(due) ==
    {k \in Stored : keys[k].retainedUntil <= due
                    /\ (keys[k].revokedAt # None \/ keys[k].expiresAt <= due)}

NothingLeftOf(c, due) ==
    /\ \A k \in Stored : keys[k].customer = c =>
          keys[k].retainedUntil <= due /\ (keys[k].revokedAt # None \/ keys[k].expiresAt <= due)
    /\ \A a \in audits : a.customer = c => a.retainedUntil <= due

\* MAX(COALESCE((SELECT MAX(...)), ?1), COALESCE((SELECT MAX(...)), ?1))
Latest(times, due) ==
    IF times = {} THEN due ELSE CHOOSE t \in times : \A u \in times : u <= t
Deadline(c, due) ==
    LET ofKeys == {keys[k].retainedUntil : k \in {k \in Stored : keys[k].customer = c}}
        ofAudits == {a.retainedUntil : a \in {a \in audits : a.customer = c}}
    IN  Latest({Latest(ofKeys, due), Latest(ofAudits, due)}, due)

Retired(c, due) ==
    IF customers[c] = None /\ NothingLeftOf(c, due) THEN Deadline(c, due) ELSE customers[c]

Unlink(row, dead) == [row EXCEPT !.parent = IF @ \in dead THEN None ELSE @]
\* ON DELETE SET NULL
Forget(event, dead) == [event EXCEPT !.key = IF @ \in dead THEN None ELSE @]

Forgotten(c, due) ==
    /\ Retired(c, due) # None /\ Retired(c, due) <= due
    /\ \A k \in Stored \ Dead(due) : keys[k].customer # c
    /\ \A a \in audits : a.customer = c => a.retainedUntil <= due

SweepAt(due) ==
    /\ customers' = [c \in {c \in DOMAIN customers : ~Forgotten(c, due)} |-> Retired(c, due)]
    /\ audits' = {Forget(a, Dead(due)) : a \in {a \in audits : a.retainedUntil > due}}
    /\ keys' = [k \in Stored \ Dead(due) |-> Unlink(keys[k], Dead(due))]
    /\ UNCHANGED <<used, revoked>>

\* scheduled: the time is the one the sweep was scheduled for, and it may run late.
Sweep ==
    \E due \in 0 .. clock :
        /\ SweepAt(due)
        /\ UNCHANGED <<request, clock, begun>>

Tick ==
    /\ clock < MaxClock
    /\ clock' = clock + 1
    /\ UNCHANGED <<customers, keys, audits, request, begun, used, revoked>>

Next ==
    \/ \E o \in Operator : BeginIssue(o) \/ Issue(o) \/ Find(o) \/ Rotate(o)
                           \/ Revoke(o) \/ ChangeLimits(o) \/ Fail(o)
    \/ Sweep
    \/ Tick

Spec == Init /\ [][Next]_vars

-----------------------------------------------------------------------------
(* auth/api-key.ts: what a request that presents the credential of a key   *)
(* gets.                                                                   *)

\* Variant: a key that has not expired is usable.
IsUsableUnexpired(row, now) == row.expiresAt > now
\* isUsableRecord
IsUsable(row, now) ==
    row.status = "active" /\ row.revokedAt = None /\ row.expiresAt > now

Unauthorized == [kind |-> "unauthorized"]
Authenticate(k, now) ==
    IF k \in Stored /\ IsUsable(keys[k], now)
    THEN [kind |-> "authenticated", publicId |-> k, limits |-> keys[k].limits,
          version |-> keys[k].version]
    ELSE Unauthorized

-----------------------------------------------------------------------------
(* Properties.                                                             *)

\* What a column refers to is there: no batch fails on a foreign key, however the sweep
\* meets rotations, revocations and issues.  (migrations/0001 and 0002; D1 enforces them.)
References ==
    /\ \A k \in Stored : keys[k].customer \in DOMAIN customers
                         /\ keys[k].parent \in Stored \cup {None}
    /\ \A a \in audits : a.customer \in DOMAIN customers /\ a.key \in Stored \cup {None}

\* A key is replaced once, whoever else is replacing it.
\* (test/admin-worker.integration.test.ts:128)
OneSuccessor ==
    \A k, l \in Stored : keys[k].parent = keys[l].parent /\ keys[k].parent # None => k = l

\* A key that was revoked is refused from then on, whatever was being done to it.
RevocationIsFinal ==
    \A k \in revoked : Authenticate(k, clock) = Unauthorized

\* A key that has been replaced is refused Overlap after the replacement was issued.
OverlapIsShort ==
    \A k, l \in Stored : keys[k].parent = l /\ clock >= keys[k].issuedAt + Overlap =>
        Authenticate(l, clock) = Unauthorized

\* As long as there is a key there is an event that tells where it came from, or who
\* revoked it, and when.
AuditOutlivesKey ==
    \A k \in Stored : \E a \in audits :
        /\ a.key = k
        /\ a.retainedUntil >= keys[k].retainedUntil
        /\ keys[k].status = "revoked" => a.action = "key_revoked" /\ a.at = keys[k].revokedAt

\* The sweep that takes the last row of a customer takes the customer too.
CustomersAccountedFor ==
    \A c \in DOMAIN customers :
        \/ \E k \in Stored : keys[k].customer = c
        \/ \E a \in audits : a.customer = c

\* The three tables agree, whichever requests and sweeps meet: what they refer to is
\* there, a key is replaced once, and neither keys without an event nor customers without
\* a row are left behind.
RowsAgree == References /\ OneSuccessor /\ AuditOutlivesKey /\ CustomersAccountedFor

\* A key never gets more time than it had, and comes back neither from revocation nor
\* from the sweep.
NeverExtended ==
    [][/\ \A k \in Stored \cap Stored' :
             /\ keys'[k].expiresAt <= keys[k].expiresAt
             /\ keys[k].status = "revoked" => keys'[k].status = "revoked"
       /\ (Stored' \ Stored) \cap used = {}]_vars

\* A version of the limits of a key stands for one pair of limits, as the limiter of the
\* key requires, though operators change them from the same row.
VersionNamesLimits ==
    [][\A k \in Stored \cap Stored' :
          /\ keys'[k].version >= keys[k].version
          /\ keys'[k].version = keys[k].version => keys'[k].limits = keys[k].limits]_vars

\* No key gets a successor once it has been revoked, though the request to rotate it
\* found it active.
NoSuccessorOfRevoked ==
    [][\A k \in Stored' \ Stored : keys'[k].parent \notin revoked]_vars

\* A successor starts with the limits of its parent, unless they were changed while the
\* rotation was under way.
LimitsAreInherited ==
    [][\A k \in Stored' \ Stored : LET p == keys'[k].parent IN p # None =>
          \/ keys'[k].limits = keys[p].limits
          \/ \E o \in Operator : /\ request[o].kind = "rotate" /\ request[o].key = p
                                 /\ request[o].prior.version < keys[p].version]_vars

\* Whatever an event says has been done was done.  An event of a revocation is the one
\* that may tell it twice: by two requests at the same time.
EventsAreTrue ==
    [][\A a \in audits' \ audits : a.key # None =>
          CASE a.action \in {"key_issued", "key_rotated"} -> a.key \in Stored' \ Stored
            [] a.action = "key_limits_changed" -> keys'[a.key].version > keys[a.key].version
            [] a.action = "key_revoked" -> keys'[a.key].revokedAt = a.at]_vars

\* A row stays for a year after its key was revoked or had expired.
\* (operations/observability.md:50)
KeptForAYear ==
    [][\A k \in Stored \ Stored' :
          IF keys[k].revokedAt # None THEN keys[k].revokedAt + Year <= clock
          ELSE keys[k].expiresAt + Year <= clock]_vars

-----------------------------------------------------------------------------
(* The inductive invariant.                                                *)

\* The end of a key and the time its row is kept agree.
RowOK(k) ==
    /\ keys[k].status = "active" <=> keys[k].revokedAt = None
    /\ keys[k].status = "active" => keys[k].retainedUntil = RetentionAt(keys[k].expiresAt)
    /\ keys[k].status = "revoked" => keys[k].retainedUntil = RetentionAt(keys[k].revokedAt)
    /\ keys[k].status = "revoked" <=> k \in revoked
    /\ k \in used

\* An active key that has a successor is marked and about to end.
LineageOK(k) ==
    LET l == keys[k].parent
    IN  l \in Stored /\ keys[l].status = "active" =>
            /\ keys[l].overlapUntil # None
            /\ keys[l].expiresAt <= ExpiryAt(keys[k].issuedAt, Overlap)

\* How a row may have changed since a request read it.
SincePrior(row, prior) ==
    /\ row.customer = prior.customer
    /\ prior.version <= row.version
    /\ prior.version = row.version => prior.limits = row.limits
    /\ row.status = "active" /\ row.overlapUntil = None => row.expiresAt = prior.expiresAt

RequestOK(r) ==
    r \in Found => r.key \in used /\ (r.key \in Stored => SincePrior(keys[r.key], r.prior))

IInv ==
    /\ TypeOK
    /\ References
    /\ OneSuccessor
    /\ AuditOutlivesKey
    /\ CustomersAccountedFor
    /\ \A c \in DOMAIN customers : customers[c] = None
    /\ \A k \in Stored : RowOK(k) /\ LineageOK(k)
    /\ \A o \in Operator : RequestOK(request[o])
    /\ revoked \subseteq used
=============================================================================
