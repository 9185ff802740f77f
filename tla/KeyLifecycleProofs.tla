------------------------- MODULE KeyLifecycleProofs -------------------------
(***************************************************************************)
(* Proofs about KeyLifecycle: IInv is inductive, and with it the rows are  *)
(* consistent, revocation is final and the sweep takes what it should.     *)
(***************************************************************************)
EXTENDS KeyLifecycle, WellFoundedInduction, TLAPS

USE LifecycleAssumption

(***************************************************************************)
(* The rows that the batches write.                                        *)
(***************************************************************************)

\* A new key: active, whole and with limits and a parent as asked.
LEMMA ActiveKeyFacts ==
    ASSUME NEW c \in Customer, NEW t \in Nat, NEW l \in 1 .. MaximumLimits,
           NEW p \in PublicId \cup {None}
    PROVE  LET r == ActiveKey(c, t, l, p) IN
           /\ r \in KeyRow
           /\ r.status = "active" /\ r.revokedAt = None /\ r.overlapUntil = None
           /\ r.customer = c /\ r.issuedAt = t /\ r.parent = p /\ r.limits = l /\ r.version = 0
           /\ r.expiresAt = ExpiryAt(t, Lifetime)
           /\ r.retainedUntil = RetentionAt(r.expiresAt)
BY DEF ActiveKey, KeyRow, Time, ExpiryAt, RetentionAt

\* A key that has been replaced ends when its overlap does; the rest stays.
LEMMA ReplacedFacts ==
    ASSUME NEW row \in KeyRow, NEW t \in Nat
    PROVE  LET r == Replaced(row, t) IN
           /\ r \in KeyRow
           /\ r.expiresAt = t /\ r.overlapUntil = t /\ r.retainedUntil = RetentionAt(t)
           /\ r.status = row.status /\ r.revokedAt = row.revokedAt /\ r.parent = row.parent
           /\ r.customer = row.customer /\ r.issuedAt = row.issuedAt
           /\ r.limits = row.limits /\ r.version = row.version
<1> DEFINE r == Replaced(row, t)
<1>1. /\ r.customer = row.customer /\ r.issuedAt = row.issuedAt /\ r.parent = row.parent
      /\ r.version = row.version
  BY DEF Replaced, KeyRow, Time, RetentionAt
<1>2. /\ r.expiresAt = t /\ r.overlapUntil = t /\ r.retainedUntil = RetentionAt(t)
      /\ r.status = row.status /\ r.revokedAt = row.revokedAt /\ r.limits = row.limits
  BY DEF Replaced, KeyRow, Time, RetentionAt
<1>3. r \in KeyRow
  <2> DEFINE a == [row EXCEPT !.expiresAt = t]
  <2>1. a \in KeyRow
    BY DEF KeyRow, Time, RetentionAt
  <2> HIDE DEF a
  <2> DEFINE b == [a EXCEPT !.overlapUntil = t]
  <2>2. b \in KeyRow
    BY <2>1 DEF KeyRow, Time, RetentionAt
  <2> HIDE DEF b
  <2> DEFINE c == [b EXCEPT !.retainedUntil = RetentionAt(t)]
  <2>3. c \in KeyRow
    BY <2>2 DEF KeyRow, Time, RetentionAt
  <2> HIDE DEF c
  <2>4. r = c
    BY DEF Replaced, a, b, c
  <2> QED BY <2>3, <2>4
<1> QED BY <1>1, <1>2, <1>3

LEMMA RevokedRowFacts ==
    ASSUME NEW row \in KeyRow, NEW t \in Nat
    PROVE  LET r == RevokedRow(row, t) IN
           /\ r \in KeyRow
           /\ r.status = "revoked" /\ r.revokedAt = t /\ r.retainedUntil = RetentionAt(t)
           /\ r.parent = row.parent /\ r.expiresAt = row.expiresAt
           /\ r.customer = row.customer /\ r.issuedAt = row.issuedAt
           /\ r.limits = row.limits /\ r.version = row.version
<1> DEFINE r == RevokedRow(row, t)
<1>1. /\ r.customer = row.customer /\ r.issuedAt = row.issuedAt /\ r.parent = row.parent
      /\ r.version = row.version
  BY DEF RevokedRow, KeyRow, Time, RetentionAt
<1>2. /\ r.status = "revoked" /\ r.revokedAt = t /\ r.retainedUntil = RetentionAt(t)
      /\ r.expiresAt = row.expiresAt /\ r.limits = row.limits
  BY DEF RevokedRow, KeyRow, Time, RetentionAt
<1>3. r \in KeyRow
  <2> DEFINE a == [row EXCEPT !.status = "revoked"]
  <2>1. a \in KeyRow
    BY DEF KeyRow, Time, RetentionAt
  <2> HIDE DEF a
  <2> DEFINE b == [a EXCEPT !.revokedAt = t]
  <2>2. b \in KeyRow
    BY <2>1 DEF KeyRow, Time, RetentionAt
  <2> HIDE DEF b
  <2> DEFINE c == [b EXCEPT !.overlapUntil = None]
  <2>3. c \in KeyRow
    BY <2>2 DEF KeyRow, Time, RetentionAt
  <2> HIDE DEF c
  <2> DEFINE d == [c EXCEPT !.retainedUntil = RetentionAt(t)]
  <2>4. d \in KeyRow
    BY <2>3 DEF KeyRow, Time, RetentionAt
  <2> HIDE DEF d
  <2>5. r = d
    BY DEF RevokedRow, a, b, c, d
  <2> QED BY <2>4, <2>5
<1> QED BY <1>1, <1>2, <1>3

LEMMA LimitedRowFacts ==
    ASSUME NEW row \in KeyRow, NEW prior, NEW l \in 1 .. MaximumLimits
    PROVE  LET r == LimitedRow(row, prior, l) IN
           /\ r \in KeyRow
           /\ r.limits = l /\ r.version = row.version + 1
           /\ r.status = row.status /\ r.revokedAt = row.revokedAt /\ r.parent = row.parent
           /\ r.expiresAt = row.expiresAt /\ r.overlapUntil = row.overlapUntil
           /\ r.customer = row.customer /\ r.issuedAt = row.issuedAt
           /\ r.retainedUntil = row.retainedUntil
<1> DEFINE r == LimitedRow(row, prior, l)
<1>1. /\ r.customer = row.customer /\ r.issuedAt = row.issuedAt /\ r.parent = row.parent
      /\ r.version = row.version + 1
  BY DEF LimitedRow, KeyRow
<1>2. /\ r.limits = l /\ r.status = row.status /\ r.revokedAt = row.revokedAt
      /\ r.expiresAt = row.expiresAt /\ r.overlapUntil = row.overlapUntil
      /\ r.retainedUntil = row.retainedUntil
  BY DEF LimitedRow, KeyRow
<1>3. r \in KeyRow
  <2> DEFINE a == [row EXCEPT !.limits = l]
  <2>1. a \in KeyRow /\ a.version = row.version
    BY DEF KeyRow, Time, RetentionAt
  <2> HIDE DEF a
  <2> DEFINE b == [a EXCEPT !.version = row.version + 1]
  <2>2. b \in KeyRow
    BY <2>1 DEF KeyRow, Time, RetentionAt
  <2> HIDE DEF b
  <2>3. r = b
    BY DEF LimitedRow, a, b
  <2> QED BY <2>2, <2>3
<1> QED BY <1>1, <1>2, <1>3

\* The sweep unlinks a row from dead parents and leaves the rest.
LEMMA UnlinkFacts ==
    ASSUME NEW row \in KeyRow, NEW dead
    PROVE  LET r == Unlink(row, dead) IN
           /\ r \in KeyRow
           /\ r.parent = IF row.parent \in dead THEN None ELSE row.parent
           /\ r.status = row.status /\ r.revokedAt = row.revokedAt
           /\ r.expiresAt = row.expiresAt /\ r.overlapUntil = row.overlapUntil
           /\ r.customer = row.customer /\ r.issuedAt = row.issuedAt
           /\ r.retainedUntil = row.retainedUntil
           /\ r.limits = row.limits /\ r.version = row.version
BY DEF Unlink, KeyRow

LEMMA ForgetFacts ==
    ASSUME NEW a \in AuditRow, NEW dead
    PROVE  LET e == Forget(a, dead) IN
           /\ e \in AuditRow
           /\ e.key = IF a.key \in dead THEN None ELSE a.key
           /\ e.action = a.action /\ e.customer = a.customer /\ e.at = a.at
           /\ e.retainedUntil = a.retainedUntil
BY DEF Forget, AuditRow

LEMMA AuditEventFacts ==
    ASSUME NEW action \in {"key_issued", "key_rotated", "key_revoked", "key_limits_changed"},
           NEW k \in PublicId, NEW row \in KeyRow, NEW t \in Nat
    PROVE  LET e == AuditEvent(action, k, row, t) IN
           /\ e \in AuditRow
           /\ e.action = action /\ e.customer = row.customer /\ e.key = k /\ e.at = t
           /\ e.retainedUntil = AuditRetention(action, t, row)
BY DEF AuditEvent, AuditRow, AuditRetention, RetentionAt, KeyRow

\* The overlap ends neither after the old key would have nor after Overlap.
LEMMA OverlapUntilFacts ==
    ASSUME NEW prior \in KeyRow, NEW t \in Nat
    PROVE  /\ OverlapUntil(prior, t) \in Nat
           /\ OverlapUntil(prior, t) <= prior.expiresAt
           /\ OverlapUntil(prior, t) <= ExpiryAt(t, Overlap)
BY DEF OverlapUntil, EarliestTimestamp, ExpiryAt, KeyRow

(***************************************************************************)
(* The initial state, and the steps that leave the rows alone.             *)
(***************************************************************************)

LEMMA InitInv == Init => IInv
<1> SUFFICES ASSUME Init PROVE IInv
  OBVIOUS
<1>1. /\ DOMAIN customers = {} /\ Stored = {} /\ audits = {} /\ revoked = {} /\ used = {}
      /\ customers \in [DOMAIN customers -> Time] /\ keys \in [Stored -> KeyRow]
  BY DEF Init, Stored
<1>2. \A o \in Operator : request[o] = Idle
  BY DEF Init
<1>3. request \in [Operator -> {Idle} \cup Issuing \cup Found]
  BY DEF Init
<1>4. TypeOK
  BY <1>1, <1>3 DEF TypeOK, Init
<1>5. Idle \notin Found
  BY DEF Idle, Found
<1>6. References /\ OneSuccessor /\ AuditOutlivesKey /\ CustomersAccountedFor
  BY <1>1 DEF References, OneSuccessor, AuditOutlivesKey, CustomersAccountedFor
<1> QED BY <1>1, <1>2, <1>4, <1>5, <1>6 DEF IInv, RequestOK

\* What the invariant says of the rows mentions nothing but these.
Rows == <<customers, keys, audits, used, revoked>>

\* A step that changes no row keeps what is said of the rows.
LEMMA RowsInv ==
    ASSUME IInv, UNCHANGED Rows, TypeOK', \A o \in Operator : RequestOK(request[o])'
    PROVE  IInv'
<1>1. /\ customers' = customers /\ keys' = keys /\ audits' = audits /\ used' = used
      /\ revoked' = revoked /\ Stored' = Stored
  BY DEF Rows, Stored
<1>2. References' /\ OneSuccessor' /\ AuditOutlivesKey' /\ CustomersAccountedFor'
  BY <1>1 DEF IInv, References, OneSuccessor, AuditOutlivesKey, CustomersAccountedFor
<1>3. (\A k \in Stored : RowOK(k) /\ LineageOK(k))'
  BY <1>1 DEF IInv, RowOK, LineageOK, Stored
<1> QED BY <1>1, <1>2, <1>3 DEF IInv

\* What a request has read stays consistent as long as the rows do not change.
LEMMA BeginIssueInv ==
    ASSUME IInv, NEW o \in Operator, BeginIssue(o)
    PROVE  IInv'
<1>1. PICK c \in Customer, l \in Asked \cup {DefaultLimits} :
          /\ begun < MaxRequests
          /\ AreValidLimits(l)
          /\ request' = [request EXCEPT ![o] =
                 [kind |-> "issue", customer |-> c, limits |-> l, since |-> clock]]
          /\ begun' = begun + 1
          /\ UNCHANGED <<customers, keys, audits, clock, used, revoked>>
  BY DEF BeginIssue
<1> DEFINE r == [kind |-> "issue", customer |-> c, limits |-> l, since |-> clock]
<1>2. r \in Issuing /\ r \notin Found
  BY <1>1 DEF Issuing, Found, AreValidLimits, IInv, TypeOK
<1>3. TypeOK'
  BY <1>1, <1>2 DEF IInv, TypeOK, Stored
<1>4. \A p \in Operator : RequestOK(request[p])'
  BY <1>1, <1>2 DEF IInv, TypeOK, RequestOK, SincePrior, Stored
<1>5. UNCHANGED Rows
  BY <1>1 DEF Rows
<1> QED BY <1>3, <1>4, <1>5, RowsInv

LEMMA FindInv ==
    ASSUME IInv, NEW o \in Operator, Find(o)
    PROVE  IInv'
<1>1. PICK k \in Stored, kind \in {"rotate", "revoke", "limits"}, l \in Asked :
          /\ begun < MaxRequests
          /\ IF kind = "limits" THEN AreValidLimits(l) ELSE l = keys[k].limits
          /\ request' = [request EXCEPT ![o] =
                 [kind |-> kind, key |-> k, prior |-> keys[k], limits |-> l, since |-> clock]]
          /\ begun' = begun + 1
          /\ UNCHANGED <<customers, keys, audits, clock, used, revoked>>
  BY DEF Find
<1> DEFINE r == [kind |-> kind, key |-> k, prior |-> keys[k], limits |-> l, since |-> clock]
<1>2. keys[k] \in KeyRow /\ k \in PublicId /\ k \in used
  BY DEF IInv, TypeOK, RowOK
<1>3. l \in 1 .. MaximumLimits /\ clock \in Nat
  BY <1>1, <1>2 DEF AreValidLimits, KeyRow, IInv, TypeOK
<1>4. r \in Found /\ r.key = k /\ r.prior = keys[k]
  BY <1>2, <1>3 DEF Found
<1>5. SincePrior(keys[k], r.prior)
  BY <1>2, <1>4 DEF SincePrior, KeyRow
<1>6. TypeOK'
  BY <1>1, <1>4 DEF IInv, TypeOK, Stored
<1>7. \A p \in Operator : RequestOK(request[p])'
  <2>1. RequestOK(r)
    BY <1>2, <1>4, <1>5 DEF RequestOK
  <2>2. \A p \in Operator : RequestOK(request'[p])
    BY <1>1, <2>1 DEF IInv, TypeOK
  <2> QED BY <1>1, <2>2 DEF RequestOK, Stored
<1>8. UNCHANGED Rows
  BY <1>1 DEF Rows
<1> QED BY <1>6, <1>7, <1>8, RowsInv

LEMMA FailInv ==
    ASSUME IInv, NEW o \in Operator, Fail(o)
    PROVE  IInv'
<1>1. request' = [request EXCEPT ![o] = Idle] /\ UNCHANGED Rows /\ UNCHANGED <<clock, begun>>
  BY DEF Fail, Rows
<1>2. Idle \notin Found
  BY DEF Idle, Found
<1>3. TypeOK'
  BY <1>1 DEF IInv, TypeOK, Rows, Stored
<1>4. \A p \in Operator : RequestOK(request[p])'
  BY <1>1, <1>2 DEF IInv, TypeOK, RequestOK, SincePrior, Rows, Stored
<1> QED BY <1>1, <1>3, <1>4, RowsInv

LEMMA TickInv == ASSUME IInv, Tick PROVE IInv'
<1>1. UNCHANGED Rows /\ request' = request /\ begun' = begun /\ clock' \in 0 .. MaxClock
  BY DEF Tick, Rows, IInv, TypeOK
<1>2. TypeOK'
  BY <1>1 DEF IInv, TypeOK, Rows, Stored
<1>3. \A p \in Operator : RequestOK(request[p])'
  BY <1>1 DEF IInv, RequestOK, SincePrior, Rows, Stored
<1> QED BY <1>1, <1>2, <1>3, RowsInv

(***************************************************************************)
(* How a step may change a row, and what that means for the requests that  *)
(* have read it.                                                           *)
(***************************************************************************)

Advances(old, new) ==
    /\ new.customer = old.customer
    /\ old.version <= new.version
    /\ old.version = new.version => old.limits = new.limits
    /\ new.status = "active" /\ new.overlapUntil = None =>
          /\ old.status = "active" /\ old.overlapUntil = None
          /\ new.expiresAt = old.expiresAt
    /\ new.expiresAt <= old.expiresAt
    /\ old.status = "revoked" => new.status = "revoked"

RowsAdvance ==
    /\ \A k \in Stored \cap Stored' : Advances(keys[k], keys'[k])
    /\ (Stored' \ Stored) \cap used = {}
    /\ used \subseteq used'

LEMMA SameAdvances == ASSUME NEW row \in KeyRow PROVE Advances(row, row)
BY DEF Advances, KeyRow

\* A batch ends one request; the others stay consistent with what they have read.
LEMMA RequestsStay ==
    ASSUME IInv, Stored' \subseteq PublicId, keys' \in [Stored' -> KeyRow], RowsAdvance,
           NEW o \in Operator, request' = [request EXCEPT ![o] = Idle]
    PROVE  /\ request' \in [Operator -> {Idle} \cup Issuing \cup Found]
           /\ \A p \in Operator : RequestOK(request[p])'
<1>1. request' \in [Operator -> {Idle} \cup Issuing \cup Found]
  BY DEF IInv, TypeOK
<1>2. ASSUME NEW p \in Operator, request'[p] \in Found
      PROVE  /\ request'[p].key \in used'
             /\ request'[p].key \in Stored' =>
                    SincePrior(keys'[request'[p].key], request'[p].prior)
  <2> DEFINE r == request'[p]
  <2>1. r = request[p]
    BY <1>2 DEF IInv, TypeOK, Idle, Found
  <2>2. r.key \in used /\ (r.key \in Stored => SincePrior(keys[r.key], r.prior))
    BY <1>2, <2>1 DEF IInv, RequestOK
  <2>3. r.key \in used'
    BY <2>2 DEF RowsAdvance
  <2>4. ASSUME r.key \in Stored' PROVE SincePrior(keys'[r.key], r.prior)
    <3>1. r.key \in Stored
      BY <2>2, <2>4 DEF RowsAdvance
    <3>2. Advances(keys[r.key], keys'[r.key]) /\ SincePrior(keys[r.key], r.prior)
      BY <2>2, <2>4, <3>1 DEF RowsAdvance
    <3>3. keys[r.key] \in KeyRow /\ keys'[r.key] \in KeyRow /\ r.prior \in KeyRow
      BY <1>2, <2>4, <3>1 DEF IInv, TypeOK, Found
    <3> HIDE DEF r
    <3>4. /\ keys[r.key].version \in Nat /\ keys'[r.key].version \in Nat
          /\ r.prior.version \in Nat
      BY <3>3 DEF KeyRow
    <3> QED BY <3>2, <3>4 DEF Advances, SincePrior
  <2> QED BY <2>3, <2>4
<1>3. ASSUME NEW p \in Operator PROVE RequestOK(request[p])'
  BY <1>2 DEF RequestOK
<1> QED BY <1>1, <1>3

(***************************************************************************)
(* A new key.                                                              *)
(***************************************************************************)

LEMMA IssueInv ==
    ASSUME IInv, NEW o \in Operator, Issue(o)
    PROVE  IInv' /\ RowsAdvance
<1> DEFINE c == request[o].customer
           row == ActiveKey(c, request[o].since, request[o].limits, None)
<1>1. PICK k \in PublicId \ used : IssueBatch(k, row)
  BY DEF Issue
<1>2. request' = [request EXCEPT ![o] = Idle] /\ UNCHANGED <<clock, begun>>
  BY DEF Issue
<1>3. request[o] \in Issuing
  <2>1. request[o].kind = "issue" /\ request[o] \in {Idle} \cup Issuing \cup Found
    BY DEF Issue, IInv, TypeOK
  <2>2. Idle.kind # "issue" /\ \A r \in Found : r.kind # "issue"
    BY DEF Idle, Found
  <2> QED BY <2>1, <2>2
<1>4. /\ row \in KeyRow /\ row.status = "active" /\ row.revokedAt = None
      /\ row.customer = c /\ row.parent = None
      /\ row.retainedUntil = RetentionAt(row.expiresAt)
      /\ c \in Customer /\ row.issuedAt \in Nat
  <2>1. c \in Customer /\ request[o].since \in Nat /\ request[o].limits \in 1 .. MaximumLimits
    BY <1>3 DEF Issuing
  <2>2. row.issuedAt = request[o].since
    BY <2>1, ActiveKeyFacts
  <2> HIDE DEF c
  <2> QED BY <2>1, <2>2, ActiveKeyFacts
<1> DEFINE e == AuditEvent("key_issued", k, row, row.issuedAt)
<1> HIDE DEF c, row
<1>5. e \in AuditRow /\ e.customer = c /\ e.key = k /\ e.retainedUntil = row.retainedUntil
  <2>1. /\ e \in AuditRow /\ e.customer = row.customer /\ e.key = k
        /\ e.retainedUntil = AuditRetention("key_issued", row.issuedAt, row)
    BY <1>4, AuditEventFacts
  <2> QED BY <1>4, <2>1 DEF AuditRetention
<1> HIDE DEF e
<1>6. k \notin Stored /\ k \notin revoked /\ None \notin Stored /\ k # None
  BY <1>1 DEF IInv, RowOK, TypeOK
<1>7. /\ Stored' = Stored \cup {k} /\ keys'[k] = row
      /\ \A x \in Stored : keys'[x] = keys[x]
      /\ keys' \in [Stored' -> KeyRow] /\ Stored' \subseteq PublicId
  BY <1>1, <1>4, <1>6 DEF IssueBatch, Insert, Stored, IInv, TypeOK
<1>8. /\ audits' = audits \cup {e} /\ used' = used \cup {k} /\ revoked' = revoked
      /\ DOMAIN customers' = DOMAIN customers \cup {c}
      /\ \A d \in DOMAIN customers' : customers'[d] = None
      /\ customers' \in [DOMAIN customers' -> Time]
  BY <1>1, <1>4 DEF IssueBatch, IInv, TypeOK, e, Time
<1>9. RowsAdvance
  BY <1>1, <1>6, <1>7, <1>8, SameAdvances DEF RowsAdvance, IInv, TypeOK
<1>10. /\ request' \in [Operator -> {Idle} \cup Issuing \cup Found]
       /\ \A p \in Operator : RequestOK(request[p])'
  BY <1>2, <1>7, <1>9, RequestsStay
<1>11. TypeOK'
  BY <1>1, <1>2, <1>4, <1>5, <1>7, <1>8, <1>10 DEF TypeOK, IInv
<1>12. References'
  BY <1>4, <1>5, <1>6, <1>7, <1>8 DEF References, IInv
<1>13. OneSuccessor'
  BY <1>4, <1>7 DEF OneSuccessor, IInv
<1>14. AuditOutlivesKey'
  <2>1. ASSUME NEW x \in Stored PROVE \E a \in audits' :
          /\ a.key = x /\ a.retainedUntil >= keys'[x].retainedUntil
          /\ keys'[x].status = "revoked" => a.action = "key_revoked" /\ a.at = keys'[x].revokedAt
    BY <1>7, <1>8 DEF AuditOutlivesKey, IInv
  <2>2. e \in audits' /\ e.key = k /\ e.retainedUntil >= keys'[k].retainedUntil
        /\ keys'[k].status # "revoked"
    BY <1>4, <1>5, <1>7, <1>8 DEF KeyRow
  <2> QED BY <1>7, <2>1, <2>2 DEF AuditOutlivesKey
<1>15. CustomersAccountedFor'
  BY <1>4, <1>7, <1>8 DEF CustomersAccountedFor, IInv
<1>16. ASSUME NEW x \in Stored' PROVE RowOK(x)' /\ LineageOK(x)'
  <2>1. CASE x = k
    BY <1>4, <1>6, <1>7, <1>8, <2>1 DEF RowOK, LineageOK, IInv, RetentionAt
  <2>2. CASE x # k
    <3>1. x \in Stored /\ keys'[x] = keys[x] /\ keys[x].parent # k
      BY <1>6, <1>7, <2>2 DEF IInv, References
    <3>2. RowOK(x) /\ LineageOK(x)
      BY <3>1 DEF IInv
    <3>3. RowOK(x)'
      BY <1>8, <3>1, <3>2 DEF RowOK
    <3>4. LineageOK(x)'
      BY <1>7, <3>1, <3>2 DEF LineageOK
    <3> QED BY <3>3, <3>4
  <2> QED BY <2>1, <2>2
<1>17. revoked' \subseteq used'
  BY <1>8 DEF IInv
<1> QED BY <1>8, <1>9, <1>10, <1>11, <1>12, <1>13, <1>14, <1>15, <1>16, <1>17 DEF IInv

(***************************************************************************)
(* Revocations and changes of limits: one row changes in place, if it is   *)
(* active.                                                                 *)
(***************************************************************************)

\* A request that has found a key, and the row as it is now.
LEMMA FoundFacts ==
    ASSUME IInv, NEW o \in Operator, request[o].kind \in {"rotate", "revoke", "limits"}
    PROVE  /\ request[o] \in Found /\ request[o].key \in PublicId /\ request[o].prior \in KeyRow
           /\ request[o].limits \in 1 .. MaximumLimits /\ request[o].since \in Nat
           /\ request[o].key \in used
           /\ request[o].key \in Stored =>
                 SincePrior(keys[request[o].key], request[o].prior)
<1>1. request[o] \in {Idle} \cup Issuing \cup Found
  BY DEF IInv, TypeOK
<1>2. request[o] \in Found
  BY <1>1 DEF Idle, Issuing
<1> QED BY <1>2 DEF Found, IInv, RequestOK

\* Rows that change in place keep their keys, parents, customers and events.
LEMMA InPlaceInv ==
    ASSUME IInv, TypeOK', NEW k \in Stored, NEW new \in KeyRow,
           keys' = [keys EXCEPT ![k] = new], Advances(keys[k], new),
           new.parent = keys[k].parent, new.issuedAt = keys[k].issuedAt,
           new.status = "active" => new.overlapUntil = keys[k].overlapUntil,
           NEW E \in SUBSET AuditRow, audits' = audits \cup E,
           \A e \in E : e.key = k /\ e.customer = keys[k].customer,
           \E a \in audits' :
               /\ a.key = k /\ a.retainedUntil >= new.retainedUntil
               /\ new.status = "revoked" => a.action = "key_revoked" /\ a.at = new.revokedAt,
           customers' = customers, used' = used,
           \A x \in PublicId \ {k} : x \in revoked' <=> x \in revoked,
           revoked' \subseteq used',
           RowOK(k)',
           \A p \in Operator : RequestOK(request[p])'
    PROVE  IInv'
<1>1. /\ Stored' = Stored /\ keys'[k] = new
      /\ \A x \in Stored \ {k} : keys'[x] = keys[x]
      /\ \A x \in Stored : /\ keys'[x].parent = keys[x].parent
                           /\ keys'[x].customer = keys[x].customer
                           /\ keys'[x].issuedAt = keys[x].issuedAt
                           /\ keys[x] \in KeyRow
      /\ Stored \subseteq PublicId
  BY DEF Stored, Advances, IInv, TypeOK
<1>2. References' /\ OneSuccessor'
  BY <1>1 DEF References, OneSuccessor, IInv
<1>3. AuditOutlivesKey'
  <2>1. ASSUME NEW x \in Stored, x # k PROVE \E a \in audits' :
          /\ a.key = x /\ a.retainedUntil >= keys'[x].retainedUntil
          /\ keys'[x].status = "revoked" => a.action = "key_revoked" /\ a.at = keys'[x].revokedAt
    BY <1>1, <2>1 DEF AuditOutlivesKey, IInv
  <2> QED BY <1>1, <2>1 DEF AuditOutlivesKey
<1>4. CustomersAccountedFor'
  BY <1>1 DEF CustomersAccountedFor, IInv
<1>5. ASSUME NEW x \in Stored PROVE RowOK(x)'
  BY <1>1, <1>5 DEF RowOK, IInv
<1>6. ASSUME NEW x \in Stored PROVE LineageOK(x)'
  <2> DEFINE l == keys[x].parent
  <2>1. LineageOK(x)
    BY DEF IInv
  <2>2. CASE l = k
    <3>1. keys[k].expiresAt \in Nat /\ new.expiresAt \in Nat /\ keys[x].issuedAt \in Nat
      BY <1>1 DEF KeyRow
    <3>2. new.status = "active" => keys[k].status = "active"
      BY <1>1 DEF Advances, KeyRow
    <3> QED BY <1>1, <2>1, <2>2, <3>1, <3>2 DEF LineageOK, Advances, ExpiryAt
  <2>3. CASE l # k
    BY <1>1, <2>1, <2>3 DEF LineageOK
  <2> QED BY <2>2, <2>3
<1> QED BY <1>1, <1>2, <1>3, <1>4, <1>5, <1>6 DEF IInv

LEMMA RevokeInv ==
    ASSUME IInv, NEW o \in Operator, Revoke(o)
    PROVE  IInv' /\ RowsAdvance
<1>0. PICK k, prior : k = request[o].key /\ prior = request[o].prior
  OBVIOUS
<1>1. PICK at \in request[o].since .. clock : RevokeBatch(k, prior, at)
  BY <1>0 DEF Revoke
<1>2. request' = [request EXCEPT ![o] = Idle] /\ UNCHANGED <<clock, begun>>
  BY DEF Revoke
<1>3. /\ k \in PublicId /\ prior \in KeyRow /\ k \in used /\ request[o].since \in Nat
      /\ k \in Stored => SincePrior(keys[k], prior)
  <2>1. request[o].kind = "revoke"
    BY DEF Revoke
  <2> QED BY <1>0, <2>1, FoundFacts
<1>4. at \in Nat
  BY <1>1, <1>3 DEF IInv, TypeOK
<1> DEFINE e == AuditEvent("key_revoked", k, prior, at)
<1>5. /\ e \in AuditRow /\ e.customer = prior.customer /\ e.key = k /\ e.at = at
      /\ e.action = "key_revoked" /\ e.retainedUntil = RetentionAt(at)
  <2>1. e.retainedUntil = AuditRetention("key_revoked", at, prior)
    BY <1>3, <1>4, AuditEventFacts
  <2> QED BY <1>3, <1>4, <2>1, AuditEventFacts DEF AuditRetention
<1> DEFINE new == RevokedRow(keys[k], at)
<1>6. k \in Stored => keys[k] \in KeyRow
  BY DEF IInv, TypeOK
<1>7. k \in Stored =>
         /\ new \in KeyRow /\ new.status = "revoked" /\ new.revokedAt = at
         /\ new.retainedUntil = RetentionAt(at) /\ new.parent = keys[k].parent
         /\ new.issuedAt = keys[k].issuedAt /\ Advances(keys[k], new)
  <2> SUFFICES ASSUME k \in Stored PROVE
         /\ new \in KeyRow /\ new.status = "revoked" /\ new.revokedAt = at
         /\ new.retainedUntil = RetentionAt(at) /\ new.parent = keys[k].parent
         /\ new.issuedAt = keys[k].issuedAt /\ Advances(keys[k], new)
    OBVIOUS
  <2>1. keys[k] \in KeyRow
    BY <1>6
  <2>2. /\ new \in KeyRow /\ new.status = "revoked" /\ new.revokedAt = at
        /\ new.retainedUntil = RetentionAt(at)
        /\ new.parent = keys[k].parent /\ new.expiresAt = keys[k].expiresAt
        /\ new.customer = keys[k].customer /\ new.issuedAt = keys[k].issuedAt
        /\ new.limits = keys[k].limits /\ new.version = keys[k].version
    BY <1>4, <2>1, RevokedRowFacts
  <2>3. Advances(keys[k], new)
    BY <2>1, <2>2 DEF Advances, KeyRow
  <2> QED BY <2>2, <2>3
<1>8. UNCHANGED <<customers, used>>
  BY <1>1 DEF RevokeBatch
<1> HIDE DEF e, new
<1>9. CASE IsActive(k)
  <2>1. /\ k \in Stored /\ keys[k].status = "active"
        /\ keys' = [keys EXCEPT ![k] = new] /\ revoked' = revoked \cup {k}
    BY <1>1, <1>9 DEF RevokeBatch, IsActive, new
  <2>2. audits' = audits \cup {e}
    <3>1. k \in Stored /\ keys'[k].status = "revoked" /\ keys'[k].revokedAt = at
      BY <1>7, <2>1 DEF Stored, IInv, TypeOK
    <3> QED BY <1>1, <3>1 DEF RevokeBatch, e
  <2>3. Stored' = Stored /\ keys' \in [Stored' -> KeyRow] /\ keys'[k] = new
        /\ \A x \in Stored \ {k} : keys'[x] = keys[x]
    BY <1>7, <2>1 DEF Stored, IInv, TypeOK
  <2>4. RowsAdvance
    BY <1>7, <1>8, <2>3, SameAdvances DEF RowsAdvance, IInv, TypeOK
  <2>5. Stored' \subseteq PublicId
    BY <2>3 DEF IInv, TypeOK
  <2>6. /\ request' \in [Operator -> {Idle} \cup Issuing \cup Found]
        /\ \A p \in Operator : RequestOK(request[p])'
    BY <1>2, <2>3, <2>4, <2>5, RequestsStay
  <2>7. TypeOK'
    BY <1>2, <1>3, <1>5, <1>8, <2>1, <2>2, <2>3, <2>5, <2>6 DEF TypeOK, IInv
  <2>8. RowOK(k)'
    <3>1. new.revokedAt # None
      BY <1>4, <1>7, <2>1
    <3> QED BY <1>3, <1>7, <1>8, <2>1, <2>3, <3>1 DEF RowOK
  <2>9. e.customer = keys[k].customer /\ e.retainedUntil >= new.retainedUntil
    BY <1>3, <1>4, <1>5, <1>7, <2>1 DEF SincePrior, RetentionAt
  <2>10. revoked' \subseteq used'
    BY <1>3, <1>8, <2>1 DEF IInv
  <2>11. \E a \in audits' :
            /\ a.key = k /\ a.retainedUntil >= new.retainedUntil
            /\ new.status = "revoked" => a.action = "key_revoked" /\ a.at = new.revokedAt
    BY <1>5, <1>7, <2>1, <2>2, <2>9
  <2>12. IInv'
    <3>1. {e} \in SUBSET AuditRow /\ \A x \in {e} : x.key = k /\ x.customer = keys[k].customer
      BY <1>5, <2>9
    <3>2. \A x \in PublicId \ {k} : x \in revoked' <=> x \in revoked
      BY <2>1
    <3>3. new.status # "active"
      BY <1>7, <2>1
    <3> QED BY <1>7, <1>8, <2>1, <2>2, <2>6, <2>7, <2>8, <2>10, <2>11, <3>1, <3>2, <3>3,
               InPlaceInv
  <2> QED BY <2>4, <2>12
<1>10. CASE ~IsActive(k)
  <2>1. keys' = keys /\ revoked' = revoked /\ Stored' = Stored
    BY <1>1, <1>10 DEF RevokeBatch, Stored
  <2>2. RowsAdvance
    BY <1>8, <2>1, SameAdvances DEF RowsAdvance, IInv, TypeOK
  <2>3. /\ request' \in [Operator -> {Idle} \cup Issuing \cup Found]
        /\ \A p \in Operator : RequestOK(request[p])'
    BY <1>2, <2>1, <2>2, RequestsStay DEF IInv, TypeOK
  <2>4. CASE audits' = audits
    <3>1. TypeOK'
      BY <1>2, <1>8, <2>1, <2>3, <2>4 DEF TypeOK, IInv
    <3> QED BY <1>8, <2>1, <2>2, <2>3, <2>4, <3>1, RowsInv DEF Rows
  <2>5. CASE k \in Stored /\ audits' = audits \cup {e}
    <3>1. TypeOK'
      BY <1>2, <1>5, <1>8, <2>1, <2>3, <2>5 DEF TypeOK, IInv
    <3>2. e.customer = keys[k].customer
      BY <1>3, <1>5, <2>5 DEF SincePrior
    <3>3. keys' = [keys EXCEPT ![k] = keys[k]] /\ Advances(keys[k], keys[k])
      BY <1>6, <2>1, <2>5, SameAdvances DEF IInv, TypeOK
    <3>4. RowOK(k)'
      BY <1>8, <2>1, <2>5 DEF RowOK, IInv
    <3>5. \E a \in audits' :
            /\ a.key = k /\ a.retainedUntil >= keys[k].retainedUntil
            /\ keys[k].status = "revoked" => a.action = "key_revoked" /\ a.at = keys[k].revokedAt
      BY <2>5 DEF AuditOutlivesKey, IInv
    <3>6. {e} \in SUBSET AuditRow /\ \A x \in {e} : x.key = k /\ x.customer = keys[k].customer
      BY <1>5, <3>2
    <3>7. revoked' \subseteq used' /\ \A x \in PublicId \ {k} : x \in revoked' <=> x \in revoked
      BY <1>8, <2>1 DEF IInv
    <3>8. IInv'
      BY <1>6, <1>8, <2>3, <2>5, <3>1, <3>3, <3>4, <3>5, <3>6, <3>7, InPlaceInv
    <3> QED BY <2>2, <3>8
  <2> QED BY <1>1, <2>4, <2>5 DEF RevokeBatch, e
<1> QED BY <1>9, <1>10

LEMMA ChangeLimitsInv ==
    ASSUME IInv, NEW o \in Operator, ChangeLimits(o)
    PROVE  IInv' /\ RowsAdvance
<1>0. PICK k, prior, l : /\ k = request[o].key /\ prior = request[o].prior
                         /\ l = request[o].limits
  OBVIOUS
<1>1. PICK at \in request[o].since .. clock : LimitsBatch(k, prior, l, at)
  BY <1>0 DEF ChangeLimits
<1>2. request' = [request EXCEPT ![o] = Idle] /\ UNCHANGED <<clock, begun>>
  BY DEF ChangeLimits
<1>3. /\ k \in PublicId /\ prior \in KeyRow /\ k \in used /\ request[o].since \in Nat
      /\ l \in 1 .. MaximumLimits
      /\ k \in Stored => SincePrior(keys[k], prior)
  <2>1. request[o].kind = "limits"
    BY DEF ChangeLimits
  <2> QED BY <1>0, <2>1, FoundFacts
<1>4. at \in Nat
  BY <1>1, <1>3 DEF IInv, TypeOK
<1> DEFINE e == AuditEvent("key_limits_changed", k, prior, at)
<1>5. e \in AuditRow /\ e.customer = prior.customer /\ e.key = k
  BY <1>3, <1>4, AuditEventFacts
<1> DEFINE new == LimitedRow(keys[k], prior, l)
<1>6. UNCHANGED <<customers, used, revoked>>
  BY <1>1 DEF LimitsBatch
<1>7. CASE IsActive(k)
  <2>1. /\ k \in Stored /\ keys[k].status = "active" /\ keys[k] \in KeyRow
        /\ keys' = [keys EXCEPT ![k] = new] /\ audits' = audits \cup {e}
    BY <1>1, <1>7 DEF LimitsBatch, IsActive, IInv, TypeOK
  <2>2. /\ new \in KeyRow /\ new.limits = l /\ new.version = keys[k].version + 1
        /\ new.status = keys[k].status /\ new.revokedAt = keys[k].revokedAt
        /\ new.parent = keys[k].parent /\ new.expiresAt = keys[k].expiresAt
        /\ new.overlapUntil = keys[k].overlapUntil /\ new.customer = keys[k].customer
        /\ new.issuedAt = keys[k].issuedAt /\ new.retainedUntil = keys[k].retainedUntil
    BY <1>3, <2>1, LimitedRowFacts
  <2> HIDE DEF e, new
  <2>3. Advances(keys[k], new)
    BY <2>1, <2>2 DEF Advances, KeyRow
  <2>4. Stored' = Stored /\ keys' \in [Stored' -> KeyRow] /\ keys'[k] = new
        /\ \A x \in Stored \ {k} : keys'[x] = keys[x]
    BY <2>1, <2>2 DEF Stored, IInv, TypeOK
  <2>5. RowsAdvance
    BY <1>6, <2>3, <2>4, SameAdvances DEF RowsAdvance, IInv, TypeOK
  <2>6. Stored' \subseteq PublicId
    BY <2>4 DEF IInv, TypeOK
  <2>7. /\ request' \in [Operator -> {Idle} \cup Issuing \cup Found]
        /\ \A p \in Operator : RequestOK(request[p])'
    BY <1>2, <2>4, <2>5, <2>6, RequestsStay
  <2>8. TypeOK'
    BY <1>2, <1>5, <1>6, <2>1, <2>4, <2>6, <2>7 DEF TypeOK, IInv
  <2>9. RowOK(k)'
    <3>1. RowOK(k)
      BY <2>1 DEF IInv
    <3> QED BY <1>6, <2>2, <2>4, <3>1 DEF RowOK
  <2>10. \E a \in audits' :
            /\ a.key = k /\ a.retainedUntil >= new.retainedUntil
            /\ new.status = "revoked" => a.action = "key_revoked" /\ a.at = new.revokedAt
    BY <2>1, <2>2 DEF AuditOutlivesKey, IInv
  <2>11. {e} \in SUBSET AuditRow /\ \A x \in {e} : x.key = k /\ x.customer = keys[k].customer
    BY <1>3, <1>5, <2>1 DEF SincePrior
  <2>12. revoked' \subseteq used' /\ \A x \in PublicId \ {k} : x \in revoked' <=> x \in revoked
    BY <1>6 DEF IInv
  <2>13. IInv'
    BY <1>6, <2>1, <2>2, <2>3, <2>7, <2>8, <2>9, <2>10, <2>11, <2>12, InPlaceInv
  <2> QED BY <2>5, <2>13
<1>8. CASE ~IsActive(k)
  <2>1. UNCHANGED Rows /\ Stored' = Stored
    BY <1>1, <1>6, <1>8 DEF LimitsBatch, Rows, Stored
  <2>2. RowsAdvance
    BY <2>1, SameAdvances DEF RowsAdvance, Rows, IInv, TypeOK
  <2>3. /\ request' \in [Operator -> {Idle} \cup Issuing \cup Found]
        /\ \A p \in Operator : RequestOK(request[p])'
    BY <1>2, <2>1, <2>2, RequestsStay DEF IInv, TypeOK, Rows
  <2>4. TypeOK'
    BY <1>2, <2>1, <2>3 DEF TypeOK, IInv, Rows
  <2> QED BY <2>1, <2>2, <2>3, <2>4, RowsInv
<1> QED BY <1>7, <1>8

(***************************************************************************)
(* Rotations: a new row, and the old one ends.                             *)
(***************************************************************************)

LEMMA RotateInv ==
    ASSUME IInv, NEW o \in Operator, Rotate(o)
    PROVE  IInv' /\ RowsAdvance
<1>0. PICK p, prior : p = request[o].key /\ prior = request[o].prior
  OBVIOUS
<1>1. PICK k \in PublicId \ used, at \in request[o].since .. clock : RotateBatch(p, prior, k, at)
  BY <1>0 DEF Rotate
<1>2. request' = [request EXCEPT ![o] = Idle] /\ UNCHANGED <<clock, begun>>
  BY DEF Rotate
<1>3. /\ p \in PublicId /\ prior \in KeyRow /\ p \in used /\ request[o].since \in Nat
      /\ p \in Stored => SincePrior(keys[p], prior)
  <2>1. request[o].kind = "rotate"
    BY DEF Rotate
  <2> QED BY <1>0, <2>1, FoundFacts
<1>4. at \in Nat
  BY <1>1, <1>3 DEF IInv, TypeOK
<1>5. UNCHANGED <<customers, revoked>>
  BY <1>1 DEF RotateBatch
<1>6. CASE ~Replaceable(p, prior)
  <2>1. UNCHANGED Rows /\ Stored' = Stored
    BY <1>1, <1>5, <1>6 DEF RotateBatch, Rows, Stored
  <2>2. RowsAdvance
    BY <2>1, SameAdvances DEF RowsAdvance, Rows, IInv, TypeOK
  <2>3. /\ request' \in [Operator -> {Idle} \cup Issuing \cup Found]
        /\ \A q \in Operator : RequestOK(request[q])'
    BY <1>2, <2>1, <2>2, RequestsStay DEF IInv, TypeOK, Rows
  <2>4. TypeOK'
    BY <1>2, <2>1, <2>3 DEF TypeOK, IInv, Rows
  <2> QED BY <2>1, <2>2, <2>3, <2>4, RowsInv
<1>7. CASE Replaceable(p, prior)
  <2> DEFINE row == Successor(prior, p, at)
             until == OverlapUntil(prior, at)
             old == Replaced(keys[p], until)
             e == AuditEvent("key_rotated", k, row, at)
  <2>1. /\ p \in Stored /\ keys[p] \in KeyRow /\ keys[p].customer = prior.customer
        /\ keys[p].status = "active" /\ keys[p].overlapUntil = None
        /\ keys[p].expiresAt = prior.expiresAt /\ p \notin revoked
    BY <1>3, <1>7 DEF Replaceable, SincePrior, IInv, TypeOK, RowOK
  <2>2. /\ row \in KeyRow /\ row.status = "active" /\ row.revokedAt = None
        /\ row.overlapUntil = None /\ row.customer = prior.customer /\ row.issuedAt = at
        /\ row.parent = p /\ row.limits = prior.limits /\ row.version = 0
        /\ row.retainedUntil = RetentionAt(row.expiresAt)
    <3>1. prior.customer \in Customer /\ prior.limits \in 1 .. MaximumLimits
      BY <1>3 DEF KeyRow
    <3> QED BY <1>3, <1>4, <3>1, ActiveKeyFacts DEF Successor
  <2>3. until \in Nat /\ until <= keys[p].expiresAt /\ until <= ExpiryAt(at, Overlap)
    BY <1>3, <1>4, <2>1, OverlapUntilFacts
  <2> HIDE DEF row, until
  <2>4. /\ old \in KeyRow /\ old.expiresAt = until /\ old.overlapUntil = until
        /\ old.retainedUntil = RetentionAt(until) /\ old.status = "active"
        /\ old.revokedAt = keys[p].revokedAt /\ old.parent = keys[p].parent
        /\ old.customer = keys[p].customer /\ old.issuedAt = keys[p].issuedAt
        /\ old.limits = keys[p].limits /\ old.version = keys[p].version
    <3>1. PICK was : was = keys[p]
      OBVIOUS
    <3>2. old = Replaced(was, until) /\ was \in KeyRow
      BY <2>1, <3>1
    <3> HIDE DEF old
    <3>3. /\ old \in KeyRow /\ old.expiresAt = until /\ old.overlapUntil = until
          /\ old.retainedUntil = RetentionAt(until) /\ old.status = was.status
          /\ old.revokedAt = was.revokedAt /\ old.parent = was.parent
          /\ old.customer = was.customer /\ old.issuedAt = was.issuedAt
          /\ old.limits = was.limits /\ old.version = was.version
      BY <2>3, <3>2, ReplacedFacts
    <3> QED BY <2>1, <3>1, <3>3
  <2>5. e \in AuditRow /\ e.customer = row.customer /\ e.key = k
        /\ e.retainedUntil = row.retainedUntil
    <3>1. /\ e \in AuditRow /\ e.customer = row.customer /\ e.key = k
          /\ e.retainedUntil = AuditRetention("key_rotated", at, row)
      BY <1>4, <2>2, AuditEventFacts
    <3> QED BY <2>2, <3>1 DEF AuditRetention
  <2>6. k \notin Stored /\ k \notin revoked /\ k # None /\ p # None /\ k # p /\ None \notin Stored
    BY <1>1, <1>3, <2>1 DEF IInv, RowOK, TypeOK
  <2>7. /\ keys' = [Insert(k, row) EXCEPT ![p] = Replaced(@, until)]
        /\ audits' = audits \cup {e} /\ used' = used \cup {k}
    BY <1>1, <1>7 DEF RotateBatch, row, until
  <2> HIDE DEF old, e
  <2>8. /\ Stored' = Stored \cup {k} /\ keys'[k] = row /\ keys'[p] = old
        /\ \A x \in Stored \ {p} : keys'[x] = keys[x]
        /\ keys' \in [Stored' -> KeyRow] /\ Stored' \subseteq PublicId
    <3>1. keys' = [x \in Stored \cup {k} |-> IF x = p THEN old ELSE IF x = k THEN row ELSE keys[x]]
      BY <2>1, <2>6, <2>7 DEF Insert, old
    <3> QED BY <1>1, <2>1, <2>2, <2>4, <2>6, <3>1 DEF Stored, IInv, TypeOK
  <2>9. Advances(keys[p], old)
    <3>1. keys[p].version \in Nat /\ old.overlapUntil # None
      BY <2>1, <2>3, <2>4 DEF KeyRow
    <3> QED BY <2>1, <2>3, <2>4, <3>1 DEF Advances
  <2>10. RowsAdvance
    <3>1. ASSUME NEW x \in Stored PROVE Advances(keys[x], keys'[x])
      BY <2>8, <2>9, SameAdvances DEF IInv, TypeOK
    <3> QED BY <1>1, <2>6, <2>7, <2>8, <3>1 DEF RowsAdvance
  <2>11. /\ request' \in [Operator -> {Idle} \cup Issuing \cup Found]
         /\ \A q \in Operator : RequestOK(request[q])'
    BY <1>2, <2>8, <2>10, RequestsStay
  <2>12. TypeOK'
    BY <1>1, <1>2, <1>5, <2>5, <2>7, <2>8, <2>11 DEF TypeOK, IInv
  <2>13. \A x \in Stored : keys'[x].parent = keys[x].parent /\ keys'[x].customer = keys[x].customer
                          /\ keys'[x].issuedAt = keys[x].issuedAt
    BY <2>4, <2>8
  <2>14. References'
    BY <1>5, <2>1, <2>2, <2>5, <2>6, <2>7, <2>8, <2>13 DEF References, IInv
  <2>15. \A x \in Stored : keys[x].parent # p
    BY <2>1 DEF LineageOK, IInv
  <2>16. OneSuccessor'
    BY <2>2, <2>8, <2>13, <2>15 DEF OneSuccessor, IInv
  <2>17. AuditOutlivesKey'
    <3>1. ASSUME NEW x \in Stored PROVE \E a \in audits' :
            /\ a.key = x /\ a.retainedUntil >= keys'[x].retainedUntil
            /\ keys'[x].status = "revoked" => a.action = "key_revoked" /\ a.at = keys'[x].revokedAt
      <4>1. PICK a \in audits :
              /\ a.key = x /\ a.retainedUntil >= keys[x].retainedUntil
              /\ keys[x].status = "revoked" => a.action = "key_revoked" /\ a.at = keys[x].revokedAt
        BY DEF AuditOutlivesKey, IInv
      <4>2. CASE x # p
        BY <2>7, <2>8, <4>1, <4>2
      <4>3. CASE x = p
        <5>1. keys[p].retainedUntil = RetentionAt(keys[p].expiresAt)
          BY <2>1 DEF IInv, RowOK
        <5>2. keys[p].expiresAt \in Nat /\ a.retainedUntil \in Nat
          BY <2>1 DEF KeyRow, AuditRow, IInv, TypeOK
        <5>3. a.retainedUntil >= old.retainedUntil
          BY <2>3, <2>4, <4>1, <4>3, <5>1, <5>2 DEF RetentionAt
        <5> QED BY <2>4, <2>7, <2>8, <4>1, <4>3, <5>3
      <4> QED BY <4>2, <4>3
    <3>2. e \in audits' /\ e.key = k /\ e.retainedUntil >= keys'[k].retainedUntil
          /\ keys'[k].status # "revoked"
      BY <2>2, <2>5, <2>7, <2>8 DEF KeyRow
    <3> QED BY <2>8, <3>1, <3>2 DEF AuditOutlivesKey
  <2>18. CustomersAccountedFor'
    BY <1>5, <2>7, <2>8, <2>13 DEF CustomersAccountedFor, IInv
  <2>19. ASSUME NEW x \in Stored' PROVE RowOK(x)'
    <3>1. CASE x = k
      BY <1>5, <2>2, <2>6, <2>7, <2>8, <3>1 DEF RowOK, RetentionAt
    <3>2. CASE x = p
      BY <1>3, <1>5, <2>1, <2>4, <2>7, <2>8, <3>2 DEF RowOK, IInv
    <3>3. CASE x # k /\ x # p
      <4>1. x \in Stored /\ keys'[x] = keys[x] /\ RowOK(x)
        BY <2>8, <3>3 DEF IInv
      <4> QED BY <1>5, <2>7, <4>1 DEF RowOK
    <3> QED BY <3>1, <3>2, <3>3
  <2>20. ASSUME NEW x \in Stored' PROVE LineageOK(x)'
    <3>1. CASE x = k
      <4>1. old.overlapUntil # None
        BY <2>3, <2>4
      <4> QED BY <2>2, <2>3, <2>4, <2>8, <3>1, <4>1 DEF LineageOK
    <3>2. CASE x # k
      <4>1. /\ x \in Stored /\ LineageOK(x) /\ keys'[x].parent = keys[x].parent
            /\ keys'[x].issuedAt = keys[x].issuedAt
            /\ keys[x].parent # p /\ keys[x].parent # k
        BY <2>6, <2>8, <2>13, <2>15, <3>2 DEF IInv, References
      <4> QED BY <2>8, <4>1 DEF LineageOK
    <3> QED BY <3>1, <3>2
  <2>21. revoked' \subseteq used' /\ \A c \in DOMAIN customers' : customers'[c] = None
    BY <1>5, <2>7 DEF IInv
  <2>22. IInv'
    BY <2>11, <2>12, <2>14, <2>16, <2>17, <2>18, <2>19, <2>20, <2>21 DEF IInv
  <2> QED BY <2>10, <2>22
<1> QED BY <1>6, <1>7

(***************************************************************************)
(* The sweep.                                                              *)
(***************************************************************************)

\* The latest of some times is one of them.
LEMMA LatestFacts ==
    ASSUME NEW times \in SUBSET Nat, NEW due \in Nat, \A t \in times : t <= due
    PROVE  Latest(times, due) \in Nat /\ Latest(times, due) <= due
<1>1. CASE times = {}
  BY <1>1 DEF Latest
<1>2. CASE times # {}
  <2> DEFINE left == {due - t : t \in times}
         less == {ss \in Nat \X Nat : ss[1] < ss[2]}
  <2>1. left \subseteq Nat /\ left # {}
    <3>1. \A t \in times : t \in Nat /\ due - t \in Nat
      OBVIOUS
    <3> QED BY <1>2, <3>1
  <2>2. PICK x \in left : \A y \in left : ~ (<<y, x>> \in less)
    <3>1. IsWellFoundedOn(less, Nat)
      BY NatLessThanWellFounded, Zenon DEF OpToRel
    <3> HIDE DEF less, left
    <3> QED BY <2>1, <3>1, WFMin
  <2>3. \A y \in left : ~ (y < x)
    <3> HIDE DEF left
    <3> QED BY <2>1, <2>2
  <2>4. PICK t \in times : x = due - t
    BY <2>2
  <2>5. \A u \in times : u <= t
    <3> SUFFICES ASSUME NEW u \in times PROVE u <= t
      OBVIOUS
    <3>1. due - u \in left
      OBVIOUS
    <3>2. ~ (due - u < due - t)
      BY <2>3, <2>4, <3>1
    <3> QED BY <3>2
  <2>6. Latest(times, due) \in times
    BY <1>2, <2>5 DEF Latest
  <2> QED BY <2>6
<1> QED BY <1>1, <1>2

LEMMA DeadlineFacts ==
    ASSUME IInv, NEW due \in Nat, NEW c \in Customer, NothingLeftOf(c, due)
    PROVE  Deadline(c, due) \in Nat /\ Deadline(c, due) <= due
<1> DEFINE ofKeys == {keys[k].retainedUntil : k \in {k \in Stored : keys[k].customer = c}}
           ofAudits == {a.retainedUntil : a \in {a \in audits : a.customer = c}}
<1>1. ofKeys \in SUBSET Nat /\ \A t \in ofKeys : t <= due
  BY DEF IInv, TypeOK, KeyRow, NothingLeftOf
<1>2. ofAudits \in SUBSET Nat /\ \A t \in ofAudits : t <= due
  BY DEF IInv, TypeOK, AuditRow, NothingLeftOf
<1>3. Latest(ofKeys, due) \in Nat /\ Latest(ofKeys, due) <= due
  <2> HIDE DEF ofKeys
  <2> QED BY <1>1, LatestFacts
<1>4. Latest(ofAudits, due) \in Nat /\ Latest(ofAudits, due) <= due
  <2> HIDE DEF ofAudits
  <2> QED BY <1>2, LatestFacts
<1>5. /\ Latest({Latest(ofKeys, due), Latest(ofAudits, due)}, due) \in Nat
      /\ Latest({Latest(ofKeys, due), Latest(ofAudits, due)}, due) <= due
  <2> DEFINE both == {Latest(ofKeys, due), Latest(ofAudits, due)}
  <2>1. both \in SUBSET Nat /\ \A t \in both : t <= due
    BY <1>3, <1>4
  <2> HIDE DEF both
  <2>2. Latest(both, due) \in Nat /\ Latest(both, due) <= due
    BY <2>1, LatestFacts
  <2> QED BY <2>2 DEF both
<1> QED BY <1>5 DEF Deadline

\* What is kept beyond its time is what can still be used.
LEMMA DeadFacts ==
    ASSUME IInv, NEW due \in Nat, NEW k \in Stored
    PROVE  /\ k \in Dead(due) <=> keys[k].retainedUntil <= due
           /\ k \in Dead(due) =>
                 IF keys[k].revokedAt # None THEN keys[k].revokedAt + Year <= due
                 ELSE keys[k].expiresAt + Year <= due
<1>1. keys[k] \in KeyRow /\ RowOK(k)
  BY DEF IInv, TypeOK
<1>2. /\ keys[k].status \in {"active", "revoked"} /\ keys[k].expiresAt \in Nat
      /\ keys[k].revokedAt \in Nat \cup {None} /\ keys[k].retainedUntil \in Nat
      /\ Year \in Nat
  BY <1>1 DEF KeyRow, Time
<1>3. CASE keys[k].status = "active"
  BY <1>1, <1>2, <1>3 DEF Dead, RowOK, RetentionAt
<1>4. CASE keys[k].status = "revoked"
  BY <1>1, <1>2, <1>4 DEF Dead, RowOK, RetentionAt
<1> QED BY <1>2, <1>3, <1>4

LEMMA SweepInv ==
    ASSUME IInv, NEW due \in 0 .. clock, SweepAt(due), UNCHANGED <<request, clock, begun>>
    PROVE  /\ IInv' /\ RowsAdvance
           /\ Stored' = Stored \ Dead(due)
<1> DEFINE D == Dead(due)
           kept == {a \in audits : a.retainedUntil > due}
<1>1. due \in Nat /\ D \subseteq Stored
  BY DEF IInv, TypeOK, Dead
<1>2. \A k \in Stored \ D : keys[k].retainedUntil > due
  BY <1>1, DeadFacts DEF IInv, TypeOK, KeyRow
<1> HIDE DEF D
<1>3. /\ keys' = [k \in Stored \ D |-> Unlink(keys[k], D)]
      /\ audits' = {Forget(a, D) : a \in kept}
      /\ used' = used /\ revoked' = revoked
      /\ DOMAIN customers' = {c \in DOMAIN customers : ~Forgotten(c, due)}
      /\ \A c \in DOMAIN customers' : customers'[c] = Retired(c, due)
  BY DEF SweepAt, D
<1>4. \A k \in Stored : keys[k] \in KeyRow /\ k # None
  BY DEF IInv, TypeOK
<1>5. /\ Stored' = Stored \ D
      /\ \A k \in Stored' :
            /\ keys'[k] \in KeyRow
            /\ keys'[k].parent = IF keys[k].parent \in D THEN None ELSE keys[k].parent
            /\ keys'[k].status = keys[k].status /\ keys'[k].revokedAt = keys[k].revokedAt
            /\ keys'[k].expiresAt = keys[k].expiresAt
            /\ keys'[k].overlapUntil = keys[k].overlapUntil
            /\ keys'[k].customer = keys[k].customer /\ keys'[k].issuedAt = keys[k].issuedAt
            /\ keys'[k].retainedUntil = keys[k].retainedUntil
            /\ keys'[k].limits = keys[k].limits /\ keys'[k].version = keys[k].version
  <2>1. Stored' = Stored \ D /\ \A k \in Stored \ D : keys'[k] = Unlink(keys[k], D)
    BY <1>3 DEF Stored
  <2> QED BY <1>4, <2>1, UnlinkFacts
<1>6. keys' \in [Stored' -> KeyRow] /\ Stored' \subseteq PublicId
  BY <1>3, <1>5 DEF Stored, IInv, TypeOK
<1>7. \A a \in audits : a \in AuditRow
  BY DEF IInv, TypeOK
<1>8. \A a \in kept :
         /\ Forget(a, D) \in audits' /\ Forget(a, D) \in AuditRow
         /\ Forget(a, D).key = IF a.key \in D THEN None ELSE a.key
         /\ Forget(a, D).action = a.action /\ Forget(a, D).customer = a.customer
         /\ Forget(a, D).at = a.at /\ Forget(a, D).retainedUntil = a.retainedUntil
  BY <1>3, <1>7, ForgetFacts
<1>9. RowsAdvance
  <2>1. ASSUME NEW k \in Stored' PROVE Advances(keys[k], keys'[k])
    BY <1>4, <1>5 DEF Advances, KeyRow
  <2> QED BY <1>3, <1>5, <2>1 DEF RowsAdvance
<1>10. \A o \in Operator : RequestOK(request[o])'
  <2> SUFFICES ASSUME NEW o \in Operator, request[o] \in Found, request[o].key \in Stored'
               PROVE  SincePrior(keys'[request[o].key], request[o].prior)
    BY <1>3 DEF IInv, RequestOK
  <2>1. SincePrior(keys[request[o].key], request[o].prior)
    BY <1>5 DEF IInv, RequestOK
  <2> QED BY <1>5, <2>1 DEF SincePrior
<1>11. \A c \in DOMAIN customers' :
          /\ customers'[c] = None
          /\ \/ \E k \in Stored' : keys'[k].customer = c
             \/ \E a \in audits' : a.customer = c
  <2> SUFFICES ASSUME NEW c \in DOMAIN customers, ~Forgotten(c, due)
               PROVE  /\ Retired(c, due) = None
                      /\ \/ \E k \in Stored' : keys'[k].customer = c
                         \/ \E a \in audits' : a.customer = c
    BY <1>3
  <2>1. c \in Customer /\ customers[c] = None
    BY DEF IInv, TypeOK
  <2>2. ~NothingLeftOf(c, due)
    <3> SUFFICES ASSUME NothingLeftOf(c, due) PROVE FALSE
      OBVIOUS
    <3>1. Retired(c, due) \in Nat /\ Retired(c, due) <= due
      BY <1>1, <2>1, DeadlineFacts DEF Retired
    <3>2. \A k \in Stored \ D : keys[k].customer # c
      BY <1>1, <1>2, <1>4 DEF NothingLeftOf, KeyRow
    <3>3. \A a \in audits : a.customer = c => a.retainedUntil <= due
      BY DEF NothingLeftOf
    <3> QED BY <3>1, <3>2, <3>3 DEF Forgotten, D
  <2>3. CASE \E k \in Stored : /\ keys[k].customer = c
                               /\ ~(/\ keys[k].retainedUntil <= due
                                    /\ keys[k].revokedAt # None \/ keys[k].expiresAt <= due)
    <3>1. PICK k \in Stored : /\ keys[k].customer = c
                              /\ ~(/\ keys[k].retainedUntil <= due
                                   /\ keys[k].revokedAt # None \/ keys[k].expiresAt <= due)
      BY <2>3
    <3>2. k \notin D
      BY <3>1 DEF D, Dead
    <3> QED BY <1>5, <2>1, <2>2, <3>1, <3>2 DEF Retired
  <2>4. CASE \E a \in audits : a.customer = c /\ ~(a.retainedUntil <= due)
    <3>1. PICK a \in audits : a.customer = c /\ ~(a.retainedUntil <= due)
      BY <2>4
    <3>2. a \in kept
      BY <1>1, <1>7, <3>1 DEF AuditRow
    <3> QED BY <1>8, <2>1, <2>2, <3>1, <3>2 DEF Retired
  <2> QED BY <2>2, <2>3, <2>4 DEF NothingLeftOf
<1>12. customers' \in [DOMAIN customers' -> Time] /\ DOMAIN customers' \subseteq Customer
  <2>1. customers' = [c \in DOMAIN customers' |-> Retired(c, due)]
    BY DEF SweepAt
  <2>2. \A c \in DOMAIN customers' : Retired(c, due) \in Time
    BY <1>3, <1>11 DEF Time
  <2>3. DOMAIN customers' \subseteq Customer
    BY <1>3 DEF IInv, TypeOK
  <2> QED BY <2>1, <2>2, <2>3
<1>13. TypeOK'
  <2>1. audits' \subseteq AuditRow
    BY <1>3, <1>8
  <2> QED BY <1>3, <1>6, <1>12, <2>1 DEF IInv, TypeOK
<1>14. References'
  <2>1. ASSUME NEW k \in Stored' PROVE keys'[k].customer \in DOMAIN customers'
    <3>1. keys[k].customer \in DOMAIN customers /\ k \in Stored \ D
      BY <1>5 DEF IInv, References
    <3>2. ~Forgotten(keys[k].customer, due)
      BY <3>1 DEF Forgotten, D
    <3> QED BY <1>3, <1>5, <3>1, <3>2
  <2>2. ASSUME NEW k \in Stored' PROVE keys'[k].parent \in Stored' \cup {None}
    BY <1>5 DEF IInv, References
  <2>3. ASSUME NEW a \in kept
        PROVE  /\ Forget(a, D).customer \in DOMAIN customers'
               /\ Forget(a, D).key \in Stored' \cup {None}
    <3>1. a.customer \in DOMAIN customers /\ a.key \in Stored \cup {None}
      BY DEF IInv, References
    <3>2. ~Forgotten(a.customer, due)
      BY <1>1, <1>7 DEF Forgotten, AuditRow
    <3> QED BY <1>3, <1>5, <1>8, <3>1, <3>2
  <2> QED BY <1>3, <2>1, <2>2, <2>3 DEF References
<1>15. OneSuccessor'
  BY <1>5 DEF OneSuccessor, IInv
<1>16. AuditOutlivesKey'
  <2> SUFFICES ASSUME NEW k \in Stored'
               PROVE  \E a \in audits' :
                         /\ a.key = k /\ a.retainedUntil >= keys'[k].retainedUntil
                         /\ keys'[k].status = "revoked" =>
                               a.action = "key_revoked" /\ a.at = keys'[k].revokedAt
    BY DEF AuditOutlivesKey
  <2>1. PICK a \in audits :
          /\ a.key = k /\ a.retainedUntil >= keys[k].retainedUntil
          /\ keys[k].status = "revoked" => a.action = "key_revoked" /\ a.at = keys[k].revokedAt
    BY <1>5 DEF AuditOutlivesKey, IInv
  <2>2. a \in kept
    BY <1>1, <1>2, <1>4, <1>5, <1>7, <2>1 DEF KeyRow, AuditRow
  <2> QED BY <1>5, <1>8, <2>1, <2>2
<1>17. ASSUME NEW k \in Stored' PROVE RowOK(k)'
  BY <1>3, <1>5 DEF RowOK, IInv
<1>18. ASSUME NEW k \in Stored' PROVE LineageOK(k)'
  <2>1. LineageOK(k) /\ k \in Stored
    BY <1>5 DEF IInv
  <2>2. None \notin Stored'
    BY <1>4, <1>5
  <2> QED BY <1>5, <2>1, <2>2 DEF LineageOK
<1> QED BY <1>3, <1>5, <1>9, <1>10, <1>11, <1>13, <1>14, <1>15, <1>16, <1>17, <1>18
        DEF IInv, CustomersAccountedFor, D

-----------------------------------------------------------------------------
(***************************************************************************)
(* The theorems.                                                           *)
(***************************************************************************)

\* Only the sweep takes rows away.
LEMMA BatchesKeepRows ==
    ASSUME NEW o \in Operator, Issue(o) \/ Rotate(o) \/ Revoke(o) \/ ChangeLimits(o)
    PROVE  Stored \subseteq Stored'
<1>1. CASE Issue(o)
  BY <1>1 DEF Issue, IssueBatch, Insert, Stored
<1>2. CASE Rotate(o)
  <2>1. PICK p, prior, k, at : RotateBatch(p, prior, k, at)
    BY <1>2 DEF Rotate
  <2>2. Stored \subseteq DOMAIN Insert(k, Successor(prior, p, at))
    BY DEF Insert
  <2> QED BY <2>1, <2>2 DEF RotateBatch, Stored
<1>3. CASE Revoke(o)
  BY <1>3 DEF Revoke, RevokeBatch, Stored
<1>4. CASE ChangeLimits(o)
  BY <1>4 DEF ChangeLimits, LimitsBatch, Stored
<1> QED BY <1>1, <1>2, <1>3, <1>4

LEMMA NextInv ==
    ASSUME IInv, [Next]_vars
    PROVE  /\ IInv' /\ RowsAdvance
           /\ \A k \in Stored \ Stored' :
                 IF keys[k].revokedAt # None THEN keys[k].revokedAt + Year <= clock
                 ELSE keys[k].expiresAt + Year <= clock
<1>1. ASSUME UNCHANGED Rows PROVE RowsAdvance /\ Stored' = Stored
  BY <1>1, SameAdvances DEF RowsAdvance, Rows, Stored, IInv, TypeOK
<1>2. CASE UNCHANGED vars
  <2>1. UNCHANGED Rows /\ UNCHANGED <<request, clock, begun>>
    BY <1>2 DEF vars, Rows
  <2>2. TypeOK' /\ (\A o \in Operator : RequestOK(request[o])')
    BY <2>1 DEF IInv, TypeOK, RequestOK, Rows, Stored
  <2> QED BY <1>1, <2>1, <2>2, RowsInv
<1>3. ASSUME NEW o \in Operator, BeginIssue(o) \/ Find(o) \/ Fail(o)
      PROVE  IInv' /\ RowsAdvance /\ Stored' = Stored
  <2>1. UNCHANGED Rows
    BY <1>3 DEF BeginIssue, Find, Fail, Rows
  <2> QED BY <1>1, <1>3, <2>1, BeginIssueInv, FindInv, FailInv
<1>4. ASSUME NEW o \in Operator, Issue(o) \/ Rotate(o) \/ Revoke(o) \/ ChangeLimits(o)
      PROVE  IInv' /\ RowsAdvance /\ Stored \subseteq Stored'
  BY <1>4, BatchesKeepRows, IssueInv, RotateInv, RevokeInv, ChangeLimitsInv
<1>5. CASE Tick
  <2>1. UNCHANGED Rows
    BY <1>5 DEF Tick, Rows
  <2> QED BY <1>1, <1>5, <2>1, TickInv
<1>6. CASE Sweep
  <2>1. PICK due \in 0 .. clock : SweepAt(due) /\ UNCHANGED <<request, clock, begun>>
    BY <1>6 DEF Sweep
  <2>2. due \in Nat /\ due <= clock /\ clock \in Nat
    BY <2>1 DEF IInv, TypeOK
  <2>3. IInv' /\ RowsAdvance /\ Stored' = Stored \ Dead(due)
    BY <2>1, SweepInv
  <2>4. ASSUME NEW k \in Stored \ Stored'
        PROVE  IF keys[k].revokedAt # None THEN keys[k].revokedAt + Year <= clock
               ELSE keys[k].expiresAt + Year <= clock
    <3>1. k \in Dead(due)
      BY <2>3
    <3>2. keys[k].revokedAt \in Time /\ keys[k].expiresAt \in Nat /\ Year \in Nat
      BY DEF IInv, TypeOK, KeyRow
    <3>3. CASE keys[k].revokedAt # None
      <4>1. keys[k].revokedAt + Year <= due
        BY <2>2, <3>1, <3>3, DeadFacts
      <4> QED BY <2>2, <3>2, <3>3, <4>1 DEF Time
    <3>4. CASE keys[k].revokedAt = None
      <4>1. keys[k].expiresAt + Year <= due
        BY <2>2, <3>1, <3>4, DeadFacts
      <4> QED BY <2>2, <3>2, <3>4, <4>1
    <3> QED BY <3>3, <3>4
  <2> QED BY <2>3, <2>4
<1> QED BY <1>2, <1>3, <1>4, <1>5, <1>6 DEF Next

\* The rows are of their types, refer to what is there, have one successor and the times
\* they should, whatever requests and sweeps meet.
THEOREM LifecycleInvariant == Spec => []IInv
<1>1. IInv /\ [Next]_vars => IInv'
  BY NextInv
<1> QED BY <1>1, InitInv, PTL DEF Spec

\* RowsAgree: no batch and no sweep leaves a column that refers to a row that is gone, of
\* the rotations that found the same active key one replaces it, and the last rows of a
\* key or a customer go together.
THEOREM TablesAgree == Spec => []RowsAgree
<1>1. IInv => RowsAgree
  BY DEF IInv, RowsAgree
<1> QED BY <1>1, LifecycleInvariant, PTL

\* RevocationIsFinal: no rotation, change of limits or sweep brings a revoked key back.
THEOREM RevokedKeysAreRefused == Spec => []RevocationIsFinal
<1>1. IInv => RevocationIsFinal
  BY DEF IInv, RevocationIsFinal, RowOK, Authenticate, IsUsable
<1> QED BY <1>1, LifecycleInvariant, PTL

\* OverlapIsShort: a key with a successor is refused once the overlap is over.
THEOREM ReplacedKeysEnd == Spec => []OverlapIsShort
<1>1. IInv => OverlapIsShort
  <2> SUFFICES ASSUME IInv, NEW k \in Stored, NEW l \in Stored, keys[k].parent = l,
                      clock >= keys[k].issuedAt + Overlap, IsUsable(keys[l], clock)
               PROVE  FALSE
    BY DEF OverlapIsShort, Authenticate
  <2>1. /\ keys[k].issuedAt \in Nat /\ keys[l].expiresAt \in Nat /\ clock \in Nat
        /\ Overlap \in Nat
    BY DEF IInv, TypeOK, KeyRow
  <2>2. keys[l].status = "active" /\ keys[l].expiresAt > clock
    BY DEF IsUsable
  <2>3. keys[l].expiresAt <= keys[k].issuedAt + Overlap
    BY <2>2 DEF IInv, LineageOK, ExpiryAt
  <2> QED BY <2>1, <2>2, <2>3
<1> QED BY <1>1, LifecycleInvariant, PTL

\* NeverExtended: no step gives a key more time or brings it back.
THEOREM KeysOnlyEnd == Spec => NeverExtended
<1>1. IInv /\ [Next]_vars =>
        /\ \A k \in Stored \cap Stored' :
              /\ keys'[k].expiresAt <= keys[k].expiresAt
              /\ keys[k].status = "revoked" => keys'[k].status = "revoked"
        /\ (Stored' \ Stored) \cap used = {}
  BY NextInv DEF RowsAdvance, Advances
<1> QED BY <1>1, LifecycleInvariant, PTL DEF Spec, NeverExtended

\* VersionNamesLimits: a version of the limits of a key never stands for two pairs.
THEOREM VersionsNameLimits == Spec => VersionNamesLimits
<1>1. IInv /\ [Next]_vars =>
        \A k \in Stored \cap Stored' :
           /\ keys'[k].version >= keys[k].version
           /\ keys'[k].version = keys[k].version => keys'[k].limits = keys[k].limits
  <2> SUFFICES ASSUME IInv, [Next]_vars, NEW k \in Stored \cap Stored'
               PROVE  /\ keys'[k].version >= keys[k].version
                      /\ keys'[k].version = keys[k].version => keys'[k].limits = keys[k].limits
    OBVIOUS
  <2>1. /\ keys[k].version <= keys'[k].version
        /\ keys[k].version = keys'[k].version => keys[k].limits = keys'[k].limits
    BY NextInv DEF RowsAdvance, Advances
  <2> QED BY <2>1
<1> QED BY <1>1, LifecycleInvariant, PTL DEF Spec, VersionNamesLimits

\* KeptForAYear: the sweep leaves a row alone until its year is over.
THEOREM RowsAreKept == Spec => KeptForAYear
<1>1. IInv /\ [Next]_vars =>
        \A k \in Stored \ Stored' :
           IF keys[k].revokedAt # None THEN keys[k].revokedAt + Year <= clock
           ELSE keys[k].expiresAt + Year <= clock
  BY NextInv
<1> QED BY <1>1, LifecycleInvariant, PTL DEF Spec, KeptForAYear

\* A row that appears is that of a key issued for itself, or it succeeds an active key
\* with the limits that the request had found.
LEMMA NewRows ==
    ASSUME IInv, [Next]_vars, NEW k \in Stored' \ Stored
    PROVE  \/ keys'[k].parent = None
           \/ \E o \in Operator :
                 LET p == request[o].key IN
                 /\ request[o].kind = "rotate" /\ keys'[k].parent = p
                 /\ p \in Stored /\ keys[p].status = "active"
                 /\ keys'[k].limits = request[o].prior.limits
<1>1. ASSUME keys' = keys PROVE FALSE
  BY <1>1 DEF Stored
<1>2. ASSUME NEW o \in Operator, Issue(o) PROVE keys'[k].parent = None
  <2>1. PICK x \in PublicId \ used :
            IssueBatch(x, ActiveKey(request[o].customer, request[o].since,
                                    request[o].limits, None))
    BY <1>2 DEF Issue
  <2> QED BY <2>1 DEF IssueBatch, Insert, ActiveKey, Stored
<1>3. ASSUME NEW o \in Operator, Rotate(o)
      PROVE  /\ request[o].kind = "rotate" /\ keys'[k].parent = request[o].key
             /\ request[o].key \in Stored /\ keys[request[o].key].status = "active"
             /\ keys'[k].limits = request[o].prior.limits
  <2>1. request[o].kind = "rotate"
    BY <1>3 DEF Rotate
  <2>2. PICK x \in PublicId \ used, at \in request[o].since .. clock :
            RotateBatch(request[o].key, request[o].prior, x, at)
    BY <1>3 DEF Rotate
  <2>3. Replaceable(request[o].key, request[o].prior)
    BY <1>1, <2>2 DEF RotateBatch
  <2>4. PICK row : row = Successor(request[o].prior, request[o].key, at)
    OBVIOUS
  <2>5. k = x /\ keys'[k] = row
    BY <2>2, <2>3, <2>4 DEF RotateBatch, Insert, Stored, Replaceable
  <2>6. row.parent = request[o].key /\ row.limits = request[o].prior.limits
    BY <2>4 DEF Successor, ActiveKey
  <2> QED BY <2>1, <2>3, <2>5, <2>6 DEF Replaceable
<1>4. ASSUME NEW o \in Operator, Revoke(o) PROVE FALSE
  BY <1>4 DEF Revoke, RevokeBatch, Stored
<1>5. ASSUME NEW o \in Operator, ChangeLimits(o) PROVE FALSE
  BY <1>5 DEF ChangeLimits, LimitsBatch, Stored
<1>6. ASSUME NEW o \in Operator, BeginIssue(o) \/ Find(o) \/ Fail(o) PROVE FALSE
  BY <1>1, <1>6 DEF BeginIssue, Find, Fail
<1>7. ASSUME Sweep PROVE FALSE
  BY <1>7 DEF Sweep, SweepAt, Stored
<1>8. ASSUME Tick \/ UNCHANGED vars PROVE FALSE
  BY <1>1, <1>8 DEF Tick, vars
<1> QED BY <1>2, <1>3, <1>4, <1>5, <1>6, <1>7, <1>8 DEF Next

\* NoSuccessorOfRevoked: a rotation that overtakes a revocation has no effect.
THEOREM RevokedKeysEndTheirLine == Spec => NoSuccessorOfRevoked
<1>1. IInv /\ [Next]_vars => \A k \in Stored' \ Stored : keys'[k].parent \notin revoked
  <2> SUFFICES ASSUME IInv, [Next]_vars, NEW k \in Stored' \ Stored,
                      keys'[k].parent \in revoked
               PROVE  FALSE
    OBVIOUS
  <2>1. None \notin revoked
    BY LifecycleAssumption DEF IInv, TypeOK
  <2>2. ~(keys'[k].parent \in Stored /\ keys[keys'[k].parent].status = "active")
    BY DEF IInv, RowOK
  <2> QED BY <2>1, <2>2, NewRows
<1> QED BY <1>1, LifecycleInvariant, PTL DEF Spec, NoSuccessorOfRevoked

\* LimitsAreInherited: only a change that the rotation has not seen sets them apart.
THEOREM SuccessorsInheritLimits == Spec => LimitsAreInherited
<1>1. IInv /\ [Next]_vars =>
        \A k \in Stored' \ Stored : LET p == keys'[k].parent IN p # None =>
          \/ keys'[k].limits = keys[p].limits
          \/ \E o \in Operator : /\ request[o].kind = "rotate" /\ request[o].key = p
                                 /\ request[o].prior.version < keys[p].version
  <2> SUFFICES ASSUME IInv, [Next]_vars, NEW k \in Stored' \ Stored, NEW p,
                      p = keys'[k].parent, p # None, keys'[k].limits # keys[p].limits
               PROVE  \E o \in Operator : /\ request[o].kind = "rotate" /\ request[o].key = p
                                          /\ request[o].prior.version < keys[p].version
    OBVIOUS
  <2>1. PICK o \in Operator :
            /\ request[o].kind = "rotate" /\ request[o].key = p /\ p \in Stored
            /\ keys'[k].limits = request[o].prior.limits
    BY NewRows
  <2>2. request[o] \in Found
    BY <2>1 DEF IInv, TypeOK, Idle, Issuing
  <2>3. SincePrior(keys[p], request[o].prior)
    BY <2>1, <2>2 DEF IInv, RequestOK
  <2>4. request[o].prior.version \in Nat /\ keys[p].version \in Nat
    BY <2>1, <2>2 DEF IInv, TypeOK, Found, KeyRow
  <2> QED BY <2>1, <2>3, <2>4 DEF SincePrior
<1> QED BY <1>1, LifecycleInvariant, PTL DEF Spec, LimitsAreInherited

\* EventsAreTrue: an event is only written in the batch that does what it says, or that
\* finds it done at the same time.
THEOREM EventsTellTheTruth == Spec => EventsAreTrue
<1> DEFINE True(a) ==
        a.key # None =>
          CASE a.action \in {"key_issued", "key_rotated"} -> a.key \in Stored' \ Stored
            [] a.action = "key_limits_changed" -> keys'[a.key].version > keys[a.key].version
            [] a.action = "key_revoked" -> keys'[a.key].revokedAt = a.at
<1>1. ASSUME IInv, [Next]_vars, NEW a \in audits' \ audits PROVE True(a)
  <2>1. ASSUME audits' = audits PROVE FALSE
    BY <2>1
  <2>2. ASSUME NEW o \in Operator, Issue(o) PROVE True(a)
    <3>1. PICK x \in PublicId \ used :
              IssueBatch(x, ActiveKey(request[o].customer, request[o].since,
                                      request[o].limits, None))
      BY <2>2 DEF Issue
    <3>2. a.action = "key_issued" /\ a.key = x
      BY <3>1 DEF IssueBatch, AuditEvent
    <3>3. x \in Stored' \ Stored
      BY <1>1, <3>1 DEF IssueBatch, Insert, Stored, IInv, RowOK
    <3> QED BY <3>2, <3>3
  <2>3. ASSUME NEW o \in Operator, Rotate(o) PROVE True(a)
    <3>1. PICK x \in PublicId \ used, at \in request[o].since .. clock :
              RotateBatch(request[o].key, request[o].prior, x, at)
      BY <2>3 DEF Rotate
    <3>2. Replaceable(request[o].key, request[o].prior)
      BY <2>1, <3>1 DEF RotateBatch
    <3>3. a.action = "key_rotated" /\ a.key = x
      BY <3>1, <3>2 DEF RotateBatch, AuditEvent
    <3>4. x \in Stored' \ Stored
      BY <1>1, <3>1, <3>2 DEF RotateBatch, Insert, Stored, IInv, RowOK
    <3> QED BY <3>3, <3>4
  <2>4. ASSUME NEW o \in Operator, Revoke(o) PROVE True(a)
    <3>1. PICK at : RevokeBatch(request[o].key, request[o].prior, at)
      BY <2>4 DEF Revoke
    <3>2. /\ a.action = "key_revoked" /\ a.key = request[o].key /\ a.at = at
          /\ keys'[request[o].key].revokedAt = at
      BY <2>1, <3>1 DEF RevokeBatch, AuditEvent
    <3> QED BY <3>2
  <2>5. ASSUME NEW o \in Operator, ChangeLimits(o) PROVE True(a)
    <3>1. PICK at : LimitsBatch(request[o].key, request[o].prior, request[o].limits, at)
      BY <2>5 DEF ChangeLimits
    <3>2. IsActive(request[o].key)
      BY <2>1, <3>1 DEF LimitsBatch
    <3>3. a.action = "key_limits_changed" /\ a.key = request[o].key
      BY <2>1, <3>1, <3>2 DEF LimitsBatch, AuditEvent
    <3>4. keys[a.key].version \in Nat /\ a.key \in DOMAIN keys
      BY <1>1, <3>2, <3>3 DEF IsActive, IInv, TypeOK, KeyRow, Stored
    <3>5. PICK row : row = LimitedRow(keys[a.key], request[o].prior, request[o].limits)
      OBVIOUS
    <3>6. row.version = keys[a.key].version + 1
      <4>1. keys[a.key] \in KeyRow
        BY <1>1, <3>4 DEF IInv, TypeOK, Stored
      <4> QED BY <3>5, <4>1 DEF LimitedRow, KeyRow
    <3>7. keys'[a.key] = row
      BY <3>1, <3>2, <3>3, <3>4, <3>5 DEF LimitsBatch
    <3> QED BY <3>3, <3>4, <3>6, <3>7
  <2>6. ASSUME NEW o \in Operator, BeginIssue(o) \/ Find(o) \/ Fail(o) PROVE FALSE
    BY <2>1, <2>6 DEF BeginIssue, Find, Fail
  <2>7. ASSUME Sweep PROVE True(a)
    <3>1. PICK due : SweepAt(due)
      BY <2>7 DEF Sweep
    <3>2. PICK b \in audits : a = Forget(b, Dead(due))
      BY <3>1 DEF SweepAt
    <3>3. b \in AuditRow
      BY <1>1, <3>2 DEF IInv, TypeOK
    <3>4. CASE b.key \in Dead(due)
      BY <3>2, <3>3, <3>4 DEF Forget, AuditRow
    <3>5. CASE b.key \notin Dead(due)
      <4>1. a = b
        BY <3>2, <3>3, <3>5 DEF Forget, AuditRow
      <4> QED BY <4>1
    <3> QED BY <3>4, <3>5
  <2>8. ASSUME Tick \/ UNCHANGED vars PROVE FALSE
    BY <2>1, <2>8 DEF Tick, vars
  <2> QED BY <1>1, <2>2, <2>3, <2>4, <2>5, <2>6, <2>7, <2>8 DEF Next
<1>2. IInv /\ [Next]_vars => \A a \in audits' \ audits : True(a)
  BY <1>1
<1> QED BY <1>2, LifecycleInvariant, PTL DEF Spec, EventsAreTrue
=============================================================================
