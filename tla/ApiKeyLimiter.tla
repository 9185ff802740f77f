--------------------------- MODULE ApiKeyLimiter ---------------------------
(***************************************************************************)
(* The Durable Object of src/admission/api-key-limiter.ts that counts the  *)
(* requests of one API key, together with the row of the key in D1, whose  *)
(* limits an operator may change (src/admin/key-store.ts).                 *)
(*                                                                         *)
(* An admission awaits the limits from D1 and then decides in              *)
(* transactionSync, so it is three steps: it arrives, it reads, it         *)
(* decides, and others run in between.  Everything after the read is done  *)
(* without an await: the decision, the row of the cleanup schedule and the *)
(* alarm are written together or not at all.                               *)
(*                                                                         *)
(* A request carries the time its worker read: at most Ahead in front of   *)
(* the true time and, with the delay until the decision, at most Behind    *)
(* it.  Requests are therefore not decided in the order of their times.    *)
(***************************************************************************)
EXTENDS RollingWindow

CONSTANTS
    Caller,        \* the admissions that may be in flight at the same time
    LimitChoices,  \* the limits an operator may set
    MaximumLimits, \* MAXIMUM_API_KEY_LIMITS
    Retention,     \* BUCKET_RETENTION_MILLISECONDS
    Ahead,         \* how far a worker's clock may run in front
    Behind,        \* how far it may run behind, with the delay of an admission
    AlarmDelay,    \* how late an alarm may be delivered
    MaxVersion,    \* bound: the number of times the limits are changed
    MaxClock,      \* bound: the clock stops here
    Null

\* Two days hold a day and the spread of the clocks.
ASSUME LimiterAssumption ==
    /\ Ahead \in Nat /\ Behind \in Nat /\ AlarmDelay \in Nat
    /\ MaxVersion \in Nat /\ MaxClock \in Nat
    /\ Retention \in Nat /\ Day + Ahead + Behind <= Retention
    /\ MaximumLimits \in Limits
    /\ LimitChoices \subseteq
          {l \in Limits : l.minute <= MaximumLimits.minute /\ l.day <= MaximumLimits.day}
    /\ Null \notin Int \cup [limits : Limits, version : Nat]

VARIABLES
    record,    \* the limits and their version in D1
    config,    \* the limits the object applied last
    usage,     \* the admissions the object has stored
    cleanupAt, \* the cleanup schedule, which is also when the alarm is set
    call,      \* the admissions in flight
    clock,     \* true time
    granted    \* history: every admission so far

vars == <<record, config, usage, cleanupAt, call, clock, granted>>

LimitConfig == [limits : LimitChoices, version : Nat]
Idle == [at |-> "idle"]
CallState ==
    [at : {"idle"}]
    \cup [at : {"arrived"}, admittedAt : Int, since : Nat]
    \cup [at : {"read"}, admittedAt : Int, since : Nat, canonical : LimitConfig]

Init ==
    /\ record \in [limits : LimitChoices, version : {0}]
    /\ config = Null
    /\ usage = {}
    /\ cleanupAt = Null
    /\ call = [c \in Caller |-> Idle]
    /\ clock = 0
    /\ granted = {}

Becomes(c, k) == call' = [call EXCEPT ![c] = k]

\* The version that is current when the request arrives is remembered as "since".
Arrive(c) ==
    /\ call[c].at = "idle"
    /\ \E now \in (clock - Behind) .. (clock + Ahead) :
          Becomes(c, [at |-> "arrived", admittedAt |-> now, since |-> record.version])
    /\ UNCHANGED <<record, config, usage, cleanupAt, clock, granted>>

ReadCanonicalLimits(c) ==
    /\ call[c].at = "arrived"
    /\ Becomes(c, [at |-> "read", admittedAt |-> call[c].admittedAt, since |-> call[c].since,
                   canonical |-> record])
    /\ UNCHANGED <<record, config, usage, cleanupAt, clock, granted>>

\* Variant: whatever was read last is applied.
SelectLimitsUnversioned(canonical) == canonical

\* A version is applied until a later one is read.
SelectLimits(canonical) ==
    IF config = Null \/ canonical.version > config.version THEN canonical ELSE config

\* ApiKeyLimitConfigurationError: one version with two meanings.
Conflicting(canonical) ==
    /\ config # Null
    /\ canonical.version = config.version
    /\ canonical.limits # config.limits

\* Variant: an admission is forgotten as soon as its day is over.
UnexpiredForADay(cutoff) == {r \in usage : r.at > cutoff - Day}

Unexpired(cutoff) == {r \in usage : r.at > cutoff - Retention}

\* Variant: the next cleanup is set for the youngest row.
NextCleanupOfYoungest(rows) ==
    IF rows = {} THEN Null
    ELSE (CHOOSE t \in {r.at : r \in rows} : \A r \in rows : t >= r.at) + Retention

NextCleanup(rows) ==
    IF rows = {} THEN Null
    ELSE (CHOOSE t \in {r.at : r \in rows} : \A r \in rows : t <= r.at) + Retention

\* The row inserted, told apart from those with the same time.
NewAdmission(now) == [row |-> Cardinality({a \in granted : a.at = now}), at |-> now]

\* The transaction and, after an admission, scheduleUsageExpiry.  An error rolls
\* the transaction back.
Decide(c) ==
    LET now == call[c].admittedAt
        canonical == call[c].canonical
        applied == SelectLimits(canonical)
        kept == Unexpired(now)
        admission == NewAdmission(now)
        allowed == Admits(kept, now, applied.limits)
    IN /\ call[c].at = "read"
       /\ Becomes(c, Idle)
       /\ IF Conflicting(canonical)
          THEN UNCHANGED <<config, usage, cleanupAt, granted>>
          ELSE /\ config' = applied
               /\ usage' = IF allowed THEN kept \cup {admission} ELSE kept
               /\ granted' = IF allowed THEN granted \cup {admission} ELSE granted
               /\ cleanupAt' = IF allowed THEN NextCleanup(kept \cup {admission}) ELSE cleanupAt
       /\ UNCHANGED <<record, clock>>

\* A read that fails, a lost object or an evicted worker ends an admission.
Fail(c) ==
    /\ call[c].at # "idle"
    /\ Becomes(c, Idle)
    /\ UNCHANGED <<record, config, usage, cleanupAt, clock, granted>>

\* The alarm may be late, and the object's clock is no better than a worker's.
Alarm ==
    /\ cleanupAt # Null
    /\ clock >= cleanupAt
    /\ \E now \in (clock - Behind) .. (clock + Ahead) :
          LET kept == Unexpired(Later(now, cleanupAt)) IN
          /\ usage' = kept
          /\ cleanupAt' = NextCleanup(kept)
    /\ UNCHANGED <<record, config, call, clock, granted>>

\* Variant: the version is not raised with the limits.
ChangeLimitsInPlace(limits) ==
    /\ record.version < MaxVersion
    /\ record' = [limits |-> limits, version |-> record.version]
    /\ UNCHANGED <<config, usage, cleanupAt, call, clock, granted>>

ChangeLimits(limits) ==
    /\ record.version < MaxVersion
    /\ record' = [limits |-> limits, version |-> record.version + 1]
    /\ UNCHANGED <<config, usage, cleanupAt, call, clock, granted>>

\* An admission is decided, and an alarm delivered, before it is too late.
PassTime ==
    /\ clock < MaxClock
    /\ \A c \in Caller : call[c].at # "idle" => clock + 1 - Behind <= call[c].admittedAt
    /\ cleanupAt # Null => clock + 1 <= cleanupAt + AlarmDelay
    /\ clock' = clock + 1
    /\ UNCHANGED <<record, config, usage, cleanupAt, call, granted>>

Next ==
    \/ PassTime
    \/ Alarm
    \/ \E limits \in LimitChoices : ChangeLimits(limits)
    \/ \E c \in Caller :
          \/ Arrive(c)
          \/ ReadCanonicalLimits(c)
          \/ Decide(c)
          \/ Fail(c)

Spec == Init /\ [][Next]_vars

-----------------------------------------------------------------------------
(* Properties                                                              *)

TypeOK ==
    /\ record \in LimitConfig
    /\ config \in LimitConfig \cup {Null}
    /\ granted \in SUBSET Admission /\ IsFiniteSet(granted)
    /\ usage \subseteq granted
    /\ cleanupAt \in Int \cup {Null}
    /\ call \in [Caller -> CallState]
    /\ clock \in Nat

WindowEnding(rows, at, length) == {a \in rows : at - length < a.at /\ a.at <= at}

\* No period of a minute or of a day, wherever it starts, holds more admissions
\* than the maximum allowance: late requests, unequal clocks, forgotten rows and
\* changes of the limits cannot squeeze in another one.
WithinMaximum ==
    \A r \in granted :
        /\ Cardinality(WindowEnding(granted, r.at, Minute)) <= MaximumLimits.minute
        /\ Cardinality(WindowEnding(granted, r.at, Day)) <= MaximumLimits.day

\* A request is admitted only within limits at least as recent as those in D1
\* when it arrived and those any request was admitted by before, although the
\* limits it brings may have been changed, and applied, since it read them.
FreshLimits ==
    [][\A c \in Caller : \A r \in granted' \ granted :
          call[c].at = "read" /\ call'[c].at = "idle" =>
              /\ config'.version >= call[c].since
              /\ config # Null => config'.version >= config.version
              /\ Cardinality({a \in granted' : a.at > r.at - Minute}) <= config'.limits.minute
              /\ Cardinality({a \in granted' : a.at > r.at - Day}) <= config'.limits.day]_vars

\* A version of the limits means the same wherever it is kept, so no admission
\* ever ends with ApiKeyLimitConfigurationError.
OneMeaningPerVersion ==
    \A c \in Caller : call[c].at = "read" => ~Conflicting(call[c].canonical)

\* An object that stores admissions has an alarm set that will find the oldest
\* one due, so the rows of a key that is never used again are deleted too.
UsageExpires ==
    \A r \in usage :
        /\ cleanupAt # Null /\ cleanupAt <= r.at + Retention
        /\ clock <= r.at + Retention + AlarmDelay

\* A refused request that comes back after Retry-After finds room, if no other
\* request came first, and one that comes a second sooner does not.
RetryAfterHonest ==
    config # Null =>
        \A now \in (clock - Behind) .. (clock + Ahead) :
            LET limits == config.limits
                delay == RetryAfterSeconds(usage, now, limits)
            IN ~Admits(usage, now, limits) =>
                  /\ Admits(usage, now + delay * Second, limits)
                  /\ ~Admits(usage, now + (delay - 1) * Second, limits)

-----------------------------------------------------------------------------
(* The inductive invariant                                                 *)

InFlight == {c \in Caller : call[c].at # "idle"}

\* An admission in flight carries a time close to the true one.
Punctual ==
    \A c \in InFlight :
        clock - Behind <= call[c].admittedAt /\ call[c].admittedAt <= clock + Ahead

\* Admissions with the same time are numbered, so that a new row is new.
Numbered ==
    \A a \in granted :
        /\ 0 - Behind <= a.at
        /\ a.row < Cardinality({b \in granted : b.at = a.at})

\* What the object has forgotten is more than a day older than any admission
\* still to be decided.
Forgotten == \A a \in granted \ usage : a.at <= clock - Behind - Day

\* The limits in D1, those applied, and those on their way to a decision.
InUse ==
    {record} \cup ({config} \ {Null})
    \cup {call[c].canonical : c \in {d \in Caller : call[d].at = "read"}}

\* D1 holds the latest version, and no two sets of limits share one.
VersionsAgree ==
    /\ \A x \in InUse : x.version <= record.version
    /\ \A x, y \in InUse : x.version = y.version => x = y

\* A request in flight has seen no version but those read since it arrived.
Arrivals ==
    \A c \in InFlight :
        /\ call[c].since <= record.version
        /\ call[c].at = "read" => call[c].since <= call[c].canonical.version

IInv ==
    /\ TypeOK
    /\ Punctual
    /\ Numbered
    /\ Forgotten
    /\ VersionsAgree
    /\ Arrivals
    /\ UsageExpires
    /\ WithinMaximum
=============================================================================
