------------------------ MODULE ApiKeyLimiterProofs ------------------------
(***************************************************************************)
(* The limiter's invariants for every number of admissions in flight, all  *)
(* limits, every window length and every spread of the clocks that the     *)
(* retention allows for.                                                   *)
(***************************************************************************)
EXTENDS ApiKeyLimiter, FiniteSetTheorems, WellFoundedInduction, TLAPS

-----------------------------------------------------------------------------
(* The oldest row                                                          *)

\* A set of times that start somewhere has a least member.
LEMMA LeastTime ==
    ASSUME NEW floor \in Int, NEW times \in SUBSET Int, times # {},
           \A t \in times : floor <= t
    PROVE  \E t \in times : \A u \in times : t <= u
<1> DEFINE ages == {t - floor : t \in times}
<1>1. ages \subseteq Nat /\ ages # {}
  <2>1. \A t \in times : t - floor \in Nat
      OBVIOUS
  <2> QED BY <2>1
<1>2. PICK n \in ages : \A m \in ages : ~(<<m, n>> \in OpToRel(<, Nat))
    BY <1>1, WFMin, NatLessThanWellFounded
<1>3. \A m \in ages : ~(m < n)
    BY <1>1, <1>2 DEF OpToRel
<1>4. PICK t \in times : n = t - floor
    BY <1>2
<1>5. \A u \in times : t <= u
  <2>1. SUFFICES ASSUME NEW u \in times PROVE t <= u
      OBVIOUS
  <2>2. ~(u - floor < n)
      BY <1>3, <2>1
  <2> QED BY <2>2, <1>4
<1> QED BY <1>5

\* scheduleUsageExpiry chooses a time at which the oldest row, and so no row
\* before it, is due.
LEMMA CleanupFindsOldest ==
    ASSUME NEW rows, \A r \in rows : r.at \in Int /\ 0 - Behind <= r.at
    PROVE  /\ NextCleanup(rows) \in Int \cup {Null}
           /\ rows # {} => /\ NextCleanup(rows) # Null
                           /\ \A r \in rows : NextCleanup(rows) <= r.at + Retention
<1> USE LimiterAssumption
<1>1. CASE rows = {}
    BY <1>1 DEF NextCleanup
<1>2. CASE rows # {}
  <2> DEFINE times == {r.at : r \in rows}
             oldest == CHOOSE t \in times : \A r \in rows : t <= r.at
  <2>1. \E t \in times : \A u \in times : t <= u
    <3>1. times \in SUBSET Int /\ times # {} /\ \A t \in times : 0 - Behind <= t
        BY <1>2
    <3>2. 0 - Behind \in Int
        OBVIOUS
    <3> HIDE DEF times
    <3> QED BY <3>1, <3>2, LeastTime
  <2>2. \E t \in times : \A r \in rows : t <= r.at
      BY <2>1
  <2>3. oldest \in times /\ \A r \in rows : oldest <= r.at
      BY <2>2
  <2>4. NextCleanup(rows) = oldest + Retention
      BY <1>2 DEF NextCleanup
  <2>5. oldest \in Int
      BY <2>3
  <2> HIDE DEF oldest, times
  <2> QED BY <2>3, <2>4, <2>5
<1> QED BY <1>1, <1>2

-----------------------------------------------------------------------------
(* Windows                                                                 *)

\* One admission more raises the count of a window by one at most.
LEMMA OneMore ==
    ASSUME NEW S, IsFiniteSet(S), NEW T, NEW n, T \subseteq S \cup {n}
    PROVE  /\ IsFiniteSet(T)
           /\ Cardinality(T) <= Cardinality(S) + 1
<1>1. IsFiniteSet(S \cup {n}) /\ Cardinality(S \cup {n}) <= Cardinality(S) + 1
  <2>1. /\ IsFiniteSet(S \cup {n})
        /\ Cardinality(S \cup {n}) = IF n \in S THEN Cardinality(S) ELSE Cardinality(S) + 1
      BY FS_AddElement
  <2>2. Cardinality(S) \in Nat
      BY FS_CardinalityType
  <2> QED BY <2>1, <2>2
<1>2. IsFiniteSet(T) /\ Cardinality(T) <= Cardinality(S \cup {n})
    BY <1>1, FS_Subset
<1> QED BY <1>1, <1>2, FS_CardinalityType

\* An admission counts in the windows that hold its time; those windows held
\* fewer than the limit, because the object remembers everything in them.
LEMMA WindowAfterAdmission ==
    ASSUME NEW rows, IsFiniteSet(rows), \A r \in rows : r.at \in Int,
           NEW kept \in SUBSET rows,
           NEW length \in Int, NEW bound \in Nat,
           NEW n, n.at \in Int,
           \A r \in rows : r.at > n.at - length => r \in kept,
           Cardinality({r \in kept : r.at > n.at - length}) < bound,
           \A r \in rows :
               Cardinality(WindowEnding(rows, r.at, length)) <= bound,
           NEW r \in rows \cup {n}
    PROVE  Cardinality(WindowEnding(rows \cup {n}, r.at, length)) <= bound
<1> DEFINE Window(S) == WindowEnding(S, r.at, length)
           seen == {a \in kept : a.at > n.at - length}
<1> USE DEF WindowEnding
<1>1. CASE r.at - length < n.at /\ n.at <= r.at
  <2>1. Window(rows \cup {n}) \subseteq seen \cup {n}
    <3> SUFFICES ASSUME NEW a \in rows, r.at - length < a.at, a.at <= r.at
                 PROVE  a \in seen
        OBVIOUS
    <3>1. a.at > n.at - length
        BY <1>1
    <3> QED BY <3>1
  <2>2. IsFiniteSet(seen)
      BY FS_Subset
  <2> HIDE DEF Window, seen
  <2>3. Cardinality(Window(rows \cup {n})) <= Cardinality(seen) + 1
      BY <2>1, <2>2, OneMore
  <2>4. Cardinality(seen) \in Nat /\ Cardinality(seen) < bound
      BY <2>2, FS_CardinalityType DEF seen
  <2>5. IsFiniteSet(Window(rows \cup {n}))
      BY <2>1, <2>2, OneMore
  <2>6. Cardinality(Window(rows \cup {n})) \in Nat
      BY <2>5, FS_CardinalityType
  <2>7. Cardinality(Window(rows \cup {n})) <= bound
      BY <2>3, <2>4, <2>6
  <2> QED BY <2>7 DEF Window
<1>2. CASE ~(r.at - length < n.at /\ n.at <= r.at)
  <2>1. Window(rows \cup {n}) = Window(rows)
      BY <1>2
  <2>2. CASE r \in rows
      BY <2>1, <2>2
  <2>3. CASE r = n
    <3>1. length <= 0
        BY <1>2, <2>3
    <3>2. Window(rows \cup {n}) = {}
      <4> SUFFICES ASSUME NEW a \in rows \cup {n}, r.at - length < a.at, a.at <= r.at
                   PROVE  FALSE
          OBVIOUS
      <4>1. a.at \in Int
          OBVIOUS
      <4> QED BY <2>3, <3>1, <4>1
    <3> QED BY <3>2, FS_EmptySet
  <2> QED BY <2>2, <2>3
<1> QED BY <1>1, <1>2

-----------------------------------------------------------------------------
(* The invariant holds initially and along every action                    *)

USE DEF InFlight

LEMMA InitInvariant == Init => IInv
<1> SUFFICES ASSUME Init PROVE IInv
    OBVIOUS
<1> USE LimiterAssumption DEF Init
<1>1. TypeOK
    BY FS_EmptySet DEF TypeOK, LimitConfig, Idle, CallState, Admission
<1>2. Punctual /\ Arrivals
    BY DEF Punctual, Arrivals, Idle
<1>3. Numbered /\ Forgotten /\ UsageExpires /\ WithinMaximum
    BY DEF Numbered, Forgotten, UsageExpires, WithinMaximum
<1>4. VersionsAgree
  <2>1. InUse = {record}
      BY DEF InUse, Idle
  <2>2. record.version <= record.version
      BY <1>1 DEF TypeOK, LimitConfig
  <2> QED BY <2>1, <2>2 DEF VersionsAgree
<1> QED BY <1>1, <1>2, <1>3, <1>4 DEF IInv

\* What concerns the rows alone stays as they are.
LEMMA RowsUnchanged ==
    ASSUME IInv, UNCHANGED <<usage, cleanupAt, clock, granted>>
    PROVE  Numbered' /\ Forgotten' /\ UsageExpires' /\ WithinMaximum'
BY DEF IInv, Numbered, Forgotten, UsageExpires, WithinMaximum

LEMMA ArriveInvariant ==
    ASSUME IInv, NEW c \in Caller, Arrive(c)
    PROVE  IInv'
<1> USE LimiterAssumption
<1>1. PICK now \in (clock - Behind) .. (clock + Ahead) :
          call' = [call EXCEPT ![c] = [at |-> "arrived", admittedAt |-> now,
                                       since |-> record.version]]
    BY DEF Arrive, Becomes
<1>2. UNCHANGED <<record, config, usage, cleanupAt, clock, granted>>
    BY DEF Arrive
<1>3. TypeOK'
    BY <1>1, <1>2 DEF IInv, TypeOK, CallState, LimitConfig
<1>4. Punctual'
  <2>1. \A d \in Caller : d # c => call'[d] = call[d]
      BY <1>1 DEF IInv, TypeOK
  <2>2. call'[c].admittedAt = now
      BY <1>1 DEF IInv, TypeOK
  <2> QED BY <1>2, <2>1, <2>2 DEF IInv, TypeOK, Punctual
<1>5. VersionsAgree'
  <2>1. InUse' \subseteq InUse
      BY <1>1, <1>2 DEF IInv, TypeOK, InUse
  <2> QED BY <1>2, <2>1 DEF IInv, VersionsAgree
<1>6. Arrivals'
  <2>1. \A d \in Caller : d # c => call'[d] = call[d]
      BY <1>1 DEF IInv, TypeOK
  <2>2. call'[c].since = record.version /\ call'[c].at = "arrived"
      BY <1>1 DEF IInv, TypeOK
  <2>3. record.version <= record.version
      BY DEF IInv, TypeOK, LimitConfig
  <2> QED BY <1>2, <2>1, <2>2, <2>3 DEF IInv, Arrivals
<1> QED BY <1>2, <1>3, <1>4, <1>5, <1>6, RowsUnchanged DEF IInv

LEMMA ReadInvariant ==
    ASSUME IInv, NEW c \in Caller, ReadCanonicalLimits(c)
    PROVE  IInv'
<1> DEFINE k == [at |-> "read", admittedAt |-> call[c].admittedAt,
                 since |-> call[c].since, canonical |-> record]
<1>1. call' = [call EXCEPT ![c] = k] /\ call[c].at = "arrived"
    BY DEF ReadCanonicalLimits, Becomes
<1>2. UNCHANGED <<record, config, usage, cleanupAt, clock, granted>>
    BY DEF ReadCanonicalLimits
<1>3. /\ call[c].admittedAt \in Int /\ call[c].since \in Nat /\ record \in LimitConfig
      /\ call \in [Caller -> CallState]
    BY <1>1 DEF IInv, TypeOK, CallState
<1>4. /\ \A d \in Caller : d # c => call'[d] = call[d]
      /\ call'[c] = k
    BY <1>1, <1>3
<1>5. TypeOK'
  <2>1. k \in CallState
      BY <1>3 DEF CallState
  <2> QED BY <1>1, <1>2, <2>1 DEF IInv, TypeOK
<1>6. Punctual'
    BY <1>1, <1>2, <1>4 DEF IInv, Punctual
<1>7. VersionsAgree'
  <2>1. InUse' \subseteq InUse
      BY <1>2, <1>4 DEF InUse
  <2> QED BY <1>2, <2>1 DEF IInv, VersionsAgree
<1>8. Arrivals'
    BY <1>1, <1>2, <1>4 DEF IInv, Arrivals
<1> QED BY <1>2, <1>5, <1>6, <1>7, <1>8, RowsUnchanged DEF IInv

\* An admission that ends without a decision takes its copies with it.
LEMMA FailInvariant ==
    ASSUME IInv, NEW c \in Caller,
           call' = [call EXCEPT ![c] = Idle],
           UNCHANGED <<record, config, usage, cleanupAt, clock, granted>>
    PROVE  IInv'
<1>1. /\ \A d \in Caller : d # c => call'[d] = call[d]
      /\ call'[c] = Idle
    BY DEF IInv, TypeOK
<1>2. TypeOK'
    BY DEF IInv, TypeOK, CallState, Idle
<1>3. Punctual' /\ Arrivals'
    BY <1>1 DEF IInv, Punctual, Arrivals, Idle
<1>4. VersionsAgree'
  <2>1. InUse' \subseteq InUse
      BY <1>1 DEF InUse, Idle
  <2> QED BY <2>1 DEF IInv, VersionsAgree
<1> QED BY <1>2, <1>3, <1>4, RowsUnchanged DEF IInv

LEMMA ChangeLimitsInvariant ==
    ASSUME IInv, NEW limits \in LimitChoices, ChangeLimits(limits)
    PROVE  IInv'
<1>1. record' = [limits |-> limits, version |-> record.version + 1]
    BY DEF ChangeLimits
<1>2. UNCHANGED <<config, usage, cleanupAt, call, clock, granted>>
    BY DEF ChangeLimits
<1>3. TypeOK'
    BY <1>1, <1>2 DEF IInv, TypeOK, LimitConfig
<1>4. Punctual'
    BY <1>2 DEF IInv, Punctual
<1>5. record \in LimitConfig /\ record.version \in Nat
    BY DEF IInv, TypeOK, LimitConfig
<1>6. InUse \subseteq LimitConfig
    BY DEF IInv, TypeOK, InUse, CallState
<1>7. VersionsAgree'
  <2>1. InUse' \subseteq InUse \cup {record'}
      BY <1>2 DEF InUse
  <2>2. \A x \in InUse : x.version \in Nat /\ x.version < record'.version
      BY <1>1, <1>5, <1>6 DEF IInv, VersionsAgree, LimitConfig
  <2>3. record'.version \in Nat
      BY <1>1, <1>5
  <2> QED BY <2>1, <2>2, <2>3 DEF IInv, VersionsAgree
<1>8. Arrivals'
  <2>1. \A d \in InFlight : call[d].since \in Nat
      BY DEF IInv, TypeOK, CallState
  <2> QED BY <1>1, <1>2, <1>5, <2>1 DEF IInv, Arrivals
<1> QED BY <1>2, <1>3, <1>4, <1>7, <1>8, RowsUnchanged DEF IInv

LEMMA PassTimeInvariant == IInv /\ PassTime => IInv'
<1> SUFFICES ASSUME IInv, PassTime PROVE IInv'
    OBVIOUS
<1> USE LimiterAssumption, WindowAssumption
<1>1. clock' = clock + 1 /\ UNCHANGED <<record, config, usage, cleanupAt, call, granted>>
    BY DEF PassTime
<1>2. TypeOK'
    BY <1>1 DEF IInv, TypeOK
<1>7. Numbered' /\ WithinMaximum'
    BY <1>1 DEF IInv, Numbered, WithinMaximum
<1>8. Arrivals'
    BY <1>1 DEF IInv, Arrivals
<1>3. Punctual'
  <2>1. \A d \in InFlight : call[d].admittedAt \in Int
      BY DEF IInv, TypeOK, CallState
  <2> QED BY <1>1, <2>1 DEF IInv, TypeOK, Punctual, PassTime
<1>4. Forgotten'
    BY <1>1 DEF IInv, TypeOK, Forgotten, Admission
<1>5. VersionsAgree'
    BY <1>1 DEF IInv, VersionsAgree, InUse
<1>6. UsageExpires'
  <2> SUFFICES ASSUME NEW r \in usage
               PROVE  /\ cleanupAt # Null /\ cleanupAt <= r.at + Retention
                      /\ clock + 1 <= r.at + Retention + AlarmDelay
      BY <1>1 DEF UsageExpires
  <2>1. cleanupAt # Null /\ cleanupAt <= r.at + Retention
      BY DEF IInv, UsageExpires
  <2>2. clock + 1 <= cleanupAt + AlarmDelay
      BY <2>1 DEF PassTime
  <2>3. cleanupAt \in Int /\ r.at \in Int /\ clock \in Nat
      BY <2>1 DEF IInv, TypeOK, Admission
  <2> QED BY <2>1, <2>2, <2>3
<1> QED BY <1>2, <1>3, <1>4, <1>5, <1>6, <1>7, <1>8 DEF IInv

\* Rows are forgotten at a cutoff that no clock is ahead of: they are older than
\* any admission in flight may still ask for.
LEMMA ForgottenAtCutoff ==
    ASSUME IInv, NEW cutoff \in Int, cutoff <= clock + Ahead
    PROVE  \A a \in granted \ Unexpired(cutoff) : a.at <= clock - Behind - Day
<1> USE LimiterAssumption, WindowAssumption
<1>1. SUFFICES ASSUME NEW a \in granted, a \notin Unexpired(cutoff)
               PROVE  a.at <= clock - Behind - Day
    OBVIOUS
<1>2. a.at \in Int /\ clock \in Nat
    BY DEF IInv, TypeOK, Admission
<1>3. CASE a \notin usage
    BY <1>1, <1>3 DEF IInv, Forgotten
<1>4. CASE a \in usage
    BY <1>1, <1>2, <1>4 DEF Unexpired
<1> QED BY <1>3, <1>4

LEMMA AlarmInvariant == IInv /\ Alarm => IInv'
<1> SUFFICES ASSUME IInv, Alarm PROVE IInv'
    OBVIOUS
<1> USE LimiterAssumption
<1>1. PICK now \in (clock - Behind) .. (clock + Ahead) :
          /\ usage' = Unexpired(Later(now, cleanupAt))
          /\ cleanupAt' = NextCleanup(Unexpired(Later(now, cleanupAt)))
    BY DEF Alarm
<1>2. UNCHANGED <<record, config, call, clock, granted>>
    BY DEF Alarm
<1>3. /\ clock \in Nat /\ cleanupAt \in Int /\ cleanupAt <= clock
      /\ usage \subseteq granted /\ granted \subseteq Admission
    BY DEF Alarm, IInv, TypeOK
<1>4. usage' \subseteq usage
    BY <1>1 DEF Unexpired
<1>5. \A r \in usage' : r.at \in Int /\ 0 - Behind <= r.at
    BY <1>3, <1>4 DEF IInv, Numbered, Admission
<1>6. /\ cleanupAt' \in Int \cup {Null}
      /\ \A r \in usage' : cleanupAt' # Null /\ cleanupAt' <= r.at + Retention
  <2>1. cleanupAt' = NextCleanup(usage')
      BY <1>1
  <2> QED BY <1>5, <2>1, CleanupFindsOldest
<1>7. TypeOK'
    BY <1>2, <1>4, <1>6 DEF IInv, TypeOK
<1>8. Punctual' /\ Arrivals'
    BY <1>2 DEF IInv, Punctual, Arrivals
<1>9. VersionsAgree'
    BY <1>2 DEF IInv, VersionsAgree, InUse
<1>10. Numbered' /\ WithinMaximum'
    BY <1>2 DEF IInv, Numbered, WithinMaximum
<1>11. Forgotten'
  <2>1. Later(now, cleanupAt) \in Int /\ Later(now, cleanupAt) <= clock + Ahead
      BY <1>3 DEF Later
  <2> QED BY <1>1, <1>2, <2>1, ForgottenAtCutoff DEF Forgotten
<1>12. UsageExpires'
    BY <1>2, <1>4, <1>6 DEF IInv, UsageExpires
<1> QED BY <1>7, <1>8, <1>9, <1>10, <1>11, <1>12 DEF IInv

\* A decision is made by limits that D1 holds or held.
LEMMA AppliedLimits ==
    ASSUME IInv, NEW c \in Caller, call[c].at = "read"
    PROVE  /\ SelectLimits(call[c].canonical) \in InUse
           /\ SelectLimits(call[c].canonical) \in LimitConfig
<1>1. call[c].canonical \in InUse
    BY DEF InUse
<1>2. call[c].canonical \in LimitConfig
    BY DEF IInv, TypeOK, CallState
<1>3. config # Null => config \in InUse /\ config \in LimitConfig
    BY DEF IInv, TypeOK, InUse
<1> QED BY <1>1, <1>2, <1>3 DEF SelectLimits

\* The object remembers every admission of the minute and of the day before a
\* request it decides, and they leave room when it is admitted.
LEMMA WindowsRemembered ==
    ASSUME IInv, NEW limits \in LimitChoices, NEW now \in Int,
           clock - Behind <= now, now <= clock + Ahead,
           Admits(Unexpired(now), now, limits)
    PROVE  /\ \A r \in granted : r.at > now - Day => r \in Unexpired(now)
           /\ Cardinality({r \in Unexpired(now) : r.at > now - Minute}) < limits.minute
           /\ Cardinality({r \in Unexpired(now) : r.at > now - Day}) < limits.day
<1> USE LimiterAssumption, WindowAssumption
<1> DEFINE kept == Unexpired(now)
<1>1. /\ IsFiniteSet(granted) /\ granted \subseteq Admission
      /\ usage \subseteq granted /\ clock \in Nat
    BY DEF IInv, TypeOK
<1>2. \A r \in granted : r.at > now - Day => r \in kept
  <2> SUFFICES ASSUME NEW r \in granted, r.at > now - Day PROVE r \in kept
      OBVIOUS
  <2>1. r.at \in Int
      BY <1>1 DEF Admission
  <2>2. r \in usage
      BY <1>1, <2>1 DEF IInv, Forgotten
  <2> QED BY <2>1, <2>2 DEF Unexpired
<1>3. limits.minute \in Nat /\ limits.day \in Nat
    BY DEF Limits
<1>4. kept \in SUBSET granted /\ IsFiniteSet(kept)
    BY <1>1, FS_Subset DEF Unexpired
<1>5. \A r \in granted : r.at \in Int
    BY <1>1 DEF Admission
<1>6. /\ Cardinality({r \in kept : r.at > now - Minute}) < limits.minute
      /\ Cardinality({r \in kept : r.at > now - Day}) < limits.day
  <2> DEFINE minutes == {r \in kept : r.at > now - Minute}
             days == {r \in kept : r.at > now - Day}
  <2>1. DayAdmissions(kept, now) = days
      BY DEF DayAdmissions, AdmissionsInWindow
  <2>2. MinuteAdmissions(kept, now) = minutes
      BY <1>4, <1>5 DEF MinuteAdmissions, DayAdmissions, AdmissionsInWindow
  <2>3. Cardinality(minutes) \in Nat /\ Cardinality(days) \in Nat
      BY <1>4, FS_Subset, FS_CardinalityType
  <2> HIDE DEF minutes, days, kept
  <2>4. ~(Cardinality(minutes) >= limits.minute) /\ ~(Cardinality(days) >= limits.day)
      BY <2>1, <2>2 DEF Admits, MinuteExhausted, DayExhausted, kept
  <2>5. Cardinality(minutes) < limits.minute /\ Cardinality(days) < limits.day
      BY <1>3, <2>3, <2>4
  <2> QED BY <2>5 DEF minutes, days
<1> QED BY <1>2, <1>6

\* The conjuncts an admission disturbs: the new row is numbered, and no window
\* that holds it was full.
LEMMA RowsAfterAdmission ==
    ASSUME IInv, NEW limits \in LimitChoices, NEW now \in Int,
           clock - Behind <= now, now <= clock + Ahead,
           Admits(Unexpired(now), now, limits),
           granted' = granted \cup {NewAdmission(now)}
    PROVE  Numbered' /\ WithinMaximum'
<1> USE LimiterAssumption, WindowAssumption
<1> DEFINE n == NewAdmission(now)
           kept == Unexpired(now)
<1>1. /\ IsFiniteSet(granted) /\ granted \subseteq Admission
      /\ usage \subseteq granted /\ clock \in Nat
    BY DEF IInv, TypeOK
<1>2. n.at = now /\ n.row = Cardinality({a \in granted : a.at = now})
    BY DEF NewAdmission
<1>3. Numbered'
  <2> SUFFICES ASSUME NEW a \in granted \cup {n}
               PROVE  /\ 0 - Behind <= a.at
                      /\ a.row < Cardinality({b \in granted \cup {n} : b.at = a.at})
      BY DEF Numbered
  <2> DEFINE before == {b \in granted : b.at = a.at}
             after == {b \in granted \cup {n} : b.at = a.at}
  <2>1. IsFiniteSet(before) /\ IsFiniteSet(after)
      BY <1>1, FS_Subset, FS_AddElement
  <2>2. Cardinality(before) \in Nat /\ Cardinality(after) \in Nat
      BY <2>1, FS_CardinalityType
  <2>3. Cardinality(before) <= Cardinality(after)
    <3>1. before \subseteq after
        OBVIOUS
    <3> QED BY <2>1, <3>1, FS_Subset
  <2>4. CASE a \in granted
    <3>1. 0 - Behind <= a.at /\ a.row < Cardinality(before) /\ a.row \in Nat
        BY <1>1, <2>4 DEF IInv, Numbered, Admission
    <3> HIDE DEF before, after
    <3>2. a.row < Cardinality(after)
        BY <2>2, <2>3, <3>1
    <3> QED BY <3>1, <3>2 DEF after
  <2>5. CASE a = n
    <3>1. 0 - Behind <= n.at
        BY <1>1, <1>2
    <3>2. n \notin granted
      <4>1. \A b \in granted : b.row < Cardinality({d \in granted : d.at = b.at})
          BY DEF IInv, Numbered
      <4>2. Cardinality({a_1 \in granted : a_1.at = now}) \in Nat
          BY <1>2, <2>2, <2>5
      <4> QED BY <1>2, <4>1, <4>2
    <3>3. after = before \cup {n}
        BY <2>5
    <3>4. Cardinality(before \cup {n}) = Cardinality(before) + 1
        BY <2>1, <3>2, FS_AddElement
    <3>5. n.row = Cardinality(before)
        BY <1>2, <2>5
    <3> HIDE DEF before, after, n
    <3>6. n.row < Cardinality(after)
        BY <2>2, <3>3, <3>4, <3>5
    <3> QED BY <2>5, <3>1, <3>6 DEF after
  <2> QED BY <2>4, <2>5
<1>4. \A r \in granted : r.at > now - Day => r \in kept
    BY WindowsRemembered
<1>5. /\ limits.minute \in Nat /\ limits.minute <= MaximumLimits.minute
      /\ limits.day \in Nat /\ limits.day <= MaximumLimits.day
      /\ MaximumLimits.minute \in Nat /\ MaximumLimits.day \in Nat
    BY DEF Limits
<1>6. kept \in SUBSET granted /\ IsFiniteSet(kept)
    BY <1>1, FS_Subset DEF Unexpired
<1>7. \A r \in granted : r.at \in Int
    BY <1>1 DEF Admission
<1>8. /\ Cardinality({r \in kept : r.at > now - Minute}) < MaximumLimits.minute
      /\ Cardinality({r \in kept : r.at > now - Day}) < MaximumLimits.day
  <2> DEFINE minutes == {r \in kept : r.at > now - Minute}
             days == {r \in kept : r.at > now - Day}
  <2>1. Cardinality(minutes) < limits.minute /\ Cardinality(days) < limits.day
      BY WindowsRemembered
  <2>2. Cardinality(minutes) \in Nat /\ Cardinality(days) \in Nat
      BY <1>6, FS_Subset, FS_CardinalityType
  <2> HIDE DEF minutes, days
  <2>3. Cardinality(minutes) < MaximumLimits.minute /\ Cardinality(days) < MaximumLimits.day
      BY <1>5, <2>1, <2>2
  <2> QED BY <2>3 DEF minutes, days
<1>9. WithinMaximum'
  <2> SUFFICES ASSUME NEW r \in granted \cup {n}
               PROVE  /\ Cardinality(WindowEnding(granted \cup {n}, r.at, Minute)) <= MaximumLimits.minute
                      /\ Cardinality(WindowEnding(granted \cup {n}, r.at, Day)) <= MaximumLimits.day
      BY DEF WithinMaximum
  <2>1. \A x \in granted : x.at > n.at - Minute => x \in kept
      BY <1>2, <1>4, <1>7
  <2>2. \A x \in granted : x.at > n.at - Day => x \in kept
      BY <1>2, <1>4
  <2>3. \A x \in granted :
            Cardinality(WindowEnding(granted, x.at, Minute)) <= MaximumLimits.minute
      BY DEF IInv, WithinMaximum
  <2>8. \A x \in granted :
            Cardinality(WindowEnding(granted, x.at, Day)) <= MaximumLimits.day
      BY DEF IInv, WithinMaximum
  <2>4. /\ Cardinality({x \in kept : x.at > n.at - Minute}) < MaximumLimits.minute
        /\ Cardinality({x \in kept : x.at > n.at - Day}) < MaximumLimits.day
      BY <1>2, <1>8
  <2>5. n.at \in Int /\ Minute \in Int /\ Day \in Int
      BY <1>2
  <2>9. IsFiniteSet(granted) /\ kept \in SUBSET granted
      BY <1>1, <1>6
  <2> HIDE DEF n, kept
  <2>6. Cardinality(WindowEnding(granted \cup {n}, r.at, Minute)) <= MaximumLimits.minute
      BY <1>5, <1>7, <2>1, <2>3, <2>4, <2>5, <2>9, WindowAfterAdmission
  <2>7. Cardinality(WindowEnding(granted \cup {n}, r.at, Day)) <= MaximumLimits.day
      BY <1>5, <1>7, <2>2, <2>8, <2>4, <2>5, <2>9, WindowAfterAdmission
  <2> QED BY <2>6, <2>7
<1> QED BY <1>3, <1>9

LEMMA DecideInvariant ==
    ASSUME IInv, NEW c \in Caller, Decide(c)
    PROVE  IInv'
<1> USE LimiterAssumption, WindowAssumption
<1> DEFINE now == call[c].admittedAt
           applied == SelectLimits(call[c].canonical)
           kept == Unexpired(now)
           n == NewAdmission(now)
           allowed == Admits(kept, now, applied.limits)
<1>1. /\ call[c].at = "read"
      /\ call' = [call EXCEPT ![c] = Idle]
      /\ UNCHANGED <<record, clock>>
    BY DEF Decide, Becomes
<1>2. CASE Conflicting(call[c].canonical)
  <2>1. UNCHANGED <<config, usage, cleanupAt, granted>>
      BY <1>2 DEF Decide
  <2> QED BY <1>1, <2>1, FailInvariant
<1>3. CASE ~Conflicting(call[c].canonical)
  <2>1. /\ config' = applied
        /\ usage' = IF allowed THEN kept \cup {n} ELSE kept
        /\ granted' = IF allowed THEN granted \cup {n} ELSE granted
        /\ cleanupAt' = IF allowed THEN NextCleanup(kept \cup {n}) ELSE cleanupAt
      BY <1>3 DEF Decide
  <2>2. /\ now \in Int /\ clock \in Nat
        /\ clock - Behind <= now /\ now <= clock + Ahead
      BY <1>1 DEF IInv, TypeOK, Punctual, CallState
  <2>3. applied \in InUse /\ applied \in LimitConfig
      BY <1>1, AppliedLimits
  <2>4. /\ usage \subseteq granted /\ granted \subseteq Admission /\ IsFiniteSet(granted)
        /\ kept \subseteq usage
      BY DEF IInv, TypeOK, Unexpired
  <2>5. n \in Admission /\ n.at = now
    <3>1. Cardinality({a \in granted : a.at = now}) \in Nat
        BY <2>4, FS_Subset, FS_CardinalityType
    <3> QED BY <2>2, <3>1 DEF NewAdmission, Admission
  <2>6. /\ \A d \in Caller : d # c => call'[d] = call[d]
        /\ call'[c] = Idle
      BY <1>1 DEF IInv, TypeOK
  <2>7. Numbered' /\ WithinMaximum'
    <3>1. CASE allowed
      <4>1. applied.limits \in LimitChoices
          BY <2>3 DEF LimitConfig
      <4>2. granted' = granted \cup {NewAdmission(now)}
          BY <2>1, <3>1
      <4> HIDE DEF now, applied
      <4> QED BY <2>2, <3>1, <4>1, <4>2, RowsAfterAdmission
    <3>2. CASE ~allowed
        BY <2>1, <3>2 DEF IInv, Numbered, WithinMaximum
    <3> QED BY <3>1, <3>2
  <2>8. allowed => /\ cleanupAt' \in Int \cup {Null}
                   /\ \A r \in usage' : cleanupAt' # Null /\ cleanupAt' <= r.at + Retention
    <3> SUFFICES ASSUME allowed
                 PROVE  /\ cleanupAt' \in Int \cup {Null}
                        /\ \A r \in usage' :
                              cleanupAt' # Null /\ cleanupAt' <= r.at + Retention
        OBVIOUS
    <3>1. \A r \in kept \cup {n} : r.at \in Int /\ 0 - Behind <= r.at
      <4>1. \A r \in kept : r.at \in Int /\ 0 - Behind <= r.at
          BY <2>4 DEF IInv, Numbered, Admission
      <4>2. n.at \in Int /\ 0 - Behind <= n.at
          BY <2>2, <2>5
      <4> HIDE DEF kept, n
      <4> QED BY <4>1, <4>2
    <3>2. usage' = kept \cup {n} /\ cleanupAt' = NextCleanup(usage')
        BY <2>1
    <3> HIDE DEF kept, n, allowed
    <3> QED BY <3>1, <3>2, CleanupFindsOldest
  <2>9. TypeOK'
    <3>1. granted' \in SUBSET Admission /\ IsFiniteSet(granted') /\ usage' \subseteq granted'
        BY <2>1, <2>4, <2>5, FS_AddElement
    <3>2. cleanupAt' \in Int \cup {Null}
        BY <2>1, <2>8 DEF IInv, TypeOK
    <3>3. config' \in LimitConfig
        BY <2>1, <2>3
    <3>4. call' \in [Caller -> CallState]
        BY <1>1 DEF IInv, TypeOK, CallState, Idle
    <3> QED BY <1>1, <3>1, <3>2, <3>3, <3>4 DEF IInv, TypeOK
  <2>10. Punctual' /\ Arrivals'
      BY <1>1, <2>6 DEF IInv, Punctual, Arrivals, Idle
  <2>11. VersionsAgree'
    <3>1. InUse' \subseteq InUse
        BY <1>1, <2>1, <2>3, <2>6 DEF InUse, Idle
    <3> QED BY <1>1, <3>1 DEF IInv, VersionsAgree
  <2>12. Forgotten'
    <3>1. \A a \in granted \ kept : a.at <= clock - Behind - Day
        BY <2>2, ForgottenAtCutoff
    <3>2. granted' \ usage' \subseteq granted \ kept
        BY <2>1
    <3> QED BY <1>1, <3>1, <3>2 DEF Forgotten
  <2>13. UsageExpires'
    <3> SUFFICES ASSUME NEW r \in usage'
                 PROVE  /\ cleanupAt' # Null /\ cleanupAt' <= r.at + Retention
                        /\ clock <= r.at + Retention + AlarmDelay
        BY <1>1 DEF UsageExpires
    <3>1. CASE r \in kept
      <4>1. /\ cleanupAt # Null /\ cleanupAt <= r.at + Retention
            /\ clock <= r.at + Retention + AlarmDelay
          BY <2>4, <3>1 DEF IInv, UsageExpires
      <4> QED BY <2>1, <2>8, <4>1
    <3>2. CASE allowed /\ r = n
      <4>1. clock <= n.at + Retention + AlarmDelay
          BY <2>2, <2>5
      <4> QED BY <2>8, <3>2, <4>1
    <3> QED BY <2>1, <3>1, <3>2
  <2> QED BY <2>7, <2>9, <2>10, <2>11, <2>12, <2>13 DEF IInv
<1> QED BY <1>2, <1>3

-----------------------------------------------------------------------------
(* Theorems                                                                *)

\* The inductive invariant: stored rows, limits on their way and the cleanup
\* schedule stay in the relation that every admission relies on.
THEOREM LimiterInvariant == Spec => []IInv
<1>1. Init => IInv
    BY InitInvariant
<1>2. IInv /\ [Next]_vars => IInv'
  <2> SUFFICES ASSUME IInv, [Next]_vars PROVE IInv'
      OBVIOUS
  <2>1. CASE PassTime
      BY <2>1, PassTimeInvariant
  <2>2. CASE Alarm
      BY <2>2, AlarmInvariant
  <2>3. ASSUME NEW limits \in LimitChoices, ChangeLimits(limits) PROVE IInv'
      BY <2>3, ChangeLimitsInvariant
  <2>4. ASSUME NEW c \in Caller, Arrive(c) PROVE IInv'
      BY <2>4, ArriveInvariant
  <2>5. ASSUME NEW c \in Caller, ReadCanonicalLimits(c) PROVE IInv'
      BY <2>5, ReadInvariant
  <2>6. ASSUME NEW c \in Caller, Decide(c) PROVE IInv'
      BY <2>6, DecideInvariant
  <2>7. ASSUME NEW c \in Caller, Fail(c) PROVE IInv'
      BY <2>7, FailInvariant DEF Fail, Becomes
  <2>8. CASE UNCHANGED vars
    <3>1. UNCHANGED <<record, config, usage, cleanupAt, call, clock, granted>>
        BY <2>8 DEF vars
    <3>2. TypeOK' /\ Punctual' /\ Arrivals'
        BY <3>1 DEF IInv, TypeOK, Punctual, Arrivals
    <3>3. VersionsAgree'
        BY <3>1 DEF IInv, VersionsAgree, InUse
    <3> QED BY <3>1, <3>2, <3>3, RowsUnchanged DEF IInv
  <2> QED BY <2>1, <2>2, <2>3, <2>4, <2>5, <2>6, <2>7, <2>8 DEF Next
<1> QED BY <1>1, <1>2, PTL DEF Spec

\* No minute and no day holds more admissions than the maximum allowance,
\* whatever the delays, the clocks and the changes of the limits.
THEOREM AllowanceHonoured == Spec => []WithinMaximum
<1>1. IInv => WithinMaximum
    BY DEF IInv
<1> QED BY <1>1, LimiterInvariant, PTL

\* Stored admissions are gone, whether or not the key is used again, when their
\* retention and the delay of an alarm have passed.
THEOREM StoredUsageExpires == Spec => []UsageExpires
<1>1. IInv => UsageExpires
    BY DEF IInv
<1> QED BY <1>1, LimiterInvariant, PTL

\* No admission meets a version of the limits with two meanings.
THEOREM LimitsNeverConflict == Spec => []OneMeaningPerVersion
<1>1. IInv => OneMeaningPerVersion
  <2> SUFFICES ASSUME IInv, NEW c \in Caller, call[c].at = "read",
                      Conflicting(call[c].canonical)
               PROVE  FALSE
      BY DEF OneMeaningPerVersion
  <2>1. config \in InUse /\ call[c].canonical \in InUse
      BY DEF InUse, Conflicting
  <2> QED BY <2>1 DEF IInv, VersionsAgree, Conflicting
<1> QED BY <1>1, LimiterInvariant, PTL

\* The new row and what is remembered are all the admissions since a time that
\* no forgotten row can have.
LEMMA AdmittedWithin ==
    ASSUME IInv, NEW limits \in LimitChoices, NEW now \in Int,
           clock - Behind <= now, now <= clock + Ahead,
           Admits(Unexpired(now), now, limits)
    PROVE  LET rows == granted \cup {NewAdmission(now)} IN
           /\ Cardinality({a \in rows : a.at > now - Minute}) <= limits.minute
           /\ Cardinality({a \in rows : a.at > now - Day}) <= limits.day
<1> USE WindowAssumption
<1> DEFINE n == NewAdmission(now)
           rows == granted \cup {n}
           minutes == {r \in Unexpired(now) : r.at > now - Minute}
           days == {r \in Unexpired(now) : r.at > now - Day}
           newMinutes == {a \in rows : a.at > now - Minute}
           newDays == {a \in rows : a.at > now - Day}
<1>1. /\ \A r \in granted : r.at > now - Day => r \in Unexpired(now)
      /\ Cardinality(minutes) < limits.minute /\ Cardinality(days) < limits.day
    BY WindowsRemembered
<1>2. /\ IsFiniteSet(Unexpired(now))
      /\ \A r \in granted : r.at \in Int
    BY FS_Subset DEF IInv, TypeOK, Unexpired, Admission
<1>3. newDays \subseteq days \cup {n}
    BY <1>1
<1>4. newMinutes \subseteq minutes \cup {n}
  <2> SUFFICES ASSUME NEW a \in granted, a.at > now - Minute PROVE a \in minutes
      OBVIOUS
  <2>1. a.at > now - Day
      BY <1>2
  <2> QED BY <1>1, <2>1
<1>5. IsFiniteSet(minutes) /\ IsFiniteSet(days)
    BY <1>2, FS_Subset
<1>6. limits.minute \in Nat /\ limits.day \in Nat
    BY LimiterAssumption DEF Limits
<1> HIDE DEF n, rows, minutes, days, newMinutes, newDays
<1>7. /\ IsFiniteSet(newMinutes) /\ Cardinality(newMinutes) <= Cardinality(minutes) + 1
      /\ IsFiniteSet(newDays) /\ Cardinality(newDays) <= Cardinality(days) + 1
    BY <1>3, <1>4, <1>5, OneMore
<1>8. /\ Cardinality(minutes) \in Nat /\ Cardinality(days) \in Nat
      /\ Cardinality(newMinutes) \in Nat /\ Cardinality(newDays) \in Nat
    BY <1>5, <1>7, FS_CardinalityType
<1>9. Cardinality(newMinutes) <= limits.minute /\ Cardinality(newDays) <= limits.day
    BY <1>1, <1>6, <1>7, <1>8
<1> QED BY <1>9 DEF n, rows, newMinutes, newDays

LEMMA DecideFresh ==
    ASSUME IInv, NEW c \in Caller, Decide(c), NEW r \in granted' \ granted
    PROVE  /\ config'.version >= call[c].since
           /\ config # Null => config'.version >= config.version
           /\ Cardinality({a \in granted' : a.at > r.at - Minute}) <= config'.limits.minute
           /\ Cardinality({a \in granted' : a.at > r.at - Day}) <= config'.limits.day
<1> DEFINE now == call[c].admittedAt
           canonical == call[c].canonical
           applied == SelectLimits(canonical)
<1>1. /\ call[c].at = "read"
      /\ config' = applied
      /\ Admits(Unexpired(now), now, applied.limits)
      /\ granted' = granted \cup {NewAdmission(now)}
      /\ r = NewAdmission(now)
    BY DEF Decide
<1>2. /\ now \in Int /\ clock - Behind <= now /\ now <= clock + Ahead
      /\ canonical \in LimitConfig /\ call[c].since \in Nat
      /\ call[c].since <= canonical.version
    BY <1>1 DEF IInv, TypeOK, Punctual, Arrivals, CallState
<1>3. config # Null => config \in LimitConfig
    BY DEF IInv, TypeOK
<1>4. applied \in LimitConfig
    BY <1>1, AppliedLimits
<1>5. applied.version >= canonical.version
    BY <1>2, <1>3 DEF SelectLimits, LimitConfig
<1>6. config # Null => applied.version >= config.version
    BY <1>2, <1>3 DEF SelectLimits, LimitConfig
<1>7. applied.version >= call[c].since
    BY <1>2, <1>4, <1>5 DEF LimitConfig
<1>8. r.at = now
    BY <1>1 DEF NewAdmission
<1>9. /\ Cardinality({a \in granted' : a.at > now - Minute}) <= applied.limits.minute
      /\ Cardinality({a \in granted' : a.at > now - Day}) <= applied.limits.day
  <2>1. applied.limits \in LimitChoices
      BY <1>4 DEF LimitConfig
  <2> HIDE DEF now, applied
  <2> QED BY <1>1, <1>2, <2>1, AdmittedWithin
<1> HIDE DEF now, applied
<1> QED BY <1>1, <1>6, <1>7, <1>8, <1>9

\* No admission is decided by limits older than those in D1 when it arrived or
\* those applied before it, and each leaves its windows within them.
THEOREM LimitsAreFresh == Spec => FreshLimits
<1> DEFINE Fresh(c, r) ==
        /\ config'.version >= call[c].since
        /\ config # Null => config'.version >= config.version
        /\ Cardinality({a \in granted' : a.at > r.at - Minute}) <= config'.limits.minute
        /\ Cardinality({a \in granted' : a.at > r.at - Day}) <= config'.limits.day
           Step == \A c \in Caller : \A r \in granted' \ granted :
                       call[c].at = "read" /\ call'[c].at = "idle" => Fresh(c, r)
<1>1. IInv /\ [Next]_vars => [Step]_vars
  <2> SUFFICES ASSUME IInv, Next, NEW c \in Caller, NEW r \in granted' \ granted,
                      call[c].at = "read", call'[c].at = "idle"
               PROVE  Fresh(c, r)
      OBVIOUS
  <2>1. granted' # granted
      OBVIOUS
  <2>2. PICK d \in Caller : Decide(d)
      BY <2>1 DEF Next, PassTime, Alarm, ChangeLimits, Arrive, ReadCanonicalLimits, Fail
  <2>3. d = c
    <3>1. call' = [call EXCEPT ![d] = Idle]
        BY <2>2 DEF Decide, Becomes
    <3>2. call \in [Caller -> CallState]
        BY DEF IInv, TypeOK
    <3> QED BY <3>1, <3>2
  <2> QED BY <2>2, <2>3, DecideFresh
<1> QED BY <1>1, LimiterInvariant, PTL DEF Spec, FreshLimits

-----------------------------------------------------------------------------
(* Retry-After                                                             *)

\* A strict subset of a finite set has fewer elements.
LEMMA Fewer ==
    ASSUME NEW S, IsFiniteSet(S), NEW T \in SUBSET S, NEW x \in S, x \notin T
    PROVE  /\ Cardinality(T) \in Nat /\ Cardinality(S) \in Nat
           /\ Cardinality(T) < Cardinality(S)
<1>1. IsFiniteSet(T) /\ Cardinality(T) <= Cardinality(S) /\ (Cardinality(S) = Cardinality(T) => S = T)
    BY FS_Subset
<1>2. Cardinality(T) \in Nat /\ Cardinality(S) \in Nat
    BY <1>1, FS_CardinalityType
<1>3. S # T
    OBVIOUS
<1> QED BY <1>1, <1>2, <1>3

Timed(rows) == IsFiniteSet(rows) /\ \A r \in rows : r.at \in Int
UpTo(rows, t) == {r \in rows : r.at <= t}
Before(rows, t) == {r \in rows : r.at < t}

LEMMA PartsAreTimed ==
    ASSUME NEW rows, Timed(rows), NEW part \in SUBSET rows
    PROVE  Timed(part) /\ Cardinality(part) \in Nat
BY FS_Subset, FS_CardinalityType DEF Timed

\* A finite set of rows has a youngest one.
LEMMA Youngest ==
    ASSUME NEW rows, Timed(rows), rows # {}
    PROVE  \E y \in rows : UpTo(rows, y.at) = rows
<1> DEFINE younger(b) == {r \in rows : r.at > b.at}
           counts == {Cardinality(younger(b)) : b \in rows}
<1>1. \A b \in rows : Timed(younger(b)) /\ Cardinality(younger(b)) \in Nat
    BY PartsAreTimed
<1>2. counts \in SUBSET Int /\ counts # {} /\ \A n \in counts : 0 <= n
  <2>1. \A n \in counts : n \in Nat
      BY <1>1
  <2>2. counts # {}
      OBVIOUS
  <2> HIDE DEF counts
  <2> QED BY <2>1, <2>2
<1>3. \E n \in counts : \A m \in counts : n <= m
  <2> HIDE DEF counts
  <2> QED BY <1>2, LeastTime
<1>4. PICK y \in rows : \A b \in rows : Cardinality(younger(y)) <= Cardinality(younger(b))
    BY <1>3
<1>5. ASSUME NEW r \in younger(y) PROVE FALSE
  <2>1. /\ younger(r) \in SUBSET younger(y) /\ r \notin younger(r) /\ r \in rows
        /\ IsFiniteSet(younger(y))
      BY <1>1, <1>5 DEF Timed
  <2> HIDE DEF younger
  <2>2. /\ Cardinality(younger(r)) \in Nat /\ Cardinality(younger(y)) \in Nat
        /\ Cardinality(younger(r)) < Cardinality(younger(y))
      BY <1>5, <2>1, Fewer
  <2> QED BY <1>4, <2>1, <2>2
<1>6. UpTo(rows, y.at) = rows
    BY <1>5 DEF UpTo, Timed
<1> QED BY <1>6

\* The blocking row of nextOpeningTime: the one at the index of the sorted list.
LEMMA BlockingRow ==
    ASSUME NEW rows, Timed(rows), NEW rank \in Nat, rank < Cardinality(rows)
    PROVE  \E b \in rows : /\ Cardinality(Before(rows, b.at)) <= rank
                           /\ rank < Cardinality(UpTo(rows, b.at))
<1> DEFINE late == {b \in rows : rank < Cardinality(UpTo(rows, b.at))}
           counts == {Cardinality(UpTo(rows, b.at)) : b \in late}
<1>1. \A t : /\ Timed(UpTo(rows, t)) /\ Cardinality(UpTo(rows, t)) \in Nat
             /\ Timed(Before(rows, t)) /\ Cardinality(Before(rows, t)) \in Nat
    BY PartsAreTimed DEF UpTo, Before
<1>2. late # {}
  <2>1. rows # {}
      BY FS_EmptySet
  <2> QED BY <2>1, Youngest
<1>3. \E n \in counts : \A m \in counts : n <= m
  <2>1. counts \in SUBSET Int /\ counts # {} /\ \A n \in counts : 0 <= n
      BY <1>1, <1>2
  <2>2. 0 \in Int
      OBVIOUS
  <2> HIDE DEF counts, late
  <2> QED BY <2>1, <2>2, LeastTime
<1>4. PICK b \in late : \A a \in late :
                           Cardinality(UpTo(rows, b.at)) <= Cardinality(UpTo(rows, a.at))
    BY <1>3
<1>5. ASSUME rank < Cardinality(Before(rows, b.at)) PROVE FALSE
  <2>1. Before(rows, b.at) # {}
      BY <1>5, FS_EmptySet
  <2>2. PICK y \in Before(rows, b.at) : UpTo(Before(rows, b.at), y.at) = Before(rows, b.at)
      BY <1>1, <2>1, Youngest
  <2>3. /\ y \in rows /\ y.at < b.at /\ b \in rows /\ y.at \in Int /\ b.at \in Int
        /\ \A r \in rows : r.at \in Int
      BY <2>2 DEF Before, Timed
  <2>4. UpTo(rows, y.at) = Before(rows, b.at)
      BY <2>2, <2>3 DEF UpTo, Before
  <2>5. y \in late
      BY <1>5, <2>3, <2>4
  <2>6. /\ UpTo(rows, y.at) \in SUBSET UpTo(rows, b.at)
        /\ b \in UpTo(rows, b.at) /\ b \notin UpTo(rows, y.at)
      BY <2>3 DEF UpTo
  <2>7. /\ Cardinality(UpTo(rows, y.at)) \in Nat /\ Cardinality(UpTo(rows, b.at)) \in Nat
        /\ Cardinality(UpTo(rows, y.at)) < Cardinality(UpTo(rows, b.at))
      BY <1>1, <2>6, Fewer DEF Timed
  <2> QED BY <1>4, <2>5, <2>7
<1> QED BY <1>1, <1>4, <1>5

\* An exhausted window opens at nextOpeningTime, and not before.
LEMMA WindowOpens ==
    ASSUME NEW rows, Timed(rows), NEW now \in Int, NEW length \in Nat, NEW limit \in Nat \ {0},
           limit <= Cardinality(AdmissionsInWindow(rows, now, length))
    PROVE  LET opening == NextOpeningTime(AdmissionsInWindow(rows, now, length), limit, length)
           IN /\ opening \in Int /\ now < opening
              /\ \A t \in Int :
                    /\ opening <= t => Cardinality(AdmissionsInWindow(rows, t, length)) < limit
                    /\ t < opening => limit <= Cardinality(AdmissionsInWindow(rows, t, length))
<1> DEFINE window == AdmissionsInWindow(rows, now, length)
           rank == Cardinality(window) - limit
           opening == NextOpeningTime(window, limit, length)
<1>1. Timed(window) /\ Cardinality(window) \in Nat /\ \A r \in rows : r.at \in Int
    BY PartsAreTimed DEF AdmissionsInWindow, Timed
<1>2. rank \in Nat /\ rank < Cardinality(window)
    BY <1>1
<1>3. PICK b \in window : /\ Cardinality(Before(window, b.at)) <= rank
                          /\ rank < Cardinality(UpTo(window, b.at))
                          /\ opening = b.at + length
  <2> HIDE DEF window
  <2>1. \E b \in window : /\ Cardinality({r \in window : r.at < b.at}) <= rank
                          /\ rank < Cardinality({r \in window : r.at <= b.at})
      BY <1>1, <1>2, BlockingRow DEF Before, UpTo
  <2> DEFINE b == CHOOSE b \in window :
                    /\ Cardinality({r \in window : r.at < b.at}) <= rank
                    /\ rank < Cardinality({r \in window : r.at <= b.at})
  <2>2. /\ b \in window
        /\ Cardinality({r \in window : r.at < b.at}) <= rank
        /\ rank < Cardinality({r \in window : r.at <= b.at})
      BY <2>1
  <2>3. opening = b.at + length
      BY DEF NextOpeningTime
  <2> HIDE DEF b, opening, rank
  <2> QED BY <2>2, <2>3 DEF Before, UpTo
<1>4. b.at \in Int /\ b.at > now - length /\ b \in rows
    BY <1>1 DEF AdmissionsInWindow
<1> HIDE DEF opening
<1>5. opening \in Int /\ now < opening
    BY <1>3, <1>4
<1>6. \A S \in SUBSET window : /\ IsFiniteSet(S) /\ Cardinality(S) \in Nat
                               /\ Cardinality(window \ S) = Cardinality(window) - Cardinality(S)
  <2> SUFFICES ASSUME NEW S \in SUBSET window
               PROVE  /\ IsFiniteSet(S) /\ Cardinality(S) \in Nat
                      /\ Cardinality(window \ S) = Cardinality(window) - Cardinality(S)
      OBVIOUS
  <2>1. window \cap S = S
      OBVIOUS
  <2> QED BY <1>1, <2>1, PartsAreTimed, FS_Difference DEF Timed
<1>7. /\ UpTo(window, b.at) \in SUBSET window /\ Before(window, b.at) \in SUBSET window
    BY DEF UpTo, Before
<1> DEFINE after == window \ UpTo(window, b.at)
           from == window \ Before(window, b.at)
<1>8. /\ Cardinality(after) \in Nat /\ Cardinality(from) \in Nat
      /\ Cardinality(after) < limit /\ limit <= Cardinality(from)
  <2>1. /\ Cardinality(after) = Cardinality(window) - Cardinality(UpTo(window, b.at))
        /\ Cardinality(from) = Cardinality(window) - Cardinality(Before(window, b.at))
        /\ Cardinality(UpTo(window, b.at)) \in Nat /\ Cardinality(Before(window, b.at)) \in Nat
        /\ after \in SUBSET window /\ from \in SUBSET window
      BY <1>6, <1>7
  <2> HIDE DEF after, from, window
  <2>2. Cardinality(after) \in Nat /\ Cardinality(from) \in Nat
      BY <1>6, <2>1
  <2> QED BY <1>1, <1>3, <2>1, <2>2
<1>9. ASSUME NEW t \in Int, opening <= t
      PROVE  Cardinality(AdmissionsInWindow(rows, t, length)) < limit
  <2>1. AdmissionsInWindow(rows, t, length) \in SUBSET after
    <3> SUFFICES ASSUME NEW r \in rows, r.at > t - length PROVE r \in after
        BY DEF AdmissionsInWindow
    <3>1. r.at \in Int /\ r.at > b.at
        BY <1>1, <1>3, <1>4, <1>9
    <3>2. r.at > now - length
        BY <1>4, <3>1
    <3> QED BY <1>4, <3>1, <3>2 DEF AdmissionsInWindow, UpTo
  <2>2. IsFiniteSet(after)
      BY <1>6
  <2> HIDE DEF after
  <2>3. /\ Cardinality(AdmissionsInWindow(rows, t, length)) <= Cardinality(after)
        /\ IsFiniteSet(AdmissionsInWindow(rows, t, length))
      BY <2>1, <2>2, FS_Subset
  <2>4. Cardinality(AdmissionsInWindow(rows, t, length)) \in Nat
      BY <2>3, FS_CardinalityType
  <2> QED BY <1>8, <2>3, <2>4
<1>10. ASSUME NEW t \in Int, t < opening
       PROVE  limit <= Cardinality(AdmissionsInWindow(rows, t, length))
  <2>1. from \in SUBSET AdmissionsInWindow(rows, t, length)
    <3> SUFFICES ASSUME NEW r \in window, r \notin Before(window, b.at)
                 PROVE  r \in rows /\ r.at > t - length
        BY DEF AdmissionsInWindow
    <3>1. r \in rows /\ r.at \in Int /\ ~(r.at < b.at)
        BY <1>1 DEF AdmissionsInWindow, Before
    <3> QED BY <1>3, <1>4, <1>10, <3>1
  <2>2. /\ IsFiniteSet(AdmissionsInWindow(rows, t, length))
        /\ Cardinality(AdmissionsInWindow(rows, t, length)) \in Nat
      BY PartsAreTimed DEF AdmissionsInWindow, Timed
  <2> HIDE DEF from
  <2>3. Cardinality(from) <= Cardinality(AdmissionsInWindow(rows, t, length))
      BY <2>1, <2>2, FS_Subset
  <2> QED BY <1>8, <2>2, <2>3
<1> QED BY <1>5, <1>9, <1>10 DEF opening, window

\* A window that is not exhausted stays so until something is admitted.
LEMMA WindowStaysOpen ==
    ASSUME NEW rows, Timed(rows), NEW now \in Int, NEW t \in Int, now <= t,
           NEW length \in Nat, NEW limit \in Nat,
           Cardinality(AdmissionsInWindow(rows, now, length)) < limit
    PROVE  Cardinality(AdmissionsInWindow(rows, t, length)) < limit
<1>1. /\ AdmissionsInWindow(rows, t, length) \in SUBSET AdmissionsInWindow(rows, now, length)
      /\ AdmissionsInWindow(rows, now, length) \in SUBSET rows
    BY DEF AdmissionsInWindow, Timed
<1>2. Timed(AdmissionsInWindow(rows, now, length))
    BY <1>1, PartsAreTimed
<1>3. /\ Cardinality(AdmissionsInWindow(rows, t, length))
            <= Cardinality(AdmissionsInWindow(rows, now, length))
      /\ Cardinality(AdmissionsInWindow(rows, t, length)) \in Nat
      /\ Cardinality(AdmissionsInWindow(rows, now, length)) \in Nat
    BY <1>1, <1>2, FS_Subset, PartsAreTimed DEF Timed
<1> QED BY <1>3

\* The minute is a part of the day.
LEMMA MinuteOfDay ==
    ASSUME NEW rows, Timed(rows), NEW t \in Int
    PROVE  MinuteAdmissions(rows, t) = AdmissionsInWindow(rows, t, Minute)
BY WindowAssumption DEF MinuteAdmissions, DayAdmissions, AdmissionsInWindow, Timed

\* Math.ceil: the seconds returned are enough, and one less is not.
LEMMA SecondsRoundUp ==
    ASSUME NEW ticks \in Nat \ {0}
    PROVE  /\ WholeSeconds(ticks) \in Nat \ {0}
           /\ ticks <= WholeSeconds(ticks) * Second
           /\ (WholeSeconds(ticks) - 1) * Second < ticks
<1> DEFINE q == WholeSeconds(ticks)
<1>1. Second \in Nat \ {0}
    BY WindowAssumption
<1>2. /\ q \in Int /\ Second * q <= ticks + Second - 1
      /\ ticks + Second - 1 < Second * q + Second
    BY <1>1 DEF WholeSeconds
<1> HIDE DEF q
<1>3. q * Second = Second * q /\ (q - 1) * Second = Second * q - Second
    BY <1>1, <1>2
<1>4. ticks <= q * Second /\ (q - 1) * Second < ticks
  <2>1. Second * q \in Int
      BY <1>1, <1>2
  <2> QED BY <1>1, <1>2, <1>3, <2>1
<1>5. q > 0
  <2>1. CASE q <= 0
    <3>1. q * Second <= 0
        BY <1>1, <1>2, <2>1
    <3>2. q * Second \in Int
        BY <1>1, <1>2
    <3> QED BY <1>4, <3>1, <3>2
  <2> QED BY <1>2, <2>1
<1> QED BY <1>2, <1>4, <1>5 DEF q

\* retryAfterSeconds of any rows: room at the time returned, none a second before.
LEMMA RetryFindsRoom ==
    ASSUME NEW rows, Timed(rows), NEW now \in Int, NEW limits \in Limits,
           ~Admits(rows, now, limits)
    PROVE  LET delay == RetryAfterSeconds(rows, now, limits) IN
           /\ Admits(rows, now + delay * Second, limits)
           /\ ~Admits(rows, now + (delay - 1) * Second, limits)
<1> DEFINE minuteOpens == IF MinuteExhausted(rows, now, limits)
                          THEN NextOpeningTime(MinuteAdmissions(rows, now), limits.minute, Minute)
                          ELSE now
           dayOpens == IF DayExhausted(rows, now, limits)
                       THEN NextOpeningTime(DayAdmissions(rows, now), limits.day, Day)
                       ELSE now
           opening == Later(minuteOpens, dayOpens)
           delay == RetryAfterSeconds(rows, now, limits)
<1>1. /\ Minute \in Nat /\ Day \in Nat /\ Second \in Nat \ {0}
      /\ limits.minute \in Nat \ {0} /\ limits.day \in Nat \ {0}
    BY WindowAssumption DEF Limits
<1>2. \A t \in Int :
         /\ Cardinality(AdmissionsInWindow(rows, t, Minute)) \in Nat
         /\ Cardinality(AdmissionsInWindow(rows, t, Day)) \in Nat
    BY PartsAreTimed DEF AdmissionsInWindow
<1>3. \A t \in Int :
         /\ MinuteExhausted(rows, t, limits) <=>
               limits.minute <= Cardinality(AdmissionsInWindow(rows, t, Minute))
         /\ DayExhausted(rows, t, limits) <=>
               limits.day <= Cardinality(AdmissionsInWindow(rows, t, Day))
    BY <1>1, <1>2, MinuteOfDay DEF MinuteExhausted, DayExhausted, DayAdmissions
<1>4. /\ minuteOpens \in Int /\ now <= minuteOpens
      /\ \A t \in Int : now <= t /\ minuteOpens <= t => ~MinuteExhausted(rows, t, limits)
      /\ MinuteExhausted(rows, now, limits) =>
            now < minuteOpens /\ \A t \in Int : t < minuteOpens => MinuteExhausted(rows, t, limits)
      /\ ~MinuteExhausted(rows, now, limits) => minuteOpens = now
  <2>1. CASE MinuteExhausted(rows, now, limits)
    <3>1. minuteOpens = NextOpeningTime(AdmissionsInWindow(rows, now, Minute), limits.minute, Minute)
        BY <2>1, MinuteOfDay
    <3> HIDE DEF minuteOpens
    <3>2. /\ minuteOpens \in Int /\ now < minuteOpens
          /\ \A t \in Int :
                /\ minuteOpens <= t =>
                      Cardinality(AdmissionsInWindow(rows, t, Minute)) < limits.minute
                /\ t < minuteOpens =>
                      limits.minute <= Cardinality(AdmissionsInWindow(rows, t, Minute))
        BY <1>1, <1>3, <2>1, <3>1, WindowOpens
    <3> QED BY <1>1, <1>2, <1>3, <2>1, <3>2
  <2>2. CASE ~MinuteExhausted(rows, now, limits)
    <3>1. minuteOpens = now
        BY <2>2
    <3>2. Cardinality(AdmissionsInWindow(rows, now, Minute)) < limits.minute
        BY <1>1, <1>2, <1>3, <2>2
    <3>3. ASSUME NEW t \in Int, now <= t PROVE ~MinuteExhausted(rows, t, limits)
      <4>1. Cardinality(AdmissionsInWindow(rows, t, Minute)) < limits.minute
          BY <1>1, <3>2, <3>3, WindowStaysOpen
      <4> QED BY <1>1, <1>2, <1>3, <4>1
    <3> HIDE DEF minuteOpens
    <3> QED BY <2>2, <3>1, <3>3
  <2> QED BY <2>1, <2>2
<1>5. /\ dayOpens \in Int /\ now <= dayOpens
      /\ \A t \in Int : now <= t /\ dayOpens <= t => ~DayExhausted(rows, t, limits)
      /\ DayExhausted(rows, now, limits) =>
            now < dayOpens /\ \A t \in Int : t < dayOpens => DayExhausted(rows, t, limits)
      /\ ~DayExhausted(rows, now, limits) => dayOpens = now
  <2>1. CASE DayExhausted(rows, now, limits)
    <3>1. dayOpens = NextOpeningTime(AdmissionsInWindow(rows, now, Day), limits.day, Day)
        BY <2>1 DEF DayAdmissions
    <3> HIDE DEF dayOpens
    <3>2. /\ dayOpens \in Int /\ now < dayOpens
          /\ \A t \in Int :
                /\ dayOpens <= t => Cardinality(AdmissionsInWindow(rows, t, Day)) < limits.day
                /\ t < dayOpens => limits.day <= Cardinality(AdmissionsInWindow(rows, t, Day))
        BY <1>1, <1>3, <2>1, <3>1, WindowOpens
    <3> QED BY <1>1, <1>2, <1>3, <2>1, <3>2
  <2>2. CASE ~DayExhausted(rows, now, limits)
    <3>1. dayOpens = now
        BY <2>2
    <3>2. Cardinality(AdmissionsInWindow(rows, now, Day)) < limits.day
        BY <1>1, <1>2, <1>3, <2>2
    <3>3. ASSUME NEW t \in Int, now <= t PROVE ~DayExhausted(rows, t, limits)
      <4>1. Cardinality(AdmissionsInWindow(rows, t, Day)) < limits.day
          BY <1>1, <3>2, <3>3, WindowStaysOpen
      <4> QED BY <1>1, <1>2, <1>3, <4>1
    <3> HIDE DEF dayOpens
    <3> QED BY <2>2, <3>1, <3>3
  <2> QED BY <2>1, <2>2
<1>6. delay = Later(1, WholeSeconds(opening - now))
    BY DEF RetryAfterSeconds
<1> HIDE DEF minuteOpens, dayOpens, delay
<1>7. /\ opening \in Int /\ minuteOpens <= opening /\ dayOpens <= opening /\ now < opening
      /\ opening \in {minuteOpens, dayOpens}
    BY <1>4, <1>5 DEF Later, Admits
<1> HIDE DEF opening
<1>8. /\ delay \in Nat \ {0}
      /\ opening - now <= delay * Second /\ (delay - 1) * Second < opening - now
  <2>1. opening - now \in Nat \ {0}
      BY <1>7
  <2>2. /\ WholeSeconds(opening - now) \in Nat \ {0}
        /\ opening - now <= WholeSeconds(opening - now) * Second
        /\ (WholeSeconds(opening - now) - 1) * Second < opening - now
      BY <2>1, SecondsRoundUp
  <2>3. delay = WholeSeconds(opening - now)
      BY <1>6, <2>2 DEF Later
  <2> QED BY <2>2, <2>3
<1> DEFINE back == now + delay * Second
           sooner == now + (delay - 1) * Second
<1>9. /\ back \in Int /\ sooner \in Int
      /\ opening <= back /\ sooner < opening
  <2>1. delay * Second \in Int /\ (delay - 1) * Second \in Int
      BY <1>1, <1>8
  <2> QED BY <1>7, <1>8, <2>1
<1> HIDE DEF back, sooner
<1>10. Admits(rows, back, limits)
  <2>1. now <= back /\ minuteOpens <= back /\ dayOpens <= back
      BY <1>4, <1>5, <1>7, <1>9
  <2> QED BY <1>4, <1>5, <1>9, <2>1 DEF Admits
<1>11. ~Admits(rows, sooner, limits)
  <2>1. CASE opening = minuteOpens
    <3>1. MinuteExhausted(rows, now, limits)
        BY <1>4, <1>7, <2>1
    <3> QED BY <1>4, <1>9, <2>1, <3>1 DEF Admits
  <2>2. CASE opening = dayOpens
    <3>1. DayExhausted(rows, now, limits)
        BY <1>5, <1>7, <2>2
    <3> QED BY <1>5, <1>9, <2>2, <3>1 DEF Admits
  <2> QED BY <1>7, <2>1, <2>2
<1> QED BY <1>10, <1>11 DEF back, sooner, delay

\* RetryAfterHonest: a refused request that comes back after Retry-After finds room,
\* and one that comes back a second sooner does not.
THEOREM RetriesFindRoom == Spec => []RetryAfterHonest
<1>1. IInv => RetryAfterHonest
  <2> SUFFICES ASSUME IInv, config # Null, NEW now \in (clock - Behind) .. (clock + Ahead),
                      ~Admits(usage, now, config.limits)
               PROVE  LET delay == RetryAfterSeconds(usage, now, config.limits) IN
                      /\ Admits(usage, now + delay * Second, config.limits)
                      /\ ~Admits(usage, now + (delay - 1) * Second, config.limits)
      BY DEF RetryAfterHonest
  <2>1. Timed(usage)
      BY FS_Subset DEF IInv, TypeOK, Admission, Timed
  <2>2. config.limits \in Limits
      BY LimiterAssumption DEF IInv, TypeOK, LimitConfig
  <2>3. now \in Int
      BY LimiterAssumption DEF IInv, TypeOK
  <2> QED BY <2>1, <2>2, <2>3, RetryFindsRoom
<1> QED BY <1>1, LimiterInvariant, PTL
=============================================================================
