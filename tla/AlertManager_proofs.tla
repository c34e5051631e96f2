------------------------ MODULE AlertManager_proofs ------------------------
(***************************************************************************)
(* Proofs about AlertManager for any offenders, thresholds and bounds:     *)
(* type correctness, the spacing of alerts, that a burst of failures and a *)
(* new key are alerted, and that a key is announced once.                  *)
(*                                                                         *)
(* The last three need to know that ids only grow, so that checking a row  *)
(* adds nothing to the burst of an earlier one, that the only login of a   *)
(* key not alerted yet is the one in hand, and that the login an alert is  *)
(* about stays in the table until retention takes it.                      *)
(***************************************************************************)
EXTENDS AlertManager, FiniteSetTheorems, SequenceTheorems, TLAPS

RowsOK ==
    /\ IsFiniteSet(rows)
    /\ \A r \in rows : r.id \in 1 .. events /\ r.who \in Offenders(r.type)
    /\ \A r, q \in rows : r.id = q.id => r = q
    /\ \A id \in 1 .. MaxEvents : id > events => checkedAt[id] = NotChecked

AlertedKey(key) ==
    \E i \in DOMAIN alertLog : alertLog[i].key = <<"new_key", key>>

(* A key that has a row is alerted, was caught by a crash, or its one row  *)
(* is in hand.                                                             *)
NewKeyInv ==
    AlertsEnabled /\ AlertOnNewKey =>
        \A r \in rows :
            r.type = "accepted_publickey" /\ r.who # None =>
                \/ AlertedKey(r.who)
                \/ r.who \in unchecked
                \/ /\ pc = "inserted" /\ r.id = events
                   /\ checkedAt[r.id] = NotChecked
                   /\ \A q \in rows :
                        q.type = r.type /\ q.who = r.who => q = r

(* The login a new-key alert is about is there, if all of its key's are.   *)
KeptInv ==
    \A i \in DOMAIN alertLog :
        alertLog[i].key[1] = "new_key" /\ alertLog[i].key[2] \notin forgotten =>
            \E r \in rows : /\ r.type = "accepted_publickey"
                           /\ r.who = alertLog[i].key[2]
                           /\ r.ts = alertLog[i].of

IInv ==
    /\ TypeOK
    /\ RowsOK
    /\ CooldownSpacing
    /\ BruteForceAlerted
    /\ NewKeyInv
    /\ KeptInv
    /\ FirstUseOnlyWhileKept

-----------------------------------------------------------------------------
(* Appending an alert: what the log then holds. *)
LEMMA LogAppend ==
  ASSUME NEW log \in Seq(Alert), NEW a \in Alert
  PROVE  /\ Append(log, a) \in Seq(Alert)
         /\ Len(log) \in Nat
         /\ DOMAIN log = 1 .. Len(log)
         /\ DOMAIN Append(log, a) = 1 .. Len(log) + 1
         /\ \A i \in 1 .. Len(log) : Append(log, a)[i] = log[i]
         /\ Append(log, a)[Len(log) + 1] = a
  OBVIOUS

(* An event that meets a rule names one of the alert keys. *)
LEMMA KeyOfType ==
  ASSUME NEW e, e.who \in Offenders(e.type), BruteForce(e) \/ NewKey(e)
  PROVE  KeyOf(e) \in AlertKeys
<1>1. CASE BruteForce(e)
  BY <1>1, ConfigAssumption
  DEF BruteForce, KeyOf, AlertKeys, Offenders, FailedEventTypes
<1>2. CASE NewKey(e)
  BY <1>2, ConfigAssumption
  DEF NewKey, KeyOf, AlertKeys, Offenders, FailedEventTypes
<1> QED BY <1>1, <1>2

(* A new-key alert is about a login in the table with none before it. *)
AboutFirstUse(a) ==
    a.key[1] = "new_key" =>
        \E r \in rows : /\ r.type = "accepted_publickey"
                       /\ r.who = a.key[2] /\ r.ts = a.of
                       /\ CountAcceptedWithKeyBefore(r.who, r.ts) = 0

(* The two steps that add an alert add one of a key that may fire. *)
LEMMA StepAlert ==
  ASSUME TypeOK, RowsOK, [Next]_vars
  PROVE  \/ UNCHANGED alertLog
         \/ \E a \in Alert : /\ alertLog' = Append(alertLog, a)
                             /\ a.ts = now
                             /\ ShouldFire(a.key)
                             /\ AboutFirstUse(a)
                             /\ UNCHANGED <<rows, forgotten>>
<1> USE ConfigAssumption
<1>1. CASE OnSshEvent
  <2>1. PICK e \in LastRow :
          IF Fires(e) THEN Fire(KeyOf(e), e.ts)
                      ELSE pc' = "idle" /\ UNCHANGED alertLog
    BY <1>1 DEF OnSshEvent
  <2>2. CASE Fires(e)
    <3>1. e \in LoginRow /\ e.who \in Offenders(e.type)
      BY DEF LastRow, TypeOK, RowsOK
    <3>2. KeyOf(e) \in AlertKeys
      BY <2>2, <3>1, KeyOfType DEF Fires
    <3> DEFINE a == [key |-> KeyOf(e), ts |-> now, of |-> e.ts]
    <3>3. a \in Alert
      BY <3>1, <3>2 DEF Alert, LoginRow, TypeOK
    <3>4. alertLog' = Append(alertLog, a) /\ ShouldFire(a.key)
      BY <2>1, <2>2 DEF Fire, Fires
    <3>5. AboutFirstUse(a)
      <4>1. e \in rows
        BY DEF LastRow
      <4> QED BY <2>2, <4>1
          DEF AboutFirstUse, Fires, KeyOf, BruteForce, NewKey, FailedEventTypes
    <3> QED BY <1>1, <3>3, <3>4, <3>5 DEF OnSshEvent
  <2> QED BY <2>1, <2>2
<1>2. ASSUME NEW disk \in Disks, OnMetricsSnapshot(disk)
      PROVE  \E a \in Alert : /\ alertLog' = Append(alertLog, a)
                              /\ a.ts = now
                              /\ ShouldFire(a.key)
                              /\ AboutFirstUse(a)
                              /\ UNCHANGED <<rows, forgotten>>
  <2> DEFINE a == [key |-> <<"disk_usage", disk>>, ts |-> now, of |-> now]
  <2>1. a \in Alert
    BY DEF Alert, AlertKeys, TypeOK
  <2>2. alertLog' = Append(alertLog, a) /\ ShouldFire(a.key)
    BY <1>2 DEF OnMetricsSnapshot, Fire
  <2>3. AboutFirstUse(a)
    BY DEF AboutFirstUse
  <2> QED BY <1>2, <2>1, <2>2, <2>3 DEF OnMetricsSnapshot, history
<1>3. CASE SendEmail \/ CleanupRetention \/ Crash \/ Tick \/ StepBack
  BY <1>3 DEF SendEmail, CleanupRetention, Crash, Tick, StepBack
<1>4. ASSUME NEW type \in EventTypes, NEW who \in Offenders(type),
             NEW ts \in 0 .. now, InsertLoginEvent(type, who, ts)
      PROVE  UNCHANGED alertLog
  BY <1>4 DEF InsertLoginEvent
<1>5. CASE UNCHANGED vars
  BY <1>5 DEF vars
<1> QED BY <1>1, <1>2, <1>3, <1>4, <1>5 DEF Next

-----------------------------------------------------------------------------
(* The inductive invariant holds initially. *)
LEMMA InitInv == Init => IInv
<1> SUFFICES ASSUME Init PROVE IInv
  OBVIOUS
<1>1. IsFiniteSet(rows)
  BY FS_EmptySet DEF Init
<1>2. TypeOK
  BY ConfigAssumption DEF Init, TypeOK
<1>3. RowsOK
  BY <1>1, ConfigAssumption DEF Init, RowsOK
<1>4. CooldownSpacing
  BY DEF Init, CooldownSpacing
<1>5. BruteForceAlerted /\ NewKeyInv /\ KeptInv /\ FirstUseOnlyWhileKept
  BY DEF Init, BruteForceAlerted, Alerted, NewKeyInv, KeptInv,
         FirstUseOnlyWhileKept
<1> QED BY <1>2, <1>3, <1>4, <1>5 DEF IInv

(* Every step keeps the types. *)
LEMMA TypeStep ==
  ASSUME TypeOK, RowsOK, [Next]_vars
  PROVE  TypeOK'
<1>0. alertLog' \in Seq(Alert)
  <2>1. alertLog \in Seq(Alert)
    BY DEF TypeOK
  <2> QED BY <2>1, StepAlert, LogAppend
<1> USE ConfigAssumption DEF TypeOK, history
<1>1. ASSUME NEW type \in EventTypes, NEW who \in Offenders(type),
             NEW ts \in 0 .. now, InsertLoginEvent(type, who, ts)
      PROVE  TypeOK'
  <2>1. [id |-> events + 1, type |-> type, who |-> who, ts |-> ts] \in LoginRow
    BY <1>1 DEF InsertLoginEvent, LoginRow, Offenders
  <2> QED BY <1>0, <1>1, <2>1 DEF InsertLoginEvent
<1>2. CASE OnSshEvent
  <2>1. pc' \in {"idle", "email"}
    BY <1>2 DEF OnSshEvent, Fire
  <2>2. checkedAt' \in [1 .. MaxEvents -> {NotChecked} \cup 0 .. MaxNow]
    BY <1>2 DEF OnSshEvent
  <2> QED BY <1>0, <1>2, <2>1, <2>2 DEF OnSshEvent
<1>3. ASSUME NEW disk \in Disks, OnMetricsSnapshot(disk) PROVE TypeOK'
  BY <1>0, <1>3 DEF OnMetricsSnapshot, Fire
<1>4. CASE SendEmail
  BY <1>4 DEF SendEmail
<1>5. CASE CleanupRetention
  <2>1. rows' \subseteq LoginRow
    BY <1>5 DEF CleanupRetention
  <2>2. forgotten' \subseteq Ips \cup Keys \cup {None}
    BY <1>5 DEF CleanupRetention, LoginRow
  <2> QED BY <1>5, <2>1, <2>2 DEF CleanupRetention
<1>6. CASE Crash
  <2>1. unchecked' \subseteq Ips \cup Keys \cup {None}
    BY <1>6 DEF Crash, LastRow, LoginRow
  <2> QED BY <1>6, <2>1 DEF Crash
<1>7. CASE Tick
  BY <1>7 DEF Tick
<1>8. CASE StepBack
  BY <1>8 DEF StepBack
<1>9. CASE UNCHANGED vars
  BY <1>9 DEF vars
<1> QED BY <1>1, <1>2, <1>3, <1>4, <1>5, <1>6, <1>7, <1>8, <1>9 DEF Next

(* Every step keeps the table's ids unique and within what was inserted. *)
LEMMA RowsStep ==
  ASSUME TypeOK, RowsOK, [Next]_vars
  PROVE  RowsOK'
<1> USE ConfigAssumption DEF RowsOK
<1>1. ASSUME NEW type \in EventTypes, NEW who \in Offenders(type),
             NEW ts \in 0 .. now, InsertLoginEvent(type, who, ts)
      PROVE  RowsOK'
  <2> DEFINE e == [id |-> events + 1, type |-> type, who |-> who, ts |-> ts]
  <2>1. rows' = rows \cup {e} /\ events' = events + 1 /\ events \in Nat
        /\ UNCHANGED checkedAt
    BY <1>1 DEF InsertLoginEvent, TypeOK, history
  <2>2. IsFiniteSet(rows')
    BY <2>1, FS_AddElement
  <2>3. e.id = events + 1 /\ e.type = type /\ e.who = who
    OBVIOUS
  <2> HIDE DEF e
  <2>4. \A r \in rows' : r.id \in 1 .. events' /\ r.who \in Offenders(r.type)
    BY <2>1, <2>3 DEF Offenders
  <2>5. \A r, q \in rows' : r.id = q.id => r = q
    BY <2>1, <2>3
  <2> QED BY <2>1, <2>2, <2>4, <2>5 DEF TypeOK
<1>2. CASE OnSshEvent
  <2>1. UNCHANGED <<rows, events>> /\ events \in 0 .. MaxEvents
    BY <1>2 DEF OnSshEvent, TypeOK
  <2>2. \A id \in 1 .. MaxEvents : id > events => checkedAt'[id] = NotChecked
    BY <1>2, <2>1 DEF OnSshEvent, TypeOK
  <2> QED BY <2>1, <2>2 DEF Offenders
<1>3. CASE CleanupRetention
  <2>1. rows' \subseteq rows /\ UNCHANGED <<events, checkedAt>>
    BY <1>3 DEF CleanupRetention, history
  <2>2. IsFiniteSet(rows')
    BY <2>1, FS_Subset
  <2> QED BY <2>1, <2>2 DEF Offenders
<1>4. ASSUME NEW disk \in Disks, OnMetricsSnapshot(disk) PROVE RowsOK'
  BY <1>4 DEF OnMetricsSnapshot, history, Offenders
<1>5. CASE SendEmail \/ Crash \/ Tick \/ StepBack \/ UNCHANGED vars
  <2>1. UNCHANGED <<rows, events, checkedAt>>
    BY <1>5 DEF SendEmail, Crash, Tick, StepBack, history, vars
  <2> QED BY <2>1 DEF Offenders
<1> QED BY <1>1, <1>2, <1>3, <1>4, <1>5 DEF Next

-----------------------------------------------------------------------------
(* A new alert is the cooldown later than every alert of its key. *)
LEMMA CooldownStep ==
  ASSUME TypeOK, RowsOK, CooldownSpacing, [Next]_vars
  PROVE  CooldownSpacing'
<1>1. CASE UNCHANGED alertLog
  BY <1>1 DEF CooldownSpacing
<1>2. ASSUME NEW a \in Alert, alertLog' = Append(alertLog, a), a.ts = now,
             ShouldFire(a.key)
      PROVE  CooldownSpacing'
  <2>1. alertLog \in Seq(Alert) /\ now \in Nat
    BY DEF TypeOK
  <2> SUFFICES ASSUME NEW i \in DOMAIN alertLog', NEW j \in DOMAIN alertLog',
                      i < j, alertLog'[i].key = alertLog'[j].key
               PROVE  alertLog'[j].ts >= alertLog'[i].ts + Cooldown
    BY DEF CooldownSpacing
  <2>2. i \in DOMAIN alertLog /\ alertLog'[i] = alertLog[i]
    BY <1>2, <2>1, LogAppend
  <2>3. CASE j \in DOMAIN alertLog
    BY <1>2, <2>1, <2>2, <2>3, LogAppend DEF CooldownSpacing
  <2>4. CASE j = Len(alertLog) + 1
    <3>1. alertLog'[j] = a
      BY <1>2, <2>1, <2>4, LogAppend
    <3>2. alertLog[i].ts \in Nat
      <4>1. alertLog[i] \in Alert
        BY <2>1, <2>2
      <4> QED BY <4>1, ConfigAssumption DEF Alert
    <3> QED BY <1>2, <2>1, <2>2, <3>1, <3>2, ConfigAssumption DEF ShouldFire
  <2> QED BY <1>2, <2>1, <2>3, <2>4, LogAppend
<1> QED BY <1>1, <1>2, StepAlert

(* No step takes an alert out of the log. *)
LEMMA AlertsStay ==
  ASSUME TypeOK, RowsOK, [Next]_vars
  PROVE  \A i \in DOMAIN alertLog :
            i \in DOMAIN alertLog' /\ alertLog'[i] = alertLog[i]
<1>1. alertLog \in Seq(Alert)
  BY DEF TypeOK
<1> QED BY <1>1, StepAlert, LogAppend

(* A check that finds a rule met leaves an alert of its key in force. *)
LEMMA CheckAlerts ==
  ASSUME TypeOK, RowsOK, NEW e \in rows, AlertsEnabled,
         BruteForce(e) \/ NewKey(e),
         IF Fires(e) THEN Fire(KeyOf(e), e.ts)
                     ELSE pc' = "idle" /\ UNCHANGED alertLog
  PROVE  \E i \in DOMAIN alertLog' :
            /\ alertLog'[i].key = KeyOf(e)
            /\ alertLog'[i].ts = now \/ alertLog'[i].ts + Cooldown > now
<1>1. now \in 0 .. MaxNow /\ now \in Nat /\ alertLog \in Seq(Alert)
      /\ Cooldown \in Nat
  BY ConfigAssumption DEF TypeOK
<1>2. CASE ~ShouldFire(KeyOf(e))
  <2>1. PICK i \in DOMAIN alertLog :
          alertLog[i].key = KeyOf(e) /\ ~(now - alertLog[i].ts >= Cooldown)
    BY <1>2 DEF ShouldFire
  <2>2. alertLog[i].ts \in Nat
    <3>1. alertLog[i] \in Alert
      BY <1>1
    <3> QED BY <3>1, ConfigAssumption DEF Alert
  <2>3. alertLog[i].ts + Cooldown > now
    BY <1>1, <2>1, <2>2
  <2> QED BY <1>2, <2>1, <2>3 DEF Fires
<1>3. CASE ShouldFire(KeyOf(e))
  <2> DEFINE a == [key |-> KeyOf(e), ts |-> now, of |-> e.ts]
  <2>1. alertLog' = Append(alertLog, a)
    BY <1>3 DEF Fires, Fire
  <2>2. a \in Alert
    BY <1>1, KeyOfType DEF Alert, RowsOK, TypeOK, LoginRow
  <2>3. a.key = KeyOf(e) /\ a.ts = now
    OBVIOUS
  <2> HIDE DEF a
  <2>4. Len(alertLog) + 1 \in DOMAIN alertLog' /\ alertLog'[Len(alertLog) + 1] = a
    BY <1>1, <2>1, <2>2, LogAppend
  <2> QED BY <2>3, <2>4
<1> QED BY <1>2, <1>3

-----------------------------------------------------------------------------
(* A burst of failures that a check completes is alerted.  Ids grow, so a  *)
(* step changes no burst of a row that was there, except that retention    *)
(* may take rows from it.                                                  *)
LEMMA BurstStep ==
  ASSUME TypeOK, RowsOK, BruteForceAlerted, [Next]_vars
  PROVE  BruteForceAlerted'
<1> SUFFICES ASSUME AlertsEnabled, NEW r \in rows', NEW w \in 0 .. MaxNow,
                    checkedAt'[r.id] # NotChecked, r.who # None,
                    r \in Burst(CountedTypes, r, w)',
                    Cardinality(Burst(CountedTypes, r, w)') >= Threshold
             PROVE  InForce(<<"failed_login", r.who>>, checkedAt[r.id])'
  BY DEF BruteForceAlerted, Alerted
<1> USE ConfigAssumption
<1> DEFINE B == Burst(CountedTypes, r, w)
(* The burst was there before, and so was its alert. *)
<1>1. ASSUME r \in rows, B' \subseteq B, checkedAt'[r.id] = checkedAt[r.id]
      PROVE  InForce(<<"failed_login", r.who>>, checkedAt[r.id])'
  <2>1. IsFiniteSet(B)
    BY FS_Subset DEF RowsOK, Burst
  <2>2. Cardinality(B') <= Cardinality(B) /\ Cardinality(B) \in Nat
        /\ Cardinality(B') \in Nat
    BY <1>1, <2>1, FS_Subset, FS_CardinalityType
  <2>3. Cardinality(B) >= Threshold /\ r \in B
    BY <1>1, <2>2
  <2>4. InForce(<<"failed_login", r.who>>, checkedAt[r.id])
    BY <1>1, <2>3 DEF BruteForceAlerted, Alerted
  <2> QED BY <1>1, <2>4, AlertsStay DEF InForce
<1>2. ASSUME NEW type \in EventTypes, NEW who \in Offenders(type),
             NEW ts \in 0 .. now, InsertLoginEvent(type, who, ts)
      PROVE  r \in rows /\ B' \subseteq B /\ checkedAt'[r.id] = checkedAt[r.id]
  <2> DEFINE e == [id |-> events + 1, type |-> type, who |-> who, ts |-> ts]
  <2>1. /\ rows' = rows \cup {e} /\ e.id = events + 1 /\ events + 1 \in 1 .. MaxEvents
        /\ UNCHANGED checkedAt
    BY <1>2 DEF InsertLoginEvent, TypeOK, history
  <2> HIDE DEF e
  <2>2. r # e
    BY <2>1 DEF RowsOK, TypeOK
  <2>3. r \in rows /\ r.id \in 1 .. events
    BY <2>1, <2>2 DEF RowsOK
  <2> QED BY <2>1, <2>3 DEF Burst, TypeOK
<1>3. CASE CleanupRetention
  <2>1. rows' \subseteq rows /\ UNCHANGED checkedAt
    BY <1>3 DEF CleanupRetention, history
  <2> QED BY <1>1, <2>1 DEF Burst
<1>4. CASE \/ \E disk \in Disks : OnMetricsSnapshot(disk)
           \/ SendEmail \/ Crash \/ Tick \/ StepBack \/ UNCHANGED vars
  <2>1. UNCHANGED <<rows, checkedAt>>
    BY <1>4
    DEF OnMetricsSnapshot, SendEmail, Crash, Tick, StepBack, history, vars
  <2> QED BY <1>1, <2>1 DEF Burst
<1>5. CASE OnSshEvent
  <2>1. UNCHANGED <<rows, events, now>> /\ B' = B
    BY <1>5 DEF OnSshEvent, Burst
  <2>2. CASE r.id # events
    <3>1. checkedAt'[r.id] = checkedAt[r.id]
      BY <1>5, <2>1, <2>2 DEF OnSshEvent, TypeOK, RowsOK
    <3> QED BY <1>1, <2>1, <3>1
  <2>3. CASE r.id = events
    <3>1. PICK e \in LastRow :
            IF Fires(e) THEN Fire(KeyOf(e), e.ts)
                        ELSE pc' = "idle" /\ UNCHANGED alertLog
      BY <1>5 DEF OnSshEvent
    <3>2. e = r /\ e \in rows
      BY <2>1, <2>3 DEF LastRow, RowsOK
    <3>3. r.type \in CountedTypes /\ r.ts \in w .. w + Window /\ r.ts \in Nat
      BY <2>1 DEF Burst, TypeOK, LoginRow
    <3> DEFINE S == {q \in rows : /\ q.who = r.who
                                  /\ q.ts >= r.ts - Window
                                  /\ q.type \in CountedTypes}
    <3>4. B \subseteq S
      BY <3>3 DEF Burst, TypeOK, LoginRow
    <3>5. IsFiniteSet(S)
      BY FS_Subset DEF RowsOK
    <3>6. Cardinality(S) >= Threshold
      BY <2>1, <3>4, <3>5, FS_Subset, FS_CardinalityType
    <3>7. BruteForce(r)
      BY <3>3, <3>6
      DEF BruteForce, CountFailedLoginsSince, CountedTypes, FailedEventTypes
    <3>8. KeyOf(r) = <<"failed_login", r.who>>
      BY <3>3 DEF KeyOf, CountedTypes, FailedEventTypes
    <3>9. checkedAt'[r.id] = now
      BY <1>5, <2>1, <2>3 DEF OnSshEvent, TypeOK, RowsOK
    <3>10. \E i \in DOMAIN alertLog' :
              /\ alertLog'[i].key = KeyOf(r)
              /\ alertLog'[i].ts = now \/ alertLog'[i].ts + Cooldown > now
      BY <3>1, <3>2, <3>7, CheckAlerts
    <3> QED BY <3>8, <3>9, <3>10 DEF InForce
  <2> QED BY <2>2, <2>3
<1> QED BY <1>1, <1>2, <1>3, <1>4, <1>5 DEF Next

-----------------------------------------------------------------------------
(* The only login of a key that is neither alerted nor caught by a crash   *)
(* is the one in hand; checking it alerts the key.                         *)
LEMMA NewKeyStep ==
  ASSUME TypeOK, RowsOK, NewKeyInv, [Next]_vars
  PROVE  NewKeyInv'
<1> USE ConfigAssumption
<1> SUFFICES ASSUME AlertsEnabled, AlertOnNewKey, NEW r \in rows',
                    r.type = "accepted_publickey", r.who # None
             PROVE  \/ AlertedKey(r.who)'
                    \/ r.who \in unchecked'
                    \/ /\ pc' = "inserted" /\ r.id = events'
                       /\ checkedAt'[r.id] = NotChecked
                       /\ \A q \in rows' :
                            q.type = r.type /\ q.who = r.who => q = r
  BY DEF NewKeyInv
<1> DEFINE Sole == /\ pc = "inserted" /\ r.id = events
                   /\ checkedAt[r.id] = NotChecked
                   /\ \A q \in rows : q.type = r.type /\ q.who = r.who => q = r
<1>1. AlertedKey(r.who) => AlertedKey(r.who)'
  BY AlertsStay DEF AlertedKey
<1>2. r.who \in unchecked => r.who \in unchecked'
  BY DEF Next, InsertLoginEvent, OnSshEvent, OnMetricsSnapshot, SendEmail,
         CleanupRetention, Crash, Tick, StepBack, history, vars
<1>3. r \in rows => AlertedKey(r.who) \/ r.who \in unchecked \/ Sole
  BY DEF NewKeyInv
<1>4. ASSUME NEW type \in EventTypes, NEW who \in Offenders(type),
             NEW ts \in 0 .. now, InsertLoginEvent(type, who, ts),
             ~AlertedKey(r.who), r.who \notin unchecked
      PROVE  Sole'
  <2> DEFINE e == [id |-> events + 1, type |-> type, who |-> who, ts |-> ts]
  <2>1. /\ rows' = rows \cup {e} /\ e.id = events + 1
        /\ events' = events + 1 /\ events + 1 \in 1 .. MaxEvents
        /\ pc = "idle" /\ pc' = "inserted" /\ UNCHANGED checkedAt
    BY <1>4 DEF InsertLoginEvent, TypeOK, history
  <2> HIDE DEF e
  <2>2. r = e
    BY <1>3, <1>4, <2>1
  <2>3. \A q \in rows : q.type = "accepted_publickey" => q.who # r.who
    BY <1>4, <2>1 DEF NewKeyInv
  <2>4. checkedAt[r.id] = NotChecked
    BY <2>1, <2>2 DEF RowsOK, TypeOK
  <2> QED BY <2>1, <2>2, <2>3, <2>4
<1>5. ASSUME OnSshEvent, Sole, r \in rows PROVE AlertedKey(r.who)'
  <2>1. PICK e \in LastRow :
          IF Fires(e) THEN Fire(KeyOf(e), e.ts)
                      ELSE pc' = "idle" /\ UNCHANGED alertLog
    BY <1>5 DEF OnSshEvent
  <2>2. e = r /\ e \in rows
    BY <1>5 DEF LastRow, RowsOK
  <2> DEFINE S == {q \in rows : /\ q.who = r.who
                                /\ q.type = "accepted_publickey"
                                /\ q.ts < r.ts}
  <2>3. S = {}
    <3>1. r.ts \in Nat
      BY <2>2 DEF TypeOK, LoginRow
    <3> QED BY <1>5, <3>1
  <2>4. CountAcceptedWithKeyBefore(r.who, r.ts) = 0
    BY <2>3, FS_EmptySet DEF CountAcceptedWithKeyBefore
  <2>5. NewKey(r)
    BY <2>4 DEF NewKey
  <2>6. KeyOf(r) = <<"new_key", r.who>>
    BY DEF KeyOf, FailedEventTypes
  <2>7. \E i \in DOMAIN alertLog' : alertLog'[i].key = KeyOf(r)
    BY <2>1, <2>2, <2>5, CheckAlerts
  <2> QED BY <2>6, <2>7 DEF AlertedKey
<1>6. CASE OnSshEvent
  BY <1>1, <1>2, <1>3, <1>5, <1>6 DEF OnSshEvent
<1>7. CASE CleanupRetention
  BY <1>1, <1>2, <1>3, <1>7 DEF CleanupRetention
<1>8. CASE Crash
  <2>1. r \in rows /\ (pc = "inserted" /\ r.id = events => r.who \in unchecked')
    BY <1>8 DEF Crash, LastRow
  <2> QED BY <1>1, <1>2, <1>3, <2>1
<1>9. CASE SendEmail \/ \E disk \in Disks : OnMetricsSnapshot(disk)
  <2>1. pc # "inserted" /\ UNCHANGED rows
    BY <1>9 DEF SendEmail, OnMetricsSnapshot
  <2> QED BY <1>1, <1>2, <1>3, <2>1
<1>10. CASE Tick \/ StepBack \/ UNCHANGED vars
  <2>1. UNCHANGED <<pc, rows, events, checkedAt>>
    BY <1>10 DEF Tick, StepBack, history, vars
  <2> QED BY <1>1, <1>2, <1>3, <2>1
<1> QED
  BY <1>1, <1>2, <1>4, <1>6, <1>7, <1>8, <1>9, <1>10 DEF Next

-----------------------------------------------------------------------------
(* Only retention takes a login out of the table, and it remembers whose. *)
LEMMA RowsStay ==
  ASSUME TypeOK, [Next]_vars, NEW r \in rows, r.who \notin forgotten'
  PROVE  r \in rows'
<1>1. CASE CleanupRetention
  BY <1>1 DEF CleanupRetention
<1>2. CASE ~CleanupRetention
  BY <1>2 DEF Next, InsertLoginEvent, OnSshEvent, OnMetricsSnapshot, SendEmail,
              Crash, Tick, StepBack, vars
<1> QED BY <1>1, <1>2

(* What retention deleted a login of is never taken back. *)
LEMMA ForgottenGrows ==
  ASSUME [Next]_vars
  PROVE  forgotten \subseteq forgotten'
BY DEF Next, InsertLoginEvent, OnSshEvent, OnMetricsSnapshot, SendEmail,
       CleanupRetention, Crash, Tick, StepBack, history, vars

(* The login an alert is about stays while none of its key's is deleted.   *)
LEMMA KeptStep ==
  ASSUME TypeOK, RowsOK, KeptInv, [Next]_vars
  PROVE  KeptInv'
<1> SUFFICES ASSUME NEW i \in DOMAIN alertLog',
                    alertLog'[i].key[1] = "new_key",
                    alertLog'[i].key[2] \notin forgotten'
             PROVE  \E r \in rows' : /\ r.type = "accepted_publickey"
                                    /\ r.who = alertLog'[i].key[2]
                                    /\ r.ts = alertLog'[i].of
  BY DEF KeptInv
<1>1. ASSUME i \in DOMAIN alertLog, alertLog'[i] = alertLog[i]
      PROVE  \E r \in rows : /\ r.type = "accepted_publickey"
                            /\ r.who = alertLog'[i].key[2]
                            /\ r.ts = alertLog'[i].of
  BY <1>1, ForgottenGrows DEF KeptInv
<1>2. CASE UNCHANGED alertLog
  BY <1>1, <1>2, RowsStay
<1>3. ASSUME NEW a \in Alert, alertLog' = Append(alertLog, a),
             AboutFirstUse(a), UNCHANGED <<rows, forgotten>>
      PROVE  \E r \in rows' : /\ r.type = "accepted_publickey"
                             /\ r.who = alertLog'[i].key[2]
                             /\ r.ts = alertLog'[i].of
  <2>1. alertLog \in Seq(Alert)
    BY DEF TypeOK
  <2>2. \/ i \in DOMAIN alertLog /\ alertLog'[i] = alertLog[i]
        \/ alertLog'[i] = a
    BY <1>3, <2>1, LogAppend
  <2> QED BY <1>1, <1>3, <2>2 DEF AboutFirstUse
<1> QED BY <1>2, <1>3, StepAlert

(* A second alert of a key is about a login no later than the first's,     *)
(* which is still in the table and would otherwise have been counted.      *)
LEMMA FirstUseStep ==
  ASSUME TypeOK, RowsOK, KeptInv, FirstUseOnlyWhileKept, [Next]_vars
  PROVE  FirstUseOnlyWhileKept'
<1>1. CASE UNCHANGED alertLog
  BY <1>1, ForgottenGrows DEF FirstUseOnlyWhileKept, SecondIsOlder
<1>2. ASSUME NEW a \in Alert, alertLog' = Append(alertLog, a),
             AboutFirstUse(a), UNCHANGED <<rows, forgotten>>
      PROVE  FirstUseOnlyWhileKept'
  <2>1. alertLog \in Seq(Alert)
    BY DEF TypeOK
  <2> SUFFICES ASSUME NEW i \in DOMAIN alertLog', NEW j \in DOMAIN alertLog',
                      alertLog'[j].key[2] \notin forgotten, i < j,
                      alertLog'[i].key = alertLog'[j].key,
                      alertLog'[i].key[1] = "new_key"
               PROVE  alertLog'[j].of <= alertLog'[i].of
    BY <1>2 DEF FirstUseOnlyWhileKept, SecondIsOlder
  <2>2. i \in DOMAIN alertLog /\ alertLog'[i] = alertLog[i]
    BY <1>2, <2>1, LogAppend
  <2>3. CASE j \in DOMAIN alertLog
    <3>1. alertLog'[j] = alertLog[j]
      BY <1>2, <2>1, <2>3, LogAppend
    <3> QED BY <2>2, <2>3, <3>1 DEF FirstUseOnlyWhileKept, SecondIsOlder
  <2>4. CASE j = Len(alertLog) + 1
    <3>1. alertLog'[j] = a
      BY <1>2, <2>1, <2>4, LogAppend
    <3>2. PICK r \in rows : /\ r.type = "accepted_publickey"
                            /\ r.who = a.key[2] /\ r.ts = a.of
                            /\ CountAcceptedWithKeyBefore(r.who, r.ts) = 0
      BY <1>2, <2>2, <3>1 DEF AboutFirstUse
    <3>3. PICK q \in rows : /\ q.type = "accepted_publickey"
                            /\ q.who = a.key[2]
                            /\ q.ts = alertLog[i].of
      BY <2>2, <3>1 DEF KeptInv
    <3> DEFINE S == {x \in rows : /\ x.who = r.who
                                  /\ x.type = "accepted_publickey"
                                  /\ x.ts < r.ts}
    <3>4. IsFiniteSet(S) /\ Cardinality(S) = 0
      BY <3>2, FS_Subset DEF RowsOK, CountAcceptedWithKeyBefore
    <3>5. S = {}
      BY <3>4, FS_EmptySet
    <3>6. ~(q.ts < r.ts)
      BY <3>2, <3>3, <3>5
    <3>7. q.ts \in Nat /\ r.ts \in Nat
      BY DEF TypeOK, LoginRow
    <3> QED BY <2>2, <3>1, <3>2, <3>3, <3>6, <3>7
  <2> QED BY <1>2, <2>1, <2>3, <2>4, LogAppend
<1> QED BY <1>1, <1>2, StepAlert

-----------------------------------------------------------------------------
(* The inductive invariant holds in every reachable state. *)
LEMMA Invariance == Spec => []IInv
<1>1. IInv /\ [Next]_vars => IInv'
  BY TypeStep, RowsStep, CooldownStep, BurstStep, NewKeyStep, KeptStep,
     FirstUseStep DEF IInv
<1> QED BY InitInv, <1>1, PTL DEF Spec

(* Every variable keeps its type. *)
THEOREM TypeCorrect == Spec => []TypeOK
<1>1. IInv => TypeOK
  BY DEF IInv
<1> QED BY Invariance, <1>1, PTL

(* No two alerts of one offender are closer than the cooldown, whatever    *)
(* the clock does and however often the daemon restarts.                   *)
THEOREM CooldownHolds == Spec => []CooldownSpacing
<1>1. IInv => CooldownSpacing
  BY DEF IInv
<1> QED BY Invariance, <1>1, PTL

(* A burst of counted failures is alerted, for every threshold and window. *)
THEOREM BurstsAreAlerted == Spec => []BruteForceAlerted
<1>1. IInv => BruteForceAlerted
  BY DEF IInv
<1> QED BY Invariance, <1>1, PTL

(* A key that was used is alerted unless a crash caught its first login. *)
THEOREM NewKeysAreAlerted == Spec => []NewKeyAlerted
<1>1. IInv => NewKeyAlerted
  BY DEF IInv, NewKeyInv, NewKeyAlerted, AlertedKey
<1> QED BY Invariance, <1>1, PTL

(* A key is announced as never used before once, of its logins in order of *)
(* time, until retention deletes one of them.                              *)
THEOREM KeysAreNewOnce == Spec => []FirstUseOnlyWhileKept
<1>1. IInv => FirstUseOnlyWhileKept
  BY DEF IInv
<1> QED BY Invariance, <1>1, PTL

=============================================================================
