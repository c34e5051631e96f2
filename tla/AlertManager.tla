---------------------------- MODULE AlertManager ----------------------------
(***************************************************************************)
(* The alert rules of omnia-daemon over the tables they read: login_events *)
(* with its retention, and alert_log, which the cooldown is kept in.       *)
(*                                                                         *)
(* The rules run synchronously on the event loop, in the ingest (a login   *)
(* event) or in the metrics loop (a disk): nothing interleaves with them   *)
(* but the clock and a crash.  Time is the wall clock in whole units; it   *)
(* may be stepped back.  time.time() of _should_fire and of _fire are read *)
(* as one.                                                                 *)
(***************************************************************************)
EXTENDS Integers, Sequences, FiniteSets

CONSTANTS
    Ips, Keys, Disks,   \* offenders: source addresses, key fingerprints, mounts
    None,               \* the event has no source_ip, or no key_fingerprint
    EventTypes,         \* the event types the log is made of
    Threshold,          \* failed_login_threshold
    Window,             \* failed_login_window_minutes
    Cooldown,           \* cooldown_minutes
    Retention,          \* login_event_days
    AlertsEnabled,      \* [alerts].enabled
    AlertOnNewKey,      \* [alerts].alert_on_new_key
    MaxNow,             \* bound: the wall clock
    MaxEvents,          \* bound: login events ever inserted
    MaxSteps,           \* bound: times the clock is stepped back
    MaxCrashes          \* bound: crashes of the daemon

ASSUME ConfigAssumption ==
    /\ None \notin Ips \cup Keys
    /\ Threshold \in Nat /\ Window \in Nat
    /\ Cooldown \in Nat /\ Retention \in Nat
    /\ AlertsEnabled \in BOOLEAN /\ AlertOnNewKey \in BOOLEAN
    /\ MaxNow \in Nat /\ MaxEvents \in Nat
    /\ MaxSteps \in Nat /\ MaxCrashes \in Nat

(* _FAILED_EVENT_TYPES, and the types count_failed_logins_since counts. *)
FailedEventTypes == {"failed_publickey", "invalid_user", "failed_other"}
CountedTypes == {"failed_publickey", "invalid_user"}

Offenders(type) ==
    IF type = "accepted_publickey" THEN Keys \cup {None} ELSE Ips \cup {None}

AlertKeys ==
    ({"failed_login"} \X Ips) \cup ({"new_key"} \X Keys)
        \cup ({"disk_usage"} \X Disks)

NotChecked == -1

VARIABLES
    now,        \* the wall clock
    rows,       \* login_events
    alertLog,   \* alert_log; of: the time of the event the alert is about
    pc,         \* "idle"; "inserted", on_ssh_event comes next; "email"
    events,     \* rows ever inserted, and the id of the last one
    steps, crashes,     \* history: how many there were
    checkedAt,  \* history: when on_ssh_event checked each row
    unchecked,  \* history: the offenders whose row a crash left unchecked
    forgotten   \* history: the offenders retention has deleted a row of

vars == <<now, rows, alertLog, pc, events, steps, crashes,
          checkedAt, unchecked, forgotten>>

history == <<checkedAt, unchecked, forgotten>>

LastRow == {r \in rows : r.id = events}

Init ==
    /\ now = 0
    /\ rows = {}
    /\ alertLog = <<>>
    /\ pc = "idle"
    /\ events = 0 /\ steps = 0 /\ crashes = 0
    /\ checkedAt = [id \in 1 .. MaxEvents |-> NotChecked]
    /\ unchecked = {}
    /\ forgotten = {}

-----------------------------------------------------------------------------
(* Plausible bugs, one for each property the runs check: none is in Next.  *)

(* ORDER BY ts ASC: the oldest alert decides. *)
ShouldFireByOldest(key) ==
    \A i \in DOMAIN alertLog :
        /\ alertLog[i].key = key
        /\ \A j \in DOMAIN alertLog :
              alertLog[j].key = key => alertLog[i].ts <= alertLog[j].ts
        => now - alertLog[i].ts >= Cooldown

(* The window hangs off the wall clock instead of the event. *)
CountFailedLoginsRecently(ip, since) ==
    Cardinality({r \in rows :
        /\ r.who = ip
        /\ r.ts >= now - Window
        /\ r.type \in CountedTypes})

(* ts <= ?: the row that triggered the check is its own predecessor. *)
CountAcceptedWithKeyUpTo(key, before) ==
    Cardinality({r \in rows :
        /\ r.who = key
        /\ r.type = "accepted_publickey"
        /\ r.ts <= before})

(* Only the rows of one window before the event are looked at. *)
CountAcceptedWithKeyLately(key, before) ==
    Cardinality({r \in rows :
        /\ r.who = key
        /\ r.type = "accepted_publickey"
        /\ r.ts < before /\ r.ts >= before - Window})

-----------------------------------------------------------------------------
(* The queries.                                                            *)

(* There is no upper bound: a row later than the event counts too. *)
CountFailedLoginsSince(ip, since) ==
    Cardinality({r \in rows :
        /\ r.who = ip
        /\ r.ts >= since
        /\ r.type \in CountedTypes})

CountAcceptedWithKeyBefore(key, before) ==
    Cardinality({r \in rows :
        /\ r.who = key
        /\ r.type = "accepted_publickey"
        /\ r.ts < before})

(* The newest alert of the key, if any, is at least Cooldown old. *)
ShouldFire(key) ==
    \A i \in DOMAIN alertLog :
        alertLog[i].key = key => now - alertLog[i].ts >= Cooldown

(* The alert key an event asks for, if any. *)
BruteForce(e) ==
    /\ e.type \in FailedEventTypes
    /\ e.who # None
    /\ CountFailedLoginsSince(e.who, e.ts - Window) >= Threshold

(* Another plausible bug: a login without a fingerprint counts as one with *)
(* a new key.                                                              *)
NewKeyOfAny(e) ==
    /\ e.type = "accepted_publickey"
    /\ AlertOnNewKey
    /\ CountAcceptedWithKeyBefore(e.who, e.ts) = 0

NewKey(e) ==
    /\ e.type = "accepted_publickey"
    /\ AlertOnNewKey
    /\ e.who # None
    /\ CountAcceptedWithKeyBefore(e.who, e.ts) = 0

KeyOf(e) == <<IF e.type \in FailedEventTypes THEN "failed_login" ELSE "new_key",
              e.who>>

Fires(e) ==
    /\ AlertsEnabled
    /\ BruteForce(e) \/ NewKey(e)
    /\ ShouldFire(KeyOf(e))

-----------------------------------------------------------------------------
(* The daemon.                                                             *)

(* insert_login_event, by the ingest.  A backlog or a stepped clock dates  *)
(* an event anywhere up to now.                                            *)
InsertLoginEvent(type, who, ts) ==
    /\ pc = "idle"
    /\ events < MaxEvents
    /\ events' = events + 1
    /\ ts <= now
    /\ rows' = rows \cup {[id |-> events + 1, type |-> type, who |-> who,
                           ts |-> ts]}
    /\ pc' = "inserted"
    /\ UNCHANGED <<now, alertLog, steps, crashes, history>>

(* _fire: the alert is in the log before its email is tried. *)
Fire(key, of) ==
    /\ alertLog' = Append(alertLog, [key |-> key, ts |-> now, of |-> of])
    /\ pc' = "email"

OnSshEvent ==
    /\ pc = "inserted"
    /\ \E e \in LastRow :
          IF Fires(e) THEN Fire(KeyOf(e), e.ts)
                      ELSE pc' = "idle" /\ UNCHANGED alertLog
    /\ checkedAt' = [checkedAt EXCEPT ![events] = now]
    /\ UNCHANGED <<now, rows, events, steps, crashes, unchecked, forgotten>>

(* One disk above its threshold, in on_metrics_snapshot. *)
OnMetricsSnapshot(disk) ==
    /\ pc = "idle"
    /\ AlertsEnabled
    /\ ShouldFire(<<"disk_usage", disk>>)
    /\ Fire(<<"disk_usage", disk>>, now)
    /\ UNCHANGED <<now, rows, events, steps, crashes, history>>

(* _send_email returns whatever SMTP did; the daemon does nothing else     *)
(* until it has.                                                           *)
SendEmail ==
    /\ pc = "email"
    /\ pc' = "idle"
    /\ UNCHANGED <<now, rows, alertLog, events, steps, crashes, history>>

(* cleanup_retention: rows by age; alert_log keeps everything. *)
CleanupRetention ==
    /\ pc = "idle"
    /\ rows' = {r \in rows : r.ts >= now - Retention}
    /\ forgotten' = forgotten \cup {r.who : r \in rows \ rows'}
    /\ UNCHANGED <<now, alertLog, pc, events, steps, crashes,
                   checkedAt, unchecked>>

(* The process dies and systemd starts it again; both tables are on disk. *)
Crash ==
    /\ crashes < MaxCrashes
    /\ crashes' = crashes + 1
    /\ pc' = "idle"
    /\ unchecked' = IF pc = "inserted"
                       THEN unchecked \cup {r.who : r \in LastRow}
                       ELSE unchecked
    /\ UNCHANGED <<now, rows, alertLog, events, steps, checkedAt, forgotten>>

(* The wall clock (external). *)
Tick ==
    /\ now < MaxNow
    /\ now' = now + 1
    /\ UNCHANGED <<rows, alertLog, pc, events, steps, crashes, history>>

StepBack ==
    /\ steps < MaxSteps
    /\ steps' = steps + 1
    /\ now' \in 0 .. now - 1
    /\ UNCHANGED <<rows, alertLog, pc, events, crashes, history>>

Next ==
    \/ \E type \in EventTypes : \E who \in Offenders(type), ts \in 0 .. now :
          InsertLoginEvent(type, who, ts)
    \/ OnSshEvent
    \/ \E disk \in Disks : OnMetricsSnapshot(disk)
    \/ SendEmail
    \/ CleanupRetention
    \/ Crash
    \/ Tick
    \/ StepBack

Spec == Init /\ [][Next]_vars

-----------------------------------------------------------------------------
LoginRow == [id : 1 .. MaxEvents, type : EventTypes, who : Ips \cup Keys \cup {None},
             ts : 0 .. MaxNow]

Alert == [key : AlertKeys, ts : 0 .. MaxNow, of : 0 .. MaxNow]

(* The type invariant: every variable has the shape its comment gives it.  *)
TypeOK ==
    /\ now \in 0 .. MaxNow
    /\ rows \subseteq LoginRow
    /\ alertLog \in Seq(Alert)
    /\ pc \in {"idle", "inserted", "email"}
    /\ events \in 0 .. MaxEvents
    /\ steps \in 0 .. MaxSteps
    /\ crashes \in 0 .. MaxCrashes
    /\ checkedAt \in [1 .. MaxEvents -> {NotChecked} \cup 0 .. MaxNow]
    /\ unchecked \subseteq Ips \cup Keys \cup {None}
    /\ forgotten \subseteq Ips \cup Keys \cup {None}

(* Each alert of a key is dated at least the cooldown after every earlier  *)
(* one of that key, through restarts and whatever the clock does           *)
(* (config.example.toml, cooldown_minutes; _should_fire).                  *)
CooldownSpacing ==
    \A i, j \in DOMAIN alertLog :
        i < j /\ alertLog[i].key = alertLog[j].key
            => alertLog[j].ts >= alertLog[i].ts + Cooldown

(* The failures of r's address up to r, in the window that begins at w. *)
Burst(types, r, w) ==
    {q \in rows :
        /\ q.type \in types
        /\ q.who = r.who
        /\ q.id <= r.id
        /\ q.ts \in w .. w + Window}

(* An alert of the key was in force at the time t. *)
InForce(key, t) ==
    \E i \in DOMAIN alertLog :
        /\ alertLog[i].key = key
        /\ alertLog[i].ts = t \/ alertLog[i].ts + Cooldown > t

Alerted(types) ==
    AlertsEnabled =>
        \A r \in rows, w \in 0 .. MaxNow :
            /\ checkedAt[r.id] # NotChecked
            /\ r.who # None
            /\ r \in Burst(types, r, w)
            /\ Cardinality(Burst(types, r, w)) >= Threshold
            => InForce(<<"failed_login", r.who>>, checkedAt[r.id])

(* A failed login that makes Threshold of its address within one window of *)
(* their own timestamps raises that address's own alert when it is         *)
(* checked, or finds it cooling down: however late the logins were read,   *)
(* in whatever order, across a crash, and whichever other offender was     *)
(* alerted meanwhile (_check_failed_login and its comment on backlogs).    *)
BruteForceAlerted == Alerted(CountedTypes)

(* The same of every type _FAILED_EVENT_TYPES names. *)
FailuresAlerted == Alerted(FailedEventTypes)

(* A second "key never used before" alert can only be about a login dated  *)
(* no later than the one that raised the first (_check_new_key;            *)
(* count_accepted_with_key_before: "first time this key was ever used").   *)
SecondIsOlder(i, j) ==
    /\ i < j
    /\ alertLog[i].key = alertLog[j].key
    /\ alertLog[i].key[1] = "new_key"
    => alertLog[j].of <= alertLog[i].of

(* Retention may delete what the count goes by: the keys it has taken no   *)
(* login of.                                                               *)
FirstUseOnlyWhileKept ==
    \A i, j \in DOMAIN alertLog :
        alertLog[j].key[2] \notin forgotten => SecondIsOlder(i, j)

(* A key whose login was checked has been alerted, unless a crash caught   *)
(* a login of it between its row and its check: the row alone makes the    *)
(* key a known one.                                                        *)
NewKeyAlerted ==
    AlertsEnabled /\ AlertOnNewKey =>
        \A r \in rows :
            /\ r.type = "accepted_publickey"
            /\ r.who # None
            /\ checkedAt[r.id] # NotChecked
            => \/ r.who \in unchecked
               \/ \E i \in DOMAIN alertLog :
                     alertLog[i].key = <<"new_key", r.who>>

=============================================================================
