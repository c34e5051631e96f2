------------------------------ MODULE KeyLabels ------------------------------
(***************************************************************************)
(* Whose key was that: KeyStore's cache of authorized_keys, the label the  *)
(* ingest writes into a login's row, and the two places the panel shows    *)
(* it: when each key was last used, and the key of each open session.      *)
(*                                                                         *)
(* KeyStore runs on the event loop, but authorized_keys is edited by other *)
(* processes, also between its stat and its read.  The file system's clock *)
(* and the daemon's are one.  The file is a function: what each key's line *)
(* says of it.  A key label stands for its text; two keys without comment  *)
(* are told apart by the end of their fingerprints.                        *)
(***************************************************************************)
EXTENDS Integers, FiniteSets, Sequences

CONSTANTS
    Keys,           \* fingerprints
    Comments,
    NoComment,      \* the line of the key has no comment
    NotListed,      \* no line has the key
    Places,         \* a user and an address: (username, source_ip)
    Slack,          \* the seconds active_ssh_sessions adds to a session's start
    MaxNow,         \* bound: the clock
    MaxEdits,       \* bound: edits of authorized_keys
    MaxLogins       \* bound: logins with a key

ASSUME LabelAssumption ==
    /\ IsFiniteSet(Keys)
    /\ {NoComment, NotListed} \cap Comments = {} /\ NoComment # NotListed
    /\ Slack \in Nat /\ MaxNow \in Nat
    /\ MaxEdits \in Nat /\ MaxLogins \in Nat

Missing == -1       \* the mtime of a file that is not there, and of no cache
Empty == [k \in Keys |-> NotListed]
Contents == [Keys -> Comments \cup {NoComment, NotListed}]

VARIABLES
    now,
    file,       \* authorized_keys: [mtime, lines]
    cache,      \* KeyStore: [mtime, lines]
    doing,      \* "none", or between the stat and the read of a reload: for a
                \* "label" or for "get_keys"
    seen,       \* the mtime that stat returned
    logged,     \* logins sshd has logged and the ingest has not read
    rows,       \* login_events, the accepted keys among them
    sessions,   \* psutil.users, and the login each came from
    listed,     \* the lines get_keys last answered with
    edits, logins,  \* bounded counters
    own,        \* history: the keys that have always had one and the same
                \* comment, and no other key has had it
    mtimes,     \* history: the mtimes authorized_keys has had
    disguised   \* history: an edit left an mtime there had been before

store == <<cache, doing, seen>>
history == <<own, mtimes, disguised>>
counters == <<edits, logins>>
vars == <<now, file, store, logged, rows, sessions, listed, counters, history>>

(* The keys with a comment of their own. *)
Own(lines) ==
    {k \in Keys : /\ lines[k] \in Comments
                  /\ \A other \in Keys \ {k} : lines[other] # lines[k]}

Init ==
    /\ now = 0
    /\ file \in [mtime : {0}, lines : Contents]
    /\ own = Own(file.lines)
    /\ cache = [mtime |-> Missing, lines |-> Empty]
    /\ doing = "none" /\ seen = Missing
    /\ logged = <<>>
    /\ rows = {} /\ sessions = {}
    /\ listed = Empty
    /\ edits = 0 /\ logins = 0
    /\ mtimes = {0}
    /\ disguised = FALSE

-----------------------------------------------------------------------------
(* Labels.                                                                 *)

(* label_for_fingerprint. *)
Label(lines, key) ==
    CASE lines[key] \in Comments -> <<"comment", lines[key]>>
      [] lines[key] = NoComment -> <<"unlabeled", key>>
      [] lines[key] = NotListed -> <<"unknown", key>>

(* The panel's name for a key get_keys listed.  A key without a comment    *)
(* has another one here.                                                   *)
DisplayLabel(key) ==
    IF listed[key] \in Comments THEN <<"comment", listed[key]>>
                                ELSE <<"chave", key>>

Newest(R) == {r \in R : \A q \in R : q.ts <= r.ts}

(* A plausible bug: setdefault over a history that is oldest first. *)
LastUsedOldest(key) ==
    {r.ts : r \in {q \in rows : /\ q.label = DisplayLabel(key)
                               /\ \A o \in rows : o.label = q.label => q.ts <= o.ts}}

(* _rebuild_keys, over a history that is newest first: the times it may    *)
(* show, none for "nunca usada".                                           *)
LastUsed(key) == {r.ts : r \in Newest({q \in rows : q.label = DisplayLabel(key)})}

(* A plausible bug: the session's start is taken as it is, without slack.  *)
LatestBeforeStart(place, before) ==
    Newest({r \in rows : r.place = place /\ r.ts <= before - Slack})

(* latest_accepted_key: what rows a session may be shown with. *)
LatestAccepted(place, before) ==
    Newest({r \in rows : r.place = place /\ r.ts <= before})

(* active_ssh_sessions: what row each open session may be shown with. *)
SessionsShown == [s \in sessions |-> LatestAccepted(s.place, s.start + Slack)]

-----------------------------------------------------------------------------
(* More plausible bugs: none is in Next.                                   *)

(* A file that is older than the cache is not read: a backup put back. *)
IsNewer == file.mtime > cache.mtime

(* The mtime is remembered before the file is read. *)
ReloadFailsRemembered ==
    /\ doing # "none"
    /\ doing' = "none" /\ seen' = Missing
    /\ cache' = [cache EXCEPT !.mtime = seen]
    /\ logged' = IF doing = "label" THEN Tail(logged) ELSE logged
    /\ UNCHANGED <<now, file, rows, sessions, listed, counters, history>>

-----------------------------------------------------------------------------
(* Other processes.                                                        *)

(* An editor, or a backup that is put back with its mtime. *)
Edit(lines, mtime) ==
    /\ edits < MaxEdits
    /\ edits' = edits + 1
    /\ file' = [mtime |-> mtime, lines |-> lines]
    /\ own' = {k \in own \cap Own(lines) : lines[k] = file.lines[k]}
    /\ mtimes' = mtimes \cup {mtime}
    /\ disguised' = (disguised \/ mtime \in mtimes)
    /\ UNCHANGED <<now, store, logged, rows, sessions, listed, logins>>

Delete ==
    /\ file.mtime # Missing
    /\ edits < MaxEdits
    /\ edits' = edits + 1
    /\ file' = [mtime |-> Missing, lines |-> Empty]
    /\ own' = {}
    /\ UNCHANGED <<now, store, logged, rows, sessions, listed, logins,
                   mtimes, disguised>>

(* sshd logs the login and opens the session; utmp's time is in whole      *)
(* seconds and may lie before the log's.                                   *)
Login(key, place, skew) ==
    /\ logins < MaxLogins
    /\ logins' = logins + 1
    /\ logged' = Append(logged, [key |-> key, place |-> place, ts |-> now])
    /\ sessions' = sessions \cup {[place |-> place, start |-> now - skew,
                                   key |-> key, ts |-> now]}
    /\ UNCHANGED <<now, file, store, rows, listed, edits, history>>

Tick ==
    /\ now < MaxNow
    /\ now' = now + 1
    /\ UNCHANGED <<file, store, logged, rows, sessions, listed, counters,
                   history>>

-----------------------------------------------------------------------------
(* The daemon.                                                             *)

(* What is wanted of the store, once its cache is lines. *)
Deliver(what, lines) ==
    \/ /\ what = "label"
       /\ LET login == Head(logged) IN
            rows' = rows \cup {[key |-> login.key, place |-> login.place,
                                ts |-> login.ts,
                                label |-> Label(lines, login.key)]}
       /\ logged' = Tail(logged)
       /\ UNCHANGED listed
    \/ /\ what = "get_keys"
       /\ listed' = lines
       /\ UNCHANGED <<rows, logged>>

NeedsReload == file.mtime # cache.mtime

Wanted(what) ==
    /\ doing = "none"
    /\ what = "label" => logged # <<>>

(* _reload_if_needed: the stat finds no file. *)
FindsNoFile(what) ==
    /\ Wanted(what)
    /\ file.mtime = Missing
    /\ cache' = [mtime |-> Missing, lines |-> Empty]
    /\ Deliver(what, Empty)
    /\ UNCHANGED <<now, file, doing, seen, sessions, counters, history>>

(* The mtime is the cache's. *)
FindsCached(what) ==
    /\ Wanted(what)
    /\ file.mtime # Missing
    /\ ~NeedsReload
    /\ Deliver(what, cache.lines)
    /\ UNCHANGED <<now, file, store, sessions, counters, history>>

FindsChanged(what) ==
    /\ Wanted(what)
    /\ file.mtime # Missing
    /\ NeedsReload
    /\ doing' = what
    /\ seen' = file.mtime
    /\ UNCHANGED <<now, file, cache, logged, rows, sessions, listed, counters,
                   history>>

Reloaded == [mtime |-> seen, lines |-> file.lines]

(* parse_authorized_keys reads what is there by now, perhaps nothing. *)
Reload ==
    /\ doing # "none"
    /\ cache' = Reloaded
    /\ Deliver(doing, Reloaded.lines)
    /\ doing' = "none" /\ seen' = Missing
    /\ UNCHANGED <<now, file, sessions, counters, history>>

(* The file is there and may not be read: PermissionError.  The login is   *)
(* dropped by run_ssh_ingest, the request answered with an error.          *)
ReloadFails ==
    /\ doing # "none"
    /\ doing' = "none" /\ seen' = Missing
    /\ logged' = IF doing = "label" THEN Tail(logged) ELSE logged
    /\ UNCHANGED <<now, file, cache, rows, sessions, listed, counters, history>>

-----------------------------------------------------------------------------
Uses == {"label", "get_keys"}

Next ==
    \/ \E lines \in Contents, mtime \in 0 .. now : Edit(lines, mtime)
    \/ Delete
    \/ \E k \in Keys, p \in Places, skew \in 0 .. Slack :
          skew <= now /\ Login(k, p, skew)
    \/ Tick
    \/ \E what \in Uses :
          FindsNoFile(what) \/ FindsCached(what) \/ FindsChanged(what)
    \/ Reload \/ ReloadFails

Spec == Init /\ [][Next]_vars

-----------------------------------------------------------------------------
Time == 0 .. MaxNow
Stored == [mtime : Time \cup {Missing}, lines : Contents]
Labels == ({"comment"} \X Comments) \cup ({"unlabeled", "unknown"} \X Keys)
LoginType == [key : Keys, place : Places, ts : Time]

(* The type invariant: every variable has the shape its comment gives it.  *)
TypeOK ==
    /\ now \in Time
    /\ file \in Stored /\ cache \in Stored
    /\ doing \in {"none"} \cup Uses
    /\ seen \in Time \cup {Missing}
    /\ doing = "none" <=> seen = Missing
    /\ logged \in Seq(LoginType)
    /\ doing = "label" => logged # <<>>
    /\ rows \subseteq [key : Keys, place : Places, ts : Time, label : Labels]
    /\ sessions \subseteq [place : Places, start : Time, key : Keys, ts : Time]
    /\ listed \in Contents
    /\ edits \in 0 .. MaxEdits /\ logins \in 0 .. MaxLogins
    /\ own \subseteq Keys
    /\ mtimes \subseteq Time
    /\ disguised \in BOOLEAN

(* A cache that will be used without another look holds the file's lines,  *)
(* although the file may have been edited between the stat and the read:   *)
(* as long as no edit left an mtime the file had before                    *)
(* ("reloading only when its mtime changes", KeyStore).                    *)
CacheCurrent ==
    ~disguised /\ cache.mtime = file.mtime => cache.lines = file.lines

(* Every label and every list of keys is by the lines the file has when it *)
(* is given out, deleted and restored files included.                      *)
GivenOutCurrent ==
    [][~disguised =>
         /\ \A r \in rows' \ rows : r.label = Label(file.lines, r.key)
         /\ listed' # listed => listed' = file.lines]_vars

(* The panel shows of a listed key the time of its last login in the       *)
(* table, if its comment has always been its own: the label written at the *)
(* login and the one made from get_keys are the same (_rebuild_keys).      *)
LastUsedRight ==
    \A k \in own :
        ~disguised /\ listed[k] # NotListed =>
            LastUsed(k) = {r.ts : r \in
                {q \in rows : /\ q.key = k
                              /\ \A o \in rows : o.key = k => o.ts <= q.ts}}

(* An open session is shown with the key it was opened with once that      *)
(* login is in the table, unless the same user came from the same address  *)
(* again before the slack after its start was over                         *)
(* (active_ssh_sessions, latest_accepted_key).                             *)
SessionShowsItsKey ==
    \A s \in sessions :
        (\E r \in rows : r.key = s.key /\ r.place = s.place /\ r.ts = s.ts) =>
            /\ SessionsShown[s] # {}
            /\ \A r \in SessionsShown[s] :
                  r.key = s.key \/ r.ts \in s.ts .. s.start + Slack

=============================================================================
