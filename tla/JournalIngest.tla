--------------------------- MODULE JournalIngest ---------------------------
(***************************************************************************)
(* The SSH log ingest of omnia-daemon while its source is the journal:     *)
(* run_ssh_ingest pulling from _stream_journald, the SQLite database both  *)
(* write to, and the ways this can stop half way: an exception, a SIGTERM, *)
(* a crash of the process, a power failure.                                *)
(*                                                                         *)
(* A journal entry is known by its position; the cursor the daemon saves   *)
(* is the position of the last entry it took (0: none saved).  The rows of *)
(* login_events are the positions they were made from.  Retention, which   *)
(* deletes rows by age, is in AlertManager; the fallback source, which     *)
(* takes over in "tailing", is AuthLogTail.  The length of the backoff is  *)
(* not modelled.                                                           *)
(***************************************************************************)
EXTENDS Integers, Sequences, FiniteSets

CONSTANTS
    MaxJournal,     \* bound: entries the journal ever holds
    MaxFaults,      \* bound: crashes, power failures and failing handlers
    MaxDrops,       \* bound: times the source fails under the daemon
    MaxStops        \* bound: times an operator stops the daemon

ASSUME BoundsAssumption ==
    /\ MaxJournal \in Nat
    /\ MaxFaults \in Nat
    /\ MaxDrops \in Nat
    /\ MaxStops \in Nat

(* What the ingest can make of an entry: its JSON does not decode or its   *)
(* MESSAGE is no string; it decodes but is no login event; it is one.      *)
Kinds == {"undecodable", "chatter", "login"}

(* Where the coroutine is: "message" is between saving the cursor and      *)
(* inserting the row, "inserted" between inserting it and on_event.        *)
Pcs == {"stopped", "crashed", "connect", "stream", "message", "inserted",
        "backoff", "tailing"}

VARIABLES
    journal,    \* the entries sshd's unit wrote, oldest first
    db,         \* what SQLite committed: [cursor, rows]
    unsynced,   \* earlier contents of db that a power failure may bring back
    pc,         \* where the ingest coroutine is
    pos,        \* the last entry read from journalctl (-1: never connected)
    notified,   \* history: the entries handed to on_event
    base,       \* history: where the last connection without a cursor began
    faults, drops, stops    \* history: how often each kind of trouble came

disk == <<db, unsynced>>
history == <<notified, base>>
counters == <<faults, drops, stops>>
vars == <<journal, db, unsynced, pc, pos, notified, base,
          faults, drops, stops>>

Images == unsynced \cup {db}

RowsIn(s) == {s[i] : i \in DOMAIN s}

Init ==
    /\ journal = <<>>
    /\ db = [cursor |-> 0, rows |-> <<>>]
    /\ unsynced = {}
    /\ pc = "stopped"
    /\ pos = -1
    /\ notified = {}
    /\ base = 0
    /\ faults = 0 /\ drops = 0 /\ stops = 0

(* One autocommit statement.  synchronous=NORMAL does not sync the WAL, so *)
(* what was there before may come back.                                    *)
Commit(new) ==
    /\ db' = new
    /\ unsynced' = unsynced \cup {db}

(* Trouble of the source: the ingest survives it. *)
Drop ==
    /\ drops < MaxDrops
    /\ drops' = drops + 1
    /\ UNCHANGED <<faults, stops>>

Fault ==
    /\ faults < MaxFaults
    /\ faults' = faults + 1
    /\ UNCHANGED <<drops, stops>>

-----------------------------------------------------------------------------
(* Plausible bugs, one for each property the runs check: none is in Next.  *)

(* The stream is opened one entry past the saved cursor. *)
ConnectPastCursor ==
    /\ pc = "connect"
    /\ pc' = "stream"
    /\ IF db.cursor > 0
          THEN pos' = db.cursor + 1 /\ UNCHANGED base
          ELSE pos' = Len(journal) /\ base' = Len(journal)
    /\ UNCHANGED <<journal, disk, notified, counters>>

(* --cursor instead of --after-cursor: the entry it names comes again. *)
ConnectAtCursor ==
    /\ pc = "connect"
    /\ pc' = "stream"
    /\ IF db.cursor > 0
          THEN pos' = db.cursor - 1 /\ UNCHANGED base
          ELSE pos' = Len(journal) /\ base' = Len(journal)
    /\ UNCHANGED <<journal, disk, notified, counters>>

(* A reconnect starts at the end of the journal, as the first run does. *)
ConnectAtEnd ==
    /\ pc = "connect"
    /\ pc' = "stream"
    /\ pos' = Len(journal)
    /\ base' = IF db.cursor > 0 THEN base ELSE Len(journal)
    /\ UNCHANGED <<journal, disk, notified, counters>>

(* An entry whose JSON does not decode raises out of the generator. *)
SkipLineRaises ==
    /\ pc = "stream"
    /\ pos < Len(journal)
    /\ journal[pos + 1] = "undecodable"
    /\ pc' = "backoff"
    /\ UNCHANGED <<journal, disk, pos, history, counters>>

(* SIGTERM ends the process where it is. *)
StopAnywhere ==
    /\ pc \notin {"stopped", "crashed"}
    /\ stops < MaxStops
    /\ stops' = stops + 1
    /\ pc' = "stopped"
    /\ unsynced' = {}
    /\ UNCHANGED <<journal, db, pos, history, faults, drops>>

(* The cursor is kept in a file of its own, synced apart from the rows. *)
PowerLossOfTwoFiles ==
    /\ pc' = "crashed"
    /\ \E c, r \in Images : db' = [cursor |-> c.cursor, rows |-> r.rows]
    /\ unsynced' = {}
    /\ Fault
    /\ UNCHANGED <<journal, pos, history>>

-----------------------------------------------------------------------------
(* The journal (external).                                                 *)

Write(kind) ==
    /\ Len(journal) < MaxJournal
    /\ journal' = Append(journal, kind)
    /\ UNCHANGED <<disk, pc, pos, history, counters>>

-----------------------------------------------------------------------------
(* The source: _pick_source and _stream_journald.                          *)

(* A stored cursor resumes after it; without one the stream starts at the  *)
(* end of the journal (-n 0).                                              *)
Connect ==
    /\ pc = "connect"
    /\ pc' = "stream"
    /\ IF db.cursor > 0
          THEN pos' = db.cursor /\ UNCHANGED base
          ELSE pos' = Len(journal) /\ base' = Len(journal)
    /\ UNCHANGED <<journal, disk, notified, counters>>

(* journalctl cannot be started. *)
ConnectFails ==
    /\ pc = "connect"
    /\ pc' = "backoff"
    /\ Drop
    /\ UNCHANGED <<journal, disk, pos, history>>

(* _find_working_unit finds no unit, or its probe times out: the daemon    *)
(* follows auth.log from now on, until that source raises.                 *)
FallBack ==
    /\ pc = "connect"
    /\ pc' = "tailing"
    /\ Drop
    /\ UNCHANGED <<journal, disk, pos, history>>

TailFails ==
    /\ pc = "tailing"
    /\ pc' = "backoff"
    /\ Drop
    /\ UNCHANGED <<journal, disk, pos, history>>

(* An undecodable entry is passed over and the saved cursor stays behind. *)
SkipLine ==
    /\ pc = "stream"
    /\ pos < Len(journal)
    /\ journal[pos + 1] = "undecodable"
    /\ pos' = pos + 1
    /\ UNCHANGED <<journal, disk, pc, history, counters>>

(* The cursor is saved before the message is yielded; a message that is no *)
(* login event ends there.                                                 *)
TakeLine ==
    /\ pc = "stream"
    /\ pos < Len(journal)
    /\ journal[pos + 1] # "undecodable"
    /\ pos' = pos + 1
    /\ Commit([db EXCEPT !.cursor = pos + 1])
    /\ pc' = IF journal[pos + 1] = "login" THEN "message" ELSE "stream"
    /\ UNCHANGED <<journal, history, counters>>

(* set_state raises before anything is saved. *)
TakeLineFails ==
    /\ pc = "stream"
    /\ pos < Len(journal)
    /\ journal[pos + 1] # "undecodable"
    /\ pc' = "backoff"
    /\ Drop
    /\ UNCHANGED <<journal, disk, pos, history>>

(* journalctl exits: the generator raises ConnectionError. *)
StreamEnds ==
    /\ pc = "stream"
    /\ pc' = "backoff"
    /\ Drop
    /\ UNCHANGED <<journal, disk, pos, history>>

-----------------------------------------------------------------------------
(* The consumer: the body of run_ssh_ingest's loop.                        *)

InsertEvent ==
    /\ pc = "message"
    /\ pc' = "inserted"
    /\ Commit([db EXCEPT !.rows = Append(@, pos)])
    /\ UNCHANGED <<journal, pos, history, counters>>

(* The key's label lookup or the INSERT raises: the entry is dropped. *)
InsertEventFails ==
    /\ pc = "message"
    /\ pc' = "backoff"
    /\ Fault
    /\ UNCHANGED <<journal, disk, pos, history>>

OnEvent ==
    /\ pc = "inserted"
    /\ pc' = "stream"
    /\ notified' = notified \cup {pos}
    /\ UNCHANGED <<journal, disk, pos, base, counters>>

OnEventFails ==
    /\ pc = "inserted"
    /\ pc' = "backoff"
    /\ Fault
    /\ UNCHANGED <<journal, disk, pos, history>>

Retry ==
    /\ pc = "backoff"
    /\ pc' = "connect"
    /\ UNCHANGED <<journal, disk, pos, history, counters>>

-----------------------------------------------------------------------------
(* The process and the machine under it.                                   *)

Start ==
    /\ pc = "stopped"
    /\ pc' = "connect"
    /\ UNCHANGED <<journal, disk, pos, history, counters>>

(* SIGTERM cancels the task, which happens where it awaits: never between  *)
(* taking a message and on_event.  Closing the database syncs it.          *)
Stop ==
    /\ pc \in {"connect", "stream", "backoff", "tailing"}
    /\ stops < MaxStops
    /\ stops' = stops + 1
    /\ pc' = "stopped"
    /\ unsynced' = {}
    /\ UNCHANGED <<journal, db, pos, history, faults, drops>>

(* The process dies: what it committed survives. *)
Crash ==
    /\ pc \notin {"stopped", "crashed"}
    /\ pc' = "crashed"
    /\ Fault
    /\ UNCHANGED <<journal, disk, pos, history>>

(* The machine dies: a tail of the unsynced commits may be gone.  The      *)
(* journal's own entries are taken to be durable.                          *)
PowerLoss ==
    /\ pc' = "crashed"
    /\ db' \in Images
    /\ unsynced' = {}
    /\ Fault
    /\ UNCHANGED <<journal, pos, history>>

(* Restart=on-failure, and the enabled unit at boot. *)
Restart ==
    /\ pc = "crashed"
    /\ pc' = "connect"
    /\ UNCHANGED <<journal, disk, pos, history, counters>>

(* SQLite syncs the WAL when it checkpoints. *)
Checkpoint ==
    /\ unsynced # {}
    /\ unsynced' = {}
    /\ UNCHANGED <<journal, db, pc, pos, history, counters>>

-----------------------------------------------------------------------------
Progress ==
    \/ Restart \/ Connect \/ SkipLine \/ TakeLine
    \/ InsertEvent \/ OnEvent \/ Retry

Trouble ==
    \/ ConnectFails \/ FallBack \/ TailFails \/ StreamEnds
    \/ TakeLineFails \/ InsertEventFails \/ OnEventFails
    \/ Crash \/ PowerLoss

Next ==
    \/ \E kind \in Kinds : Write(kind)
    \/ Progress
    \/ Trouble
    \/ Start \/ Stop \/ Checkpoint

Spec == Init /\ [][Next]_vars

(* systemd restarts a crashed daemon, and the event loop runs a task that  *)
(* can run.  Nobody has to start a stopped daemon or write to the journal. *)
FairSpec == Spec /\ WF_vars(Progress)

-----------------------------------------------------------------------------
ImageType == [cursor : Nat, rows : Seq(Nat)]

(* The type invariant: every variable has the shape its comment gives it. *)
TypeOK ==
    /\ journal \in Seq(Kinds)
    /\ db \in ImageType
    /\ unsynced \subseteq ImageType
    /\ pc \in Pcs
    /\ pos \in -1 .. Len(journal)
    /\ notified \subseteq 1 .. Len(journal)
    /\ base \in 0 .. Len(journal)
    /\ faults \in 0 .. MaxFaults
    /\ drops \in 0 .. MaxDrops
    /\ stops \in 0 .. MaxStops

(* "No replay" (ssh_ingest.py, module docstring): login_events never holds *)
(* a journal entry twice, nor out of journal order, nor one that is still  *)
(* ahead of the saved cursor -- in the database as it is and in every      *)
(* older state of it a power failure may bring back.                       *)
Increasing(s) == \A i, j \in DOMAIN s : i < j => s[i] < s[j]

NoReplay ==
    \A d \in Images :
        /\ Increasing(d.rows)
        /\ \A i \in DOMAIN d.rows : d.rows[i] \in 1 .. d.cursor

(* The login entries a cursor has passed since the last connection without *)
(* a cursor that never became a row, or whose row on_event never saw.      *)
Lost(d) ==
    {n \in base + 1 .. d.cursor :
        journal[n] = "login" /\ ~(n \in RowsIn(d.rows) /\ n \in notified)}

InFlight == IF pc \in {"message", "inserted"} THEN 1 ELSE 0

(* What is left of "no gap": a restart, a reconnect, a fallback or a       *)
(* SIGTERM loses nothing, and a crash, a power failure or a failing        *)
(* handler costs at most the one entry that was in hand.                   *)
OneLostPerFault ==
    /\ Cardinality(Lost(db)) <= faults + InFlight
    /\ \A d \in unsynced : Cardinality(Lost(d)) <= faults + 1

(* "No gap" as the module docstring has it: once the ingest has begun to   *)
(* follow the journal, no login entry behind the cursor is missing.        *)
NoGap ==
    InFlight = 0 =>
        \A n \in base + 1 .. db.cursor :
            journal[n] = "login" => n \in RowsIn(db.rows)

(* What holds of "a restart resumes exactly where it left off" (module     *)
(* docstring): only a connection without a saved cursor skips entries      *)
(* (-n 0, "first run: start from now"), and there may be many of those     *)
(* before the first message is saved.                                      *)
ResumesAfterFirstMessage ==
    [][pc = "connect" /\ pc' = "stream" /\ pos' > pos
          => db.cursor = 0 /\ base' = Len(journal)]_vars

(* Every entry is eventually behind the reader, however often the source   *)
(* drops or the daemon crashes, unless an operator stopped it or a failed  *)
(* probe turned it to the log file, which it does not leave on its own.    *)
EventuallyRead ==
    \A n \in 1 .. MaxJournal :
        n <= Len(journal) ~> (pos >= n \/ pc \in {"stopped", "tailing"})

(* The abstract log this implements. *)
Log == INSTANCE AtMostOnceLog
          WITH written <- Len(journal), taken <- db.cursor,
               recorded <- db.rows

ImplementsLog == Log!Spec

=============================================================================
