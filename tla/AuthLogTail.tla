---------------------------- MODULE AuthLogTail ----------------------------
(***************************************************************************)
(* The fallback source of the SSH ingest: _tail_auth_log polling auth.log, *)
(* under run_ssh_ingest, while a logger appends to the file, logrotate     *)
(* replaces it and the daemon may die.                                     *)
(*                                                                         *)
(* A file is a sequence of bytes: the newline, or a byte that belongs to   *)
(* the line of that number.  Lines are numbered as they are written and    *)
(* are not all equally long.  All of them are sshd's: what the parser      *)
(* would skip is not modelled.  A line that is not whole has the date of   *)
(* its first byte.                                                         *)
(***************************************************************************)
EXTENDS LogDates, Sequences, FiniteSetsExt

CONSTANTS
    WholeLines,     \* the logger writes a line and its newline at once
    Rotations,      \* the logrotate styles in use
    MaxLines,       \* bound: lines ever written
    MaxBuffer,      \* bound: bytes a partial line may come to in the buffer
    MaxRotations,   \* bound: rotations
    MaxFaults,      \* bound: crashes and failing handlers
    FirstDay,       \* the day of year 0 at the start
    MaxDays         \* bound: days that pass

ASSUME TailAssumption ==
    /\ WholeLines \in BOOLEAN
    /\ Rotations \subseteq {"rename", "copytruncate"}
    /\ MaxLines \in Nat /\ MaxBuffer \in Nat
    /\ MaxRotations \in Nat /\ MaxFaults \in Nat
    /\ FirstDay \in 1 .. YearLength /\ MaxDays \in Nat

Newline == 0
Content(k) == [i \in 1 .. 1 + (k % 2) |-> k]
NoInode == 0

VARIABLES
    exists,     \* auth.log is there (it is not between rename and create)
    inode,      \* its inode number
    file,       \* its bytes
    lines,      \* lines begun so far
    halfWritten,    \* the last one still lacks its newline
    today,      \* the date
    written,    \* the date each line was begun; of it, the line has the day
    db,         \* ingest_state: [inode, offset]
    pc,         \* "poll", "read" (after the stat), "batch", "backoff"
    buffer,     \* the generator's partial line
    batch,      \* the whole lines it has read and not yielded yet, as bytes
    now_year,   \* the year of the poll that read them, 0 without any
    yielded,    \* history: the lines it yielded, oldest first
    started,    \* history: lines in the file at the very first stat (-1: none)
    dropped,    \* history: the lines a fault took from a batch
    rotatedAway,    \* history: the lines rotated away before they were read
    truncated,  \* history: the file was truncated since the last stat
    slips,      \* history: the ways the reader has lost its place
    misdated,   \* history: the lines given another day than their own,
                \* though read in good time
    rotations, faults, days   \* history: how many there were

logFile == <<exists, inode, file>>
writer == <<lines, halfWritten, today, written>>
generator == <<db, pc, buffer, batch, now_year>>
history == <<yielded, started, dropped, rotatedAway, truncated, slips,
             misdated>>
counters == <<rotations, faults, days>>
vars == <<logFile, writer, generator, history, counters>>

Init ==
    /\ exists = TRUE
    /\ inode = 1
    /\ file = <<>>
    /\ lines = 0
    /\ halfWritten = FALSE
    /\ today = [year |-> 0, day |-> FirstDay]
    /\ written = <<>>
    /\ db = [inode |-> NoInode, offset |-> 0]
    /\ pc = "poll"
    /\ buffer = <<>>
    /\ batch = <<>>
    /\ now_year = 0
    /\ yielded = <<>>
    /\ started = -1
    /\ dropped = {}
    /\ rotatedAway = {}
    /\ truncated = FALSE
    /\ slips = {}
    /\ misdated = {}
    /\ rotations = 0 /\ faults = 0 /\ days = 0

(* The numbers of the lines that bytes belong to. *)
LinesIn(bytes) == {bytes[i] : i \in DOMAIN bytes} \ {Newline}

(* The bytes the stored inode and offset leave to be read. *)
Unread == IF db.inode = inode /\ ~truncated
             THEN SubSeq(file, db.offset + 1, Len(file)) ELSE file

(* bytes.split(b"\n"): up to the last newline the lines are complete, and  *)
(* the first line ends before the first newline.                           *)
Ends(bytes) == {i \in DOMAIN bytes : bytes[i] = Newline}
LastEnd(bytes) == Max({0} \cup Ends(bytes))
FirstEnd(bytes) == Min(Ends(bytes))

-----------------------------------------------------------------------------
(* The logger and logrotate (external).                                    *)

BeginLine ==
    /\ exists
    /\ ~halfWritten
    /\ lines < MaxLines
    /\ lines' = lines + 1
    /\ halfWritten' = ~WholeLines
    /\ file' = file \o Content(lines + 1)
                    \o (IF WholeLines THEN <<Newline>> ELSE <<>>)
    /\ written' = Append(written, today)
    /\ UNCHANGED <<exists, inode, today, generator, history, counters>>

EndLine ==
    /\ halfWritten
    /\ halfWritten' = FALSE
    /\ file' = Append(file, Newline)
    /\ UNCHANGED <<exists, inode, lines, today, written, generator, history,
                   counters>>

(* Midnight, at any moment (bound: not once the reader has lost its place). *)
DayPasses ==
    /\ days < MaxDays /\ slips = {}
    /\ days' = days + 1
    /\ today' = NextDay(today)
    /\ UNCHANGED <<logFile, lines, halfWritten, written, generator, history,
                   rotations, faults>>

Rotate(style) ==
    /\ exists
    /\ style \in Rotations
    /\ ~halfWritten
    /\ rotations < MaxRotations
    /\ rotations' = rotations + 1
    /\ rotatedAway' = rotatedAway \cup
                         (IF db.inode = NoInode THEN {} ELSE LinesIn(Unread))
    /\ UNCHANGED <<writer, generator, faults, days, yielded, started, dropped, slips,
                   misdated>>

(* create: the file is renamed away, and made anew. *)
RotateByRename ==
    /\ Rotate("rename")
    /\ exists' = FALSE
    /\ file' = <<>>
    /\ UNCHANGED <<inode, truncated>>

Create ==
    /\ ~exists
    /\ exists' = TRUE
    /\ inode' = inode + 1
    /\ UNCHANGED <<file, writer, generator, history, counters>>

(* copytruncate: the file keeps its inode and loses its bytes. *)
RotateByTruncation ==
    /\ Rotate("copytruncate")
    /\ file' = <<>>
    /\ truncated' = TRUE
    /\ UNCHANGED <<exists, inode>>

-----------------------------------------------------------------------------
(* The generator.                                                          *)

(* A new file, or one that has shrunk below the offset. *)
NewFile == db.inode \notin {NoInode, inode}
Shrunk == db.inode = inode /\ Len(file) < db.offset

(* A plausible bug: a new inode is met like a first run, at its end.       *)
PlaceAtEnd ==
    IF db.inode # inode THEN [inode |-> inode, offset |-> Len(file)]
    ELSE IF Shrunk THEN [db EXCEPT !.offset = 0] ELSE db

(* Where a poll reads on from: on the first run, from the end.             *)
Place ==
    IF db.inode = NoInode THEN [inode |-> inode, offset |-> Len(file)]
    ELSE IF NewFile \/ Shrunk THEN [inode |-> inode, offset |-> 0] ELSE db

(* The stat of one poll.  A missing file just waits.                       *)
Stat ==
    /\ pc = "poll"
    /\ exists
    /\ db' = Place
    /\ buffer' = IF NewFile \/ Shrunk THEN <<>> ELSE buffer
    /\ started' = IF db.inode = NoInode /\ started = -1 THEN lines ELSE started
    /\ pc' = IF Len(file) > db'.offset THEN "read" ELSE "poll"
    /\ truncated' = FALSE
    /\ slips' = IF truncated /\ db' = db /\ db.offset > 0
                   THEN slips \cup {"truncation"} ELSE slips
    /\ UNCHANGED <<logFile, writer, batch, now_year, yielded, dropped,
                   rotatedAway, misdated, counters>>

(* A plausible bug: sum(len(line)), the newlines are not counted. *)
ConsumedText(complete) == Len(complete) - Cardinality(Ends(complete))

(* sum(len(line) + 1). *)
Consumed(complete) == Len(complete)

(* Everything from the offset on is read behind what the buffer holds, and *)
(* the offset is saved before any line is yielded.                         *)
Read ==
    /\ pc = "read"
    /\ exists
    /\ Len(buffer) < MaxBuffer
    /\ LET chunk == SubSeq(file, db.offset + 1, Len(file))
           bytes == buffer \o chunk
           complete == SubSeq(bytes, 1, LastEnd(bytes))
           partial == SubSeq(bytes, LastEnd(bytes) + 1, Len(bytes))
       IN  /\ batch' = complete
           /\ buffer' = partial
           /\ db' = [db EXCEPT !.offset = @ + Consumed(complete)]
           /\ pc' = IF complete = <<>> THEN "poll" ELSE "batch"
           /\ slips' = slips
                \cup (IF partial # <<>> THEN {"partial"} ELSE {})
                \cup (IF chunk # <<>> /\ (truncated \/ inode # db.inode)
                        THEN {"race"} ELSE {})
    /\ now_year' = IF batch' = <<>> THEN 0 ELSE today.year
    /\ UNCHANGED <<logFile, writer, yielded, started, dropped, rotatedAway,
                   truncated, misdated, counters>>

(* The file went between the stat and the open. *)
OpenFails ==
    /\ pc = "read"
    /\ ~exists
    /\ pc' = "backoff"
    /\ UNCHANGED <<logFile, writer, db, buffer, batch, now_year, history,
                   counters>>

(* The line that is next, what comes after it, and the date it was begun.  *)
NextLine == SubSeq(batch, 1, FirstEnd(batch) - 1)
LaterLines == SubSeq(batch, FirstEnd(batch) + 1, Len(batch))
Written == written[Head(NextLine)]

(* One line goes to run_ssh_ingest, which is done with it when it asks for *)
(* the next; an empty one is passed over.                                  *)
Yield ==
    /\ pc = "batch"
    /\ IF NextLine = <<>>
         THEN UNCHANGED <<yielded, misdated>>
         ELSE /\ Parses(Written.day, now_year, today)
              /\ yielded' = Append(yielded, NextLine)
              /\ misdated' = misdated \cup
                    {k \in LinesIn(NextLine) :
                        /\ NextLine = Content(k)
                        /\ InGoodTime(written[k], today)
                        /\ YearTaken(written[k].day, now_year, today)
                               # written[k].year}
    /\ batch' = LaterLines
    /\ now_year' = IF LaterLines = <<>> THEN 0 ELSE now_year
    /\ pc' = IF LaterLines = <<>> THEN "poll" ELSE "batch"
    /\ UNCHANGED <<logFile, writer, db, buffer, started, dropped,
                   rotatedAway, truncated, slips, counters>>

(* The generator is gone, with its buffer and the rest of its batch. *)
Abandon ==
    /\ dropped' = dropped \cup LinesIn(batch)
    /\ buffer' = <<>>
    /\ batch' = <<>> /\ now_year' = 0
    /\ UNCHANGED <<logFile, writer, yielded, rotatedAway, truncated, misdated,
                   rotations, days>>

Fault == faults < MaxFaults /\ faults' = faults + 1 /\ Abandon

(* run_ssh_ingest raises over a line. *)
YieldFails ==
    /\ pc = "batch"
    /\ pc' = "backoff"
    /\ Fault
    /\ UNCHANGED <<db, started, slips>>

(* The line is of a leap day, and the year it is taken to be of has none:  *)
(* datetime raises in the generator.                                       *)
LineRaises ==
    /\ pc = "batch"
    /\ NextLine # <<>> /\ ~Parses(Written.day, now_year, today)
    /\ pc' = "backoff"
    /\ Abandon
    /\ UNCHANGED <<db, started, slips, faults>>

(* A plausible bug: a new generator starts at the end of the file, like a  *)
(* first run.                                                              *)
PlaceOfNew == [db EXCEPT !.offset = Len(file)]

(* What a new generator goes by is in the database. *)
PlaceKept == db

(* run_ssh_ingest makes a new generator. *)
Retry ==
    /\ pc = "backoff"
    /\ pc' = "poll"
    /\ db' = PlaceKept
    /\ buffer' = <<>>
    /\ batch' = <<>>
    /\ UNCHANGED <<logFile, writer, now_year, history, counters>>

(* The daemon dies and is started again. *)
Crash ==
    /\ pc' = "poll"
    /\ Fault
    /\ UNCHANGED <<db, started, slips>>

(* It dies between the set_state of the inode and that of the offset. *)
CrashBetweenCommits ==
    /\ pc = "poll"
    /\ exists
    /\ db.inode # inode
    /\ db' = [db EXCEPT !.inode = inode]
    /\ started' = IF started = -1 THEN lines ELSE started
    /\ slips' = slips \cup {"commit"}
    /\ Fault
    /\ UNCHANGED pc

Reader == Stat \/ Read \/ OpenFails \/ Yield \/ LineRaises \/ Retry

Next ==
    \/ BeginLine \/ EndLine \/ DayPasses
    \/ RotateByRename \/ Create \/ RotateByTruncation
    \/ Reader
    \/ YieldFails \/ Crash \/ CrashBetweenCommits

Spec == Init /\ [][Next]_vars

(* The daemon polls for as long as it runs. *)
FairSpec == Spec /\ WF_vars(Reader)

-----------------------------------------------------------------------------
Bytes == 0 .. MaxLines

(* The type invariant. *)
TypeOK ==
    /\ exists \in BOOLEAN
    /\ inode \in 1 .. MaxRotations + 1
    /\ file \in Seq(Bytes)
    /\ lines \in 0 .. MaxLines
    /\ halfWritten \in BOOLEAN
    /\ db \in [inode : Nat, offset : Nat]
    /\ pc \in {"poll", "read", "batch", "backoff"}
    /\ buffer \in Seq(Bytes)
    /\ batch \in Seq(Bytes)
    /\ pc = "batch" <=> batch # <<>>
    /\ yielded \in Seq(Seq(Bytes))
    /\ started \in -1 .. MaxLines
    /\ dropped \subseteq 1 .. MaxLines
    /\ rotatedAway \subseteq 1 .. MaxLines
    /\ truncated \in BOOLEAN
    /\ slips \subseteq {"partial", "truncation", "race", "commit"}
    /\ rotations \in 0 .. MaxRotations
    /\ faults \in 0 .. MaxFaults
    /\ today \in Dates /\ written \in Seq(Dates) /\ now_year \in Int
    /\ misdated \subseteq 1 .. MaxLines

(* What the generator yields is a line as it was written: not two lines    *)
(* run together, not a part of one ("trailing partial line, kept for next  *)
(* read").                                                                 *)
LinesIntact ==
    \A i \in DOMAIN yielded : \E k \in 1 .. lines : yielded[i] = Content(k)

(* No line is yielded twice, nor before an older one ("no replay"). *)
NoReplay ==
    \A i, j \in DOMAIN yielded : i < j => Head(yielded[i]) < Head(yielded[j])

LinesYielded == UNION {LinesIn(yielded[i]) : i \in DOMAIN yielded}

(* Where a line may be that was written after the very first poll. *)
Accounted(k) ==
    \/ k \in LinesYielded
    \/ k \in LinesIn(batch)
    \/ k \in dropped
    \/ k \in LinesIn(Unread)

(* The four ways to lose one's place are the only ones: until a read ends  *)
(* inside a line, a truncated file has grown past the offset again, a      *)
(* rotation falls between stat and open, or a crash between the two saves  *)
(* of a poll, every line is yielded whole, in order and once.              *)
InPlaceReading == slips = {} => LinesIntact /\ NoReplay

(* A line read less than about a year after it was written gets the day it *)
(* was written, over New Year too, between read and yield or while the     *)
(* daemon was down ("corrects for the (rare) case where that guess lands   *)
(* in the future", parse_syslog_line).                                     *)
DatedRight == misdated = {}

(* In place, only a fault, a leap day's line and the rotation of lines not *)
(* yet read lose any.                                                      *)
InPlaceLosses ==
    slips = {} /\ started # -1 =>
        \A k \in started + 1 .. lines : Accounted(k) \/ k \in rotatedAway

(* Every line is eventually yielded whole or not, or lost to a fault or a  *)
(* rotation: however often the generator is made anew.                     *)
EventuallyYielded ==
    \A k \in 1 .. MaxLines :
        (started # -1 /\ k = lines /\ k > started)
            ~> \/ k \in LinesYielded \cup dropped \cup rotatedAway
               \/ halfWritten
               \/ slips # {}
               \/ ~exists

=============================================================================
