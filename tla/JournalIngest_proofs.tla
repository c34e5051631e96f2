------------------------ MODULE JournalIngest_proofs ------------------------
(***************************************************************************)
(* Proofs about JournalIngest for any number of entries, faults and stops: *)
(* type correctness, no replay, that it implements AtMostOnceLog, and what *)
(* it may lose.                                                            *)
(*                                                                         *)
(* NoReplay is not inductive: a row is appended at the read position, so   *)
(* the invariant must also say that this is the saved cursor and lies      *)
(* beyond every row, and that a stream never reads behind the cursor.  A   *)
(* power failure brings back an older image, so the invariant relates      *)
(* every image to the present one: a cursor no further and a prefix of the *)
(* rows.                                                                   *)
(***************************************************************************)
EXTENDS JournalIngest, SequenceTheorems, FiniteSetTheorems, TLAPS

ImageOK(d) ==
    /\ d.cursor <= Len(journal)
    /\ Increasing(d.rows)
    /\ \A i \in DOMAIN d.rows : d.rows[i] \in 1 .. d.cursor

(* d is what the database was before some of its last commits. *)
Older(d) ==
    /\ d.cursor <= db.cursor
    /\ Len(d.rows) <= Len(db.rows)
    /\ \A i \in 1 .. Len(d.rows) : d.rows[i] = db.rows[i]

HandInv ==
    /\ pc \in {"message", "inserted"} => pos = db.cursor /\ pos >= 1
    /\ pc = "message" => \A i \in DOMAIN db.rows : db.rows[i] < pos
    /\ pc = "stream" => db.cursor <= pos

IInv ==
    /\ TypeOK
    /\ \A d \in Images : ImageOK(d)
    /\ \A d \in unsynced : Older(d)
    /\ HandInv

-----------------------------------------------------------------------------
(* What Append does to a sequence of numbers, and to an increasing one. *)
LEMMA AppendFacts ==
  ASSUME NEW s \in Seq(Nat), NEW e \in Nat
  PROVE  /\ Append(s, e) \in Seq(Nat)
         /\ Len(s) \in Nat
         /\ Len(Append(s, e)) = Len(s) + 1
         /\ DOMAIN s = 1 .. Len(s)
         /\ DOMAIN Append(s, e) = 1 .. Len(s) + 1
         /\ \A i \in 1 .. Len(s) : Append(s, e)[i] = s[i]
         /\ Append(s, e)[Len(s) + 1] = e
  OBVIOUS

(* Appending a greater number keeps an increasing sequence increasing. *)
LEMMA AppendIncreasing ==
  ASSUME NEW s \in Seq(Nat), NEW e \in Nat,
         Increasing(s), \A i \in DOMAIN s : s[i] < e
  PROVE  Increasing(Append(s, e))
<1> SUFFICES ASSUME NEW i \in DOMAIN Append(s, e), NEW j \in DOMAIN Append(s, e),
                    i < j
             PROVE  Append(s, e)[i] < Append(s, e)[j]
  BY DEF Increasing
<1>1. i \in 1 .. Len(s) /\ Append(s, e)[i] = s[i]
  BY AppendFacts
<1>2. CASE j = Len(s) + 1
  BY <1>1, <1>2, AppendFacts
<1>3. CASE j \in 1 .. Len(s)
  BY <1>1, <1>3, AppendFacts DEF Increasing
<1> QED BY <1>2, <1>3, AppendFacts

-----------------------------------------------------------------------------
(* The inductive invariant holds initially. *)
LEMMA InitInv == Init => IInv
  BY BoundsAssumption
  DEF Init, IInv, TypeOK, Kinds, Pcs, ImageType, Images, ImageOK, Increasing,
      HandInv

(* Every step keeps the types. *)
LEMMA TypeStep == IInv /\ [Next]_vars => TypeOK'
<1> SUFFICES ASSUME IInv, [Next]_vars PROVE TypeOK'
  OBVIOUS
<1> USE BoundsAssumption
    DEF IInv, TypeOK, HandInv, Pcs, history, counters, disk, Drop, Fault
<1>1. ASSUME NEW kind \in Kinds, Write(kind) PROVE TypeOK'
  BY <1>1 DEF Write
<1>2. CASE Connect
  <2>1. db.cursor \in 0 .. Len(journal)
    BY DEF Images, ImageOK, ImageType
  <2> QED BY <1>2, <2>1 DEF Connect
<1>3. CASE ConnectFails \/ FallBack \/ TailFails \/ StreamEnds \/ TakeLineFails
  <2>1. /\ UNCHANGED <<journal, disk, pos, history>>
        /\ pc' \in {"backoff", "tailing"}
    BY <1>3 DEF ConnectFails, FallBack, TailFails, StreamEnds, TakeLineFails
  <2>2. Drop
    BY <1>3 DEF ConnectFails, FallBack, TailFails, StreamEnds, TakeLineFails
  <2> QED BY <2>1, <2>2
<1>4. CASE SkipLine
  BY <1>4 DEF SkipLine
<1>5. CASE TakeLine
  <2>1. db' \in ImageType
    <3>1. db' = [db EXCEPT !.cursor = pos + 1] /\ pos + 1 \in Nat
      BY <1>5 DEF TakeLine, Commit
    <3> QED BY <3>1 DEF ImageType
  <2>2. unsynced' \subseteq ImageType
    BY <1>5 DEF TakeLine, Commit
  <2> QED BY <1>5, <2>1, <2>2 DEF TakeLine
<1>6. CASE InsertEvent
  <2>1. pos \in Nat /\ db.rows \in Seq(Nat) /\ db.cursor \in Nat
    BY <1>6 DEF InsertEvent, ImageType
  <2>2. Append(db.rows, pos) \in Seq(Nat)
    BY <2>1, AppendFacts
  <2>3. db' = [cursor |-> db.cursor, rows |-> Append(db.rows, pos)]
    BY <1>6 DEF InsertEvent, Commit, ImageType
  <2>4. db' \in ImageType
    BY <2>1, <2>2, <2>3 DEF ImageType
  <2>5. unsynced' \subseteq ImageType
    BY <1>6 DEF InsertEvent, Commit
  <2> QED BY <1>6, <2>4, <2>5 DEF InsertEvent
<1>7. CASE InsertEventFails \/ OnEventFails \/ Crash
  <2>1. UNCHANGED <<journal, disk, pos, history>> /\ pc' \in {"backoff", "crashed"}
    BY <1>7 DEF InsertEventFails, OnEventFails, Crash
  <2>2. Fault
    BY <1>7 DEF InsertEventFails, OnEventFails, Crash
  <2> QED BY <2>1, <2>2
<1>8. CASE OnEvent
  BY <1>8 DEF OnEvent
<1>9. CASE Start \/ Retry \/ Restart
  BY <1>9 DEF Start, Retry, Restart
<1>12. CASE Stop
  BY <1>12 DEF Stop
<1>13. CASE Checkpoint
  BY <1>13 DEF Checkpoint
<1>10. CASE PowerLoss
  BY <1>10 DEF PowerLoss, Images
<1>11. CASE UNCHANGED vars
  BY <1>11 DEF vars
<1> QED
  BY <1>1, <1>2, <1>3, <1>4, <1>5, <1>6, <1>7, <1>8, <1>9, <1>10, <1>11,
     <1>12, <1>13
  DEF Next, Progress, Trouble

-----------------------------------------------------------------------------
(* A step that changes neither the journal nor the committed data, and     *)
(* keeps no image it had not, keeps the images in order.                   *)
LEMMA SameDisk ==
  ASSUME IInv, UNCHANGED <<journal, db>>, unsynced' \subseteq unsynced
  PROVE  /\ \A d \in Images' : ImageOK(d)'
         /\ \A d \in unsynced' : Older(d)'
  BY DEF IInv, Images, ImageOK, Increasing, Older

(* A commit that moves the cursor forward within the journal, or appends   *)
(* a row for the cursor's own entry, keeps the images in order.            *)
LEMMA CommitInOrder ==
  ASSUME IInv, NEW new \in ImageType, Commit(new), UNCHANGED journal,
         new.cursor >= db.cursor, new.cursor <= Len(journal),
         \/ new.rows = db.rows
         \/ /\ new.rows = Append(db.rows, new.cursor)
            /\ new.cursor >= 1
            /\ \A i \in DOMAIN db.rows : db.rows[i] < new.cursor
  PROVE  /\ \A d \in Images' : ImageOK(d)'
         /\ \A d \in unsynced' : Older(d)'
<1>1. /\ db.rows \in Seq(Nat) /\ db.cursor \in Nat /\ ImageOK(db)
      /\ new.rows \in Seq(Nat) /\ new.cursor \in Nat
  BY DEF Images, IInv, TypeOK, ImageType
<1>2. /\ Len(db.rows) <= Len(new.rows)
      /\ \A i \in 1 .. Len(db.rows) : db.rows[i] = new.rows[i]
  <2>1. CASE new.rows = db.rows
    BY <1>1, <2>1
  <2>2. CASE new.rows = Append(db.rows, new.cursor)
    BY <1>1, <2>2, AppendFacts
  <2> QED BY <2>1, <2>2
<1>3. ImageOK(new)
  <2>1. CASE new.rows = db.rows
    BY <1>1, <2>1 DEF ImageOK, Increasing
  <2>2. CASE /\ new.rows = Append(db.rows, new.cursor)
             /\ new.cursor >= 1
             /\ \A i \in DOMAIN db.rows : db.rows[i] < new.cursor
    <3>1. /\ DOMAIN new.rows = 1 .. Len(db.rows) + 1
          /\ new.rows[Len(db.rows) + 1] = new.cursor
      BY <1>1, <2>2, AppendFacts
    <3>2. Increasing(new.rows)
      BY <1>1, <2>2, AppendIncreasing DEF ImageOK
    <3>3. \A i \in DOMAIN new.rows : new.rows[i] \in 1 .. new.cursor
      BY <1>1, <1>2, <2>2, <3>1, AppendFacts DEF ImageOK
    <3> QED BY <3>2, <3>3 DEF ImageOK
  <2> QED BY <2>1, <2>2
<1>4. db' = new /\ unsynced' = unsynced \cup {db}
  BY DEF Commit
<1>5. \A d \in Images' : ImageOK(d)'
  <2>1. \A d \in Images : ImageOK(d)
    BY DEF IInv
  <2>2. Images' = Images \cup {new}
    BY <1>4 DEF Images
  <2> QED BY <1>3, <2>1, <2>2 DEF ImageOK
<1>6. ASSUME NEW d \in unsynced' PROVE Older(d)'
  <2>1. CASE d = db
    BY <1>1, <1>2, <1>4, <2>1 DEF Older
  <2>2. CASE d \in unsynced
    <3>1. d \in ImageType /\ Older(d)
      BY <2>2 DEF IInv, TypeOK
    <3> QED BY <1>1, <1>2, <1>4, <3>1 DEF Older, ImageType
  <2> QED BY <1>4, <1>6, <2>1, <2>2
<1> QED BY <1>5, <1>6

-----------------------------------------------------------------------------
(* Every step keeps the images in order. *)
LEMMA ImageStep ==
  IInv /\ [Next]_vars => /\ \A d \in Images' : ImageOK(d)'
                         /\ \A d \in unsynced' : Older(d)'
<1> DEFINE Ordered == /\ \A d \in Images' : ImageOK(d)'
                      /\ \A d \in unsynced' : Older(d)'
<1> SUFFICES ASSUME IInv, [Next]_vars PROVE Ordered
  OBVIOUS
<1>1. ASSUME NEW kind \in Kinds, Write(kind) PROVE Ordered
  <2>1. Len(journal') >= Len(journal) /\ Len(journal) \in Nat
    BY <1>1 DEF Write, IInv, TypeOK
  <2>2. UNCHANGED disk
    BY <1>1 DEF Write
  <2>3. \A d \in Images : d.cursor \in Nat
    BY DEF IInv, TypeOK, ImageType, Images
  <2> QED BY <2>1, <2>2, <2>3 DEF disk, IInv, Images, ImageOK, Increasing, Older
<1>2. CASE TakeLine
  <2> DEFINE new == [db EXCEPT !.cursor = pos + 1]
  <2>1. /\ new \in ImageType /\ new.cursor = pos + 1 /\ new.rows = db.rows
        /\ Commit(new) /\ UNCHANGED journal
    BY <1>2 DEF TakeLine, IInv, TypeOK, ImageType
  <2>2. db.cursor <= pos + 1 /\ pos + 1 <= Len(journal)
    BY <1>2 DEF TakeLine, IInv, TypeOK, ImageType, HandInv
  <2> HIDE DEF new
  <2> QED BY <2>1, <2>2, CommitInOrder
<1>3. CASE InsertEvent
  <2> DEFINE new == [db EXCEPT !.rows = Append(@, pos)]
  <2>1. pos = db.cursor /\ pos >= 1 /\ \A i \in DOMAIN db.rows : db.rows[i] < pos
    BY <1>3 DEF InsertEvent, IInv, HandInv
  <2>2. /\ db.rows \in Seq(Nat) /\ db.cursor \in Nat /\ pos \in Nat
        /\ Append(db.rows, pos) \in Seq(Nat)
    BY <2>1, AppendFacts DEF IInv, TypeOK, ImageType
  <2>3. db \in ImageType
    BY DEF IInv, TypeOK
  <2>4. new = [cursor |-> db.cursor, rows |-> Append(db.rows, pos)]
    BY <2>3 DEF ImageType
  <2>5. Commit(new) /\ UNCHANGED journal
    BY <1>3 DEF InsertEvent
  <2>6. new \in ImageType /\ new.cursor = db.cursor /\ new.rows = Append(db.rows, pos)
    BY <2>2, <2>4 DEF ImageType
  <2>7. db.cursor <= Len(journal)
    BY <2>1 DEF IInv, TypeOK
  <2> HIDE DEF new
  <2> QED BY <2>1, <2>2, <2>5, <2>6, <2>7, CommitInOrder
<1>4. CASE PowerLoss
  <2>1. db' \in Images /\ unsynced' = {} /\ UNCHANGED journal
    BY <1>4 DEF PowerLoss
  <2> QED BY <2>1 DEF IInv, Images, ImageOK, Increasing
<1>5. CASE \/ Connect \/ ConnectFails \/ FallBack \/ TailFails \/ StreamEnds
           \/ TakeLineFails \/ SkipLine \/ InsertEventFails \/ OnEventFails
           \/ OnEvent \/ Crash \/ Start \/ Stop \/ Retry \/ Restart
           \/ Checkpoint \/ UNCHANGED vars
  <2>1. UNCHANGED <<journal, db>> /\ unsynced' \subseteq unsynced
    BY <1>5
    DEF Connect, ConnectFails, FallBack, TailFails, StreamEnds, TakeLineFails,
        SkipLine, InsertEventFails, OnEventFails, OnEvent, Crash, Start, Stop,
        Retry, Restart, Checkpoint, disk, vars
  <2> QED BY <2>1, SameDisk
<1> QED
  BY <1>1, <1>2, <1>3, <1>4, <1>5 DEF Next, Progress, Trouble

(* Every step keeps what is in hand at the cursor and ahead of the rows. *)
LEMMA HandStep == IInv /\ [Next]_vars => HandInv'
<1> SUFFICES ASSUME IInv, [Next]_vars PROVE HandInv'
  OBVIOUS
<1> USE DEF HandInv
<1>1. ASSUME NEW kind \in Kinds, Write(kind) PROVE HandInv'
  BY <1>1 DEF Write, disk, IInv
<1>2. CASE Connect
  BY <1>2 DEF Connect, disk, IInv, TypeOK, ImageType
<1>3. CASE TakeLine
  <2>1. /\ db'.cursor = pos' /\ db'.rows = db.rows /\ pos' = pos + 1
        /\ pc' \in {"message", "stream"}
    BY <1>3 DEF TakeLine, Commit, IInv, TypeOK, ImageType
  <2>2. /\ db.cursor <= pos /\ pos \in Int /\ db.cursor \in Nat
    BY <1>3 DEF TakeLine, IInv, TypeOK, ImageType
  <2>3. \A i \in DOMAIN db.rows : db.rows[i] \in 1 .. db.cursor
    BY DEF IInv, Images, ImageOK
  <2> QED BY <2>1, <2>2, <2>3
<1>4. CASE InsertEvent
  BY <1>4 DEF InsertEvent, Commit, IInv, TypeOK, ImageType
<1>5. CASE SkipLine
  BY <1>5 DEF SkipLine, disk, IInv, TypeOK, ImageType
<1>6. CASE OnEvent
  BY <1>6 DEF OnEvent, disk, IInv, TypeOK, ImageType
<1>7. CASE \/ ConnectFails \/ FallBack \/ TailFails \/ StreamEnds
           \/ TakeLineFails \/ InsertEventFails \/ OnEventFails
           \/ Crash \/ Start \/ Stop \/ Retry \/ Restart \/ PowerLoss
  <2>1. pc' \in {"backoff", "tailing", "crashed", "stopped", "connect"}
    BY <1>7
    DEF ConnectFails, FallBack, TailFails, StreamEnds, TakeLineFails,
        InsertEventFails, OnEventFails, Crash, Start, Stop, Retry, Restart,
        PowerLoss
  <2> QED BY <2>1
<1>8. CASE Checkpoint \/ UNCHANGED vars
  BY <1>8 DEF Checkpoint, vars, IInv
<1> QED
  BY <1>1, <1>2, <1>3, <1>4, <1>5, <1>6, <1>7, <1>8
  DEF Next, Progress, Trouble

(* The inductive invariant is inductive. *)
LEMMA StepInv == IInv /\ [Next]_vars => IInv'
  BY TypeStep, ImageStep, HandStep DEF IInv

(* The inductive invariant holds in every reachable state. *)
LEMMA Invariance == Spec => []IInv
  BY InitInv, StepInv, PTL DEF Spec

-----------------------------------------------------------------------------
(* Every variable keeps its type, whatever the bounds. *)
THEOREM TypeCorrect == Spec => []TypeOK
<1>1. IInv => TypeOK
  BY DEF IInv
<1> QED BY Invariance, <1>1, PTL

(* "No replay": no entry becomes a row twice, out of order or ahead of the *)
(* cursor, through every restart, crash, reconnect and power failure.      *)
THEOREM NeverReplays == Spec => []NoReplay
<1>1. IInv => NoReplay
  BY DEF IInv, NoReplay, ImageOK
<1> QED BY Invariance, <1>1, PTL

-----------------------------------------------------------------------------
(* Every step is a step of the abstract log or a stutter. *)
LEMMA StepMaps == IInv /\ [Next]_vars => [Log!Next]_Log!vars
<1> SUFFICES ASSUME IInv, [Next]_vars PROVE [Log!Next]_Log!vars
  OBVIOUS
<1>1. db \in ImageType /\ db.cursor \in Nat /\ db.rows \in Seq(Nat)
  BY DEF IInv, TypeOK, ImageType
<1>2. ASSUME NEW kind \in Kinds, Write(kind) PROVE Log!Write
  <2>1. Len(journal') = Len(journal) + 1 /\ UNCHANGED db
    BY <1>2 DEF Write, disk, IInv, TypeOK
  <2> QED BY <2>1 DEF Log!Write
<1>3. CASE TakeLine
  <2>1. /\ db'.cursor = pos + 1 /\ db'.rows = db.rows /\ UNCHANGED journal
    BY <1>1, <1>3 DEF TakeLine, Commit, ImageType
  <2>2. /\ db.cursor <= pos /\ pos \in Int /\ pos < Len(journal)
    BY <1>3 DEF TakeLine, IInv, TypeOK, HandInv
  <2>3. db'.cursor \in db.cursor + 1 .. Len(journal)
    BY <1>1, <2>1, <2>2
  <2> QED BY <2>1, <2>3 DEF Log!Next, Log!Take
<1>4. CASE InsertEvent
  <2>1. pos = db.cursor /\ pos >= 1 /\ \A i \in DOMAIN db.rows : db.rows[i] < pos
    BY <1>4 DEF InsertEvent, IInv, HandInv
  <2>2. /\ db'.cursor = db.cursor /\ db'.rows = Append(db.rows, pos)
        /\ UNCHANGED journal
    BY <1>1, <1>4 DEF InsertEvent, Commit, ImageType
  <2> QED BY <1>1, <2>1, <2>2 DEF Log!Next, Log!Record
<1>5. CASE PowerLoss
  <2>1. db' \in Images /\ UNCHANGED journal
    BY <1>5 DEF PowerLoss
  <2>2. CASE db' = db
    BY <2>1, <2>2 DEF Log!vars
  <2>3. CASE db' \in unsynced
    <3>1. /\ db' \in ImageType /\ db'.rows \in Seq(Nat) /\ db'.cursor \in Nat
      BY <2>3 DEF IInv, TypeOK, ImageType
    <3>2. /\ db'.cursor <= db.cursor
          /\ Len(db'.rows) <= Len(db.rows)
          /\ \A i \in 1 .. Len(db'.rows) : db'.rows[i] = db.rows[i]
      BY <2>3 DEF IInv, Older
    <3>3. \A i \in DOMAIN db'.rows : db'.rows[i] \in 1 .. db'.cursor
      BY <2>3 DEF IInv, Images, ImageOK
    <3> DEFINE n == Len(db'.rows)
    <3>4. n \in 0 .. Len(db.rows)
      BY <1>1, <3>1, <3>2
    <3>5. db'.rows = SubSeq(db.rows, 1, n)
      <4>1. /\ SubSeq(db.rows, 1, n) \in Seq(Nat)
            /\ Len(SubSeq(db.rows, 1, n)) = n
            /\ \A i \in 1 .. n : SubSeq(db.rows, 1, n)[i] = db.rows[i]
        BY <1>1, <3>4, SubSeqProperties
      <4> QED BY <3>1, <3>2, <4>1, SeqEqual
    <3>6. \A m \in 1 .. n : db.rows[m] <= db'.cursor
      BY <3>1, <3>2, <3>3
    <3>7. db'.cursor \in 0 .. db.cursor
      BY <1>1, <3>1, <3>2
    <3> QED BY <2>1, <3>4, <3>5, <3>6, <3>7 DEF Log!Next, Log!Undo
  <2> QED BY <2>1, <2>2, <2>3 DEF Images
<1>6. CASE \/ Connect \/ ConnectFails \/ FallBack \/ TailFails \/ StreamEnds
           \/ TakeLineFails \/ SkipLine \/ InsertEventFails \/ OnEventFails
           \/ OnEvent \/ Crash \/ Start \/ Stop \/ Retry \/ Restart
           \/ Checkpoint \/ UNCHANGED vars
  <2>1. UNCHANGED <<journal, db>>
    BY <1>6
    DEF Connect, ConnectFails, FallBack, TailFails, StreamEnds, TakeLineFails,
        SkipLine, InsertEventFails, OnEventFails, OnEvent, Crash, Start, Stop,
        Retry, Restart, Checkpoint, disk, vars
  <2> QED BY <2>1 DEF Log!vars
<1> QED
  BY <1>2, <1>3, <1>4, <1>5, <1>6 DEF Next, Progress, Trouble, Log!Next

(* The ingest, with its crashes, reconnects and power failures, implements *)
(* the log that takes each message at most once and in order.              *)
THEOREM Refinement == Spec => ImplementsLog
<1>1. Init => Log!Init
  BY DEF Init, Log!Init
<1> QED BY <1>1, StepMaps, Invariance, PTL DEF Spec, ImplementsLog, Log!Spec

-----------------------------------------------------------------------------
(* What JournalIngest may lose: one login per fault, and nothing at a      *)
(* reconnect once a cursor is saved.                                       *)
(*                                                                         *)
(* OneLostPerFault counts the entry in hand with its allowance; the        *)
(* invariant takes that entry out of the set instead (LostInv), so that a  *)
(* step shows which entry leaves or enters.  It needs that nothing but     *)
(* undecodable entries lies between the cursor and the reader (SkipInv).   *)

(* Lost, of an image of the database and the variables it depends on.      *)
Lose(d, from, entries, seen) ==
    {n \in from + 1 .. d.cursor :
        entries[n] = "login" /\ ~(n \in RowsIn(d.rows) /\ n \in seen)}

Flight == IF pc \in {"message", "inserted"} THEN {pos} ELSE {}

LostInv ==
    /\ Cardinality(Lose(db, base, journal, notified) \ Flight) <= faults
    /\ \A d \in unsynced :
          Cardinality(Lose(d, base, journal, notified)) <= faults + 1

SkipInv ==
    pc = "stream" =>
        \A n \in db.cursor + 1 .. pos : n > base => journal[n] = "undecodable"

PlaceInv ==
    /\ db.cursor > 0 => db.cursor <= pos
    /\ pc = "inserted" => pos \in RowsIn(db.rows)

LInv == LostInv /\ SkipInv /\ PlaceInv

-----------------------------------------------------------------------------
(* What a database has lost is finite. *)
LEMMA LoseFinite ==
  ASSUME NEW d \in ImageType, NEW from \in Nat, NEW entries, NEW seen
  PROVE  /\ IsFiniteSet(Lose(d, from, entries, seen))
         /\ Cardinality(Lose(d, from, entries, seen)) \in Nat
<1>1. IsFiniteSet(from + 1 .. d.cursor)
  BY FS_Interval DEF ImageType
<1>2. Lose(d, from, entries, seen) \in SUBSET (from + 1 .. d.cursor)
  BY DEF Lose
<1> QED BY <1>1, <1>2, FS_Subset, FS_CardinalityType

(* A subset of a finite set but for one element is at most one larger.     *)
LEMMA AtMostOneMore ==
  ASSUME NEW S, IsFiniteSet(S), NEW x, NEW T \in SUBSET S
  PROVE  /\ Cardinality(T) \in Nat /\ Cardinality(S) \in Nat
         /\ Cardinality(T) <= Cardinality(S)
         /\ Cardinality(T) <= Cardinality(S \ {x}) + 1
         /\ x \notin T => Cardinality(T) <= Cardinality(S \ {x})
<1>1. /\ IsFiniteSet(T) /\ Cardinality(T) \in Nat /\ Cardinality(S) \in Nat
      /\ Cardinality(T) <= Cardinality(S)
  BY FS_Subset, FS_CardinalityType
<1>2. /\ IsFiniteSet(S \ {x}) /\ Cardinality(S \ {x}) \in Nat
      /\ Cardinality(S \ {x}) >= Cardinality(S) - 1
  <2>1. /\ IsFiniteSet(S \ {x})
        /\ Cardinality(S \ {x}) = IF x \in S THEN Cardinality(S) - 1
                                             ELSE Cardinality(S)
    BY FS_RemoveElement
  <2>2. Cardinality(S \ {x}) \in Nat
    BY <2>1, FS_CardinalityType
  <2> QED BY <1>1, <2>1, <2>2
<1>3. x \notin T => T \in SUBSET (S \ {x})
  OBVIOUS
<1>4. x \notin T => Cardinality(T) <= Cardinality(S \ {x})
  BY <1>2, <1>3, FS_Subset
<1> QED BY <1>1, <1>2, <1>4

(* The bound that is to be proved, of the present database. *)
LEMMA LostBound ==
  ASSUME IInv, LostInv
  PROVE  Cardinality(Lose(db, base, journal, notified)) <= faults + InFlight
<1> DEFINE L == Lose(db, base, journal, notified)
<1>1. IsFiniteSet(L) /\ Cardinality(L) \in Nat /\ faults \in Nat
  BY LoseFinite, BoundsAssumption DEF IInv, TypeOK
<1>2. Cardinality(L \ Flight) <= faults
  BY DEF LostInv
<1> HIDE DEF L
<1>3. CASE pc \in {"message", "inserted"}
  <2>1. Cardinality(L) <= Cardinality(L \ {pos}) + 1 /\ Cardinality(L \ {pos}) \in Nat
    <3>1. L \in SUBSET L
      OBVIOUS
    <3> QED BY <1>1, <3>1, AtMostOneMore, FS_RemoveElement, FS_CardinalityType
  <2>2. Flight = {pos} /\ InFlight = 1
    BY <1>3 DEF Flight, InFlight
  <2>3. Cardinality(L) <= faults + InFlight
    BY <1>1, <1>2, <2>1, <2>2
  <2> QED BY <2>3 DEF L
<1>4. CASE pc \notin {"message", "inserted"}
  <2>1. Flight = {} /\ InFlight = 0
    BY <1>4 DEF Flight, InFlight
  <2>2. L \ Flight = L
    BY <2>1
  <2>3. Cardinality(L) <= faults + InFlight
    BY <1>1, <1>2, <2>1, <2>2
  <2> QED BY <2>3 DEF L
<1> QED BY <1>3, <1>4

(* An interval that begins later lies within the longer one. *)
LEMMA Within ==
  ASSUME NEW a \in Nat, NEW b \in Nat, a <= b,
         NEW c \in Nat, NEW l \in Nat, c <= l, NEW n \in b + 1 .. c
  PROVE  n \in a + 1 .. c /\ n \in 1 .. l
  OBVIOUS

(* Of an image there was, no more is lost later: its journal stays, and    *)
(* notified and base only grow.                                            *)
LEMMA LoseShrinks ==
  ASSUME IInv, NEW d \in Images, base' \in Nat, base <= base',
         notified \subseteq notified',
         \A n \in 1 .. Len(journal) : journal'[n] = journal[n]
  PROVE  /\ Lose(d, base', journal', notified')
               \in SUBSET Lose(d, base, journal, notified)
         /\ Cardinality(Lose(d, base', journal', notified'))
               <= Cardinality(Lose(d, base, journal, notified))
         /\ Cardinality(Lose(d, base', journal', notified')) \in Nat
<1>1. /\ d \in ImageType /\ base \in Nat
      /\ d.cursor \in Nat /\ d.cursor <= Len(journal) /\ Len(journal) \in Nat
  BY DEF IInv, TypeOK, ImageOK, Images, ImageType
<1>2. ASSUME NEW n \in Lose(d, base', journal', notified')
      PROVE  n \in Lose(d, base, journal, notified)
  <2>1. /\ n \in base' + 1 .. d.cursor /\ journal'[n] = "login"
        /\ ~(n \in RowsIn(d.rows) /\ n \in notified')
    BY DEF Lose
  <2>2. n \in base + 1 .. d.cursor /\ n \in 1 .. Len(journal)
    BY <1>1, <2>1, Within
  <2> QED BY <2>1, <2>2 DEF Lose
<1>3. Lose(d, base', journal', notified') \in SUBSET Lose(d, base, journal, notified)
  BY <1>2
<1>4. IsFiniteSet(Lose(d, base, journal, notified))
  BY <1>1, LoseFinite
<1>5. Cardinality(Lose(d, base', journal', notified')) \in Nat
  BY <1>1, LoseFinite
<1> QED BY <1>3, <1>4, <1>5, FS_Subset

(* The images that may come back stay within their bound. *)
LEMMA ImagesKept ==
  ASSUME IInv, LInv, base' \in Nat, base <= base', notified \subseteq notified',
         \A n \in 1 .. Len(journal) : journal'[n] = journal[n],
         faults' \in Nat, faults <= faults'
  PROVE  \A d \in Images :
            Cardinality(Lose(d, base', journal', notified')) <= faults' + 1
<1> SUFFICES ASSUME NEW d \in Images
             PROVE  Cardinality(Lose(d, base', journal', notified')) <= faults' + 1
  OBVIOUS
<1>1. /\ Cardinality(Lose(d, base', journal', notified'))
            <= Cardinality(Lose(d, base, journal, notified))
      /\ Cardinality(Lose(d, base', journal', notified')) \in Nat
  BY LoseShrinks
<1>2. d \in ImageType /\ base \in Nat /\ faults \in Nat
  BY BoundsAssumption DEF IInv, TypeOK, Images
<1>3. Cardinality(Lose(d, base, journal, notified)) \in Nat
  BY <1>2, LoseFinite
<1>4. Cardinality(Lose(d, base, journal, notified)) <= faults + 1
  <2>1. CASE d \in unsynced
    BY <2>1 DEF LInv, LostInv
  <2>2. CASE d = db
    BY <1>2, <1>3, <2>2, LostBound DEF LInv, InFlight
  <2> QED BY <2>1, <2>2 DEF Images
<1> QED BY <1>1, <1>2, <1>3, <1>4

(* A step that commits nothing keeps the bounds, if the entry in hand      *)
(* stays there, if there was none, or if the step is a fault.              *)
LEMMA QuietLost ==
  ASSUME IInv, LInv, db' = db, unsynced' \subseteq Images,
         base' \in Nat, base <= base', notified \subseteq notified',
         \A n \in 1 .. Len(journal) : journal'[n] = journal[n],
         faults' \in Nat,
         \/ faults' = faults /\ Flight' = Flight
         \/ faults' = faults /\ Flight = {}
         \/ faults' = faults + 1
  PROVE  LostInv'
<1> DEFINE old == Lose(db, base, journal, notified)
           new == Lose(db, base', journal', notified')
<1>1. /\ new \in SUBSET old /\ db \in ImageType /\ base \in Nat /\ faults \in Nat
  BY LoseShrinks, BoundsAssumption DEF IInv, TypeOK, Images
<1>2. /\ IsFiniteSet(old) /\ Cardinality(old) \in Nat
      /\ IsFiniteSet(new) /\ Cardinality(new) \in Nat
  BY <1>1, LoseFinite
<1>3. Cardinality(old \ Flight) <= faults /\ Cardinality(old) <= faults + 1
  BY <1>1, <1>2, LostBound DEF LInv, LostInv, InFlight
<1>4. /\ Cardinality(new) <= Cardinality(old)
      /\ new \ Flight' \in SUBSET new
  BY <1>1, <1>2, FS_Subset
<1>5. /\ Cardinality(new \ Flight') <= Cardinality(new)
      /\ Cardinality(new \ Flight') \in Nat
      /\ IsFiniteSet(old \ Flight)
      /\ Cardinality(old \ Flight) \in Nat
  <2>1. old \ Flight \in SUBSET old
    OBVIOUS
  <2> QED BY <1>2, <1>4, <2>1, FS_Subset, FS_CardinalityType
<1>6. Cardinality(new \ Flight') <= faults'
  <2>1. CASE faults' = faults + 1
    BY <1>1, <1>2, <1>3, <1>4, <1>5, <2>1
  <2>2. CASE faults' = faults /\ (Flight' = Flight \/ Flight = {})
    <3>1. new \ Flight' \in SUBSET (old \ Flight)
      BY <1>1, <2>2
    <3> QED BY <1>3, <1>5, <2>2, <3>1, FS_Subset
  <2> QED BY <2>1, <2>2
<1>7. \A d \in unsynced' :
         Cardinality(Lose(d, base', journal', notified')) <= faults' + 1
  BY <1>1, ImagesKept
<1> QED BY <1>6, <1>7 DEF LostInv

(* A commit keeps the bounds if all it makes missing is the entry in hand. *)
LEMMA CommitLost ==
  ASSUME IInv, LInv, IInv', NEW new, Commit(new), UNCHANGED <<journal, history, faults>>,
         Lose(new, base, journal, notified) \ Flight'
            \subseteq Lose(db, base, journal, notified) \ Flight
  PROVE  LostInv'
<1>1. /\ db' = new /\ unsynced' = Images /\ base' = base /\ notified' = notified
      /\ journal' = journal /\ faults' = faults
  BY DEF Commit, Images, history
<1>2. base \in Nat /\ faults \in Nat /\ db \in ImageType
  BY BoundsAssumption DEF IInv, TypeOK
<1>3. \A d \in unsynced' :
         Cardinality(Lose(d, base', journal', notified')) <= faults' + 1
  BY <1>1, <1>2, ImagesKept
<1> DEFINE old == Lose(db, base, journal, notified) \ Flight
           rest == Lose(new, base, journal, notified) \ Flight'
<1>4. IsFiniteSet(old) /\ Cardinality(old) <= faults
  <2>1. old \in SUBSET Lose(db, base, journal, notified)
    OBVIOUS
  <2> QED BY <1>2, <2>1, LoseFinite, FS_Subset DEF LInv, LostInv
<1>5. rest \in SUBSET old
  OBVIOUS
<1>6. Cardinality(rest) <= faults
  <2> HIDE DEF rest, old
  <2> QED BY <1>2, <1>4, <1>5, FS_Subset, FS_CardinalityType
<1> QED BY <1>1, <1>3, <1>6 DEF LostInv

-----------------------------------------------------------------------------
(* The invariant holds initially. *)
LEMMA LostInit == Init => LInv
<1> SUFFICES ASSUME Init PROVE LInv
  OBVIOUS
<1>1. Lose(db, base, journal, notified) = {}
  BY DEF Init, Lose
<1>2. Cardinality(Lose(db, base, journal, notified) \ Flight) = 0
  BY <1>1, FS_EmptySet
<1> QED BY <1>2 DEF Init, LInv, LostInv, SkipInv, PlaceInv

(* Every step keeps the bounds. *)
LEMMA LostStep == IInv /\ LInv /\ [Next]_vars => LostInv'
<1> SUFFICES ASSUME IInv, LInv, [Next]_vars PROVE LostInv'
  OBVIOUS
<1> USE BoundsAssumption
<1>T. /\ base \in Nat /\ base <= Len(journal) /\ Len(journal) \in Nat
      /\ faults \in Nat /\ pos \in Int /\ db \in ImageType
      /\ db.cursor \in Nat /\ db.rows \in Seq(Nat) /\ db.cursor <= Len(journal)
  BY DEF IInv, TypeOK, ImageType, Images, ImageOK
<1>I. IInv'
  BY StepInv
<1>1. ASSUME NEW kind \in Kinds, Write(kind) PROVE LostInv'
  <2>1. \A n \in 1 .. Len(journal) : journal'[n] = journal[n]
    BY <1>1 DEF Write, IInv, TypeOK
  <2>2. /\ db' = db /\ unsynced' \subseteq Images /\ base' = base
        /\ notified' = notified /\ faults' = faults /\ Flight' = Flight
    BY <1>1 DEF Write, disk, history, counters, Images, Flight
  <2> QED BY <1>T, <2>1, <2>2, QuietLost
<1>2. CASE Connect
  <2>1. /\ db' = db /\ unsynced' \subseteq Images /\ base' \in Nat /\ base <= base'
        /\ notified' = notified /\ faults' = faults /\ Flight = {} /\ journal' = journal
    BY <1>2, <1>T DEF Connect, disk, counters, Images, Flight
  <2> QED BY <1>T, <2>1, QuietLost
<1>3. CASE \/ ConnectFails \/ FallBack \/ TailFails \/ StreamEnds \/ TakeLineFails
           \/ SkipLine \/ Retry \/ Start \/ Stop \/ Restart \/ Checkpoint
           \/ UNCHANGED vars
  <2>1. /\ db' = db /\ unsynced' \subseteq Images /\ base' = base
        /\ notified' = notified /\ faults' = faults /\ journal' = journal
    BY <1>3
    DEF ConnectFails, FallBack, TailFails, StreamEnds, TakeLineFails, SkipLine,
        Retry, Start, Stop, Restart, Checkpoint, vars, disk, history, counters,
        Images, Drop
  <2>2. Flight' = Flight \/ Flight = {}
    BY <1>3
    DEF ConnectFails, FallBack, TailFails, StreamEnds, TakeLineFails, SkipLine,
        Retry, Start, Stop, Restart, Checkpoint, vars, Flight
  <2> QED BY <1>T, <2>1, <2>2, QuietLost
<1>4. CASE InsertEventFails \/ OnEventFails \/ Crash
  <2>1. /\ db' = db /\ unsynced' \subseteq Images /\ base' = base
        /\ notified' = notified /\ faults' = faults + 1 /\ journal' = journal
    BY <1>4 DEF InsertEventFails, OnEventFails, Crash, disk, history, Images, Fault
  <2> QED BY <1>T, <2>1, QuietLost
<1>5. CASE TakeLine
  <2> DEFINE new == [db EXCEPT !.cursor = pos + 1]
  <2>1. /\ Commit(new) /\ UNCHANGED <<journal, history, faults>>
        /\ pc = "stream" /\ pos < Len(journal) /\ pos' = pos + 1
        /\ pc' = IF journal[pos + 1] = "login" THEN "message" ELSE "stream"
    BY <1>5 DEF TakeLine, counters
  <2>2. new.cursor = pos + 1 /\ new.rows = db.rows
    BY <1>T DEF ImageType
  <2> HIDE DEF new
  <2>3. ASSUME NEW n \in Lose(new, base, journal, notified), n \notin Flight'
        PROVE  n \in Lose(db, base, journal, notified) \ Flight
    <3>1. /\ n \in base + 1 .. pos + 1 /\ journal[n] = "login"
          /\ ~(n \in RowsIn(db.rows) /\ n \in notified)
      BY <2>2 DEF Lose
    <3>2. n # pos + 1
      BY <2>1, <2>3, <3>1 DEF Flight
    <3>3. n <= db.cursor
      BY <1>T, <2>1, <3>1, <3>2 DEF LInv, SkipInv
    <3> QED BY <1>T, <2>1, <3>1, <3>3 DEF Lose, Flight
  <2> QED BY <1>I, <2>1, <2>3, CommitLost
<1>6. CASE InsertEvent
  <2> DEFINE new == [db EXCEPT !.rows = Append(@, pos)]
  <2>1. /\ Commit(new) /\ UNCHANGED <<journal, history, faults>>
        /\ pc = "message" /\ pc' = "inserted" /\ pos' = pos /\ pos \in Nat
    BY <1>6, <1>T DEF InsertEvent, counters, IInv, HandInv
  <2>2. new.cursor = db.cursor /\ new.rows = Append(db.rows, pos)
    BY <1>T DEF ImageType
  <2>3. RowsIn(db.rows) \subseteq RowsIn(new.rows)
    <3> SUFFICES ASSUME NEW i \in DOMAIN db.rows
                 PROVE  \E j \in DOMAIN new.rows : db.rows[i] = new.rows[j]
      BY DEF RowsIn
    <3>1. i \in DOMAIN Append(db.rows, pos) /\ Append(db.rows, pos)[i] = db.rows[i]
      <4>1. db.rows \in Seq(Nat)
        BY <1>T DEF ImageType
      <4> QED BY <2>1, <4>1, AppendFacts
    <3> QED BY <2>2, <3>1
  <2> HIDE DEF new
  <2>4. Lose(new, base, journal, notified) \subseteq Lose(db, base, journal, notified)
    BY <2>2, <2>3 DEF Lose
  <2>5. Flight' = Flight
    BY <2>1 DEF Flight
  <2> QED BY <1>I, <2>1, <2>4, <2>5, CommitLost
<1>7. CASE OnEvent
  <2>1. /\ pc = "inserted" /\ pc' = "stream" /\ notified' = notified \cup {pos}
        /\ UNCHANGED <<journal, db, unsynced, base, faults>>
    BY <1>7 DEF OnEvent, disk, counters
  <2>2. pos \in RowsIn(db.rows)
    BY <2>1 DEF LInv, PlaceInv
  <2> DEFINE old == Lose(db, base, journal, notified)
             new == Lose(db, base, journal, notified')
  <2>3. new \in SUBSET old /\ pos \notin new
    BY <2>1, <2>2 DEF Lose
  <2>4. IsFiniteSet(old) /\ Flight = {pos} /\ Flight' = {}
    BY <1>T, <2>1, LoseFinite DEF Flight
  <2>5. Cardinality(old \ {pos}) <= faults
    BY <2>4 DEF LInv, LostInv
  <2>6. Cardinality(new) <= faults
    <3>1. /\ Cardinality(new) <= Cardinality(old \ {pos})
          /\ Cardinality(new) \in Nat
      <4> HIDE DEF new, old
      <4> QED BY <2>3, <2>4, AtMostOneMore
    <3>2. Cardinality(old \ {pos}) \in Nat
      <4> HIDE DEF new, old
      <4> QED BY <2>4, FS_RemoveElement, FS_CardinalityType
    <3> QED BY <1>T, <2>5, <3>1, <3>2
  <2>7. new \ Flight' = new
    BY <2>4
  <2>8. \A d \in unsynced' :
           Cardinality(Lose(d, base', journal', notified')) <= faults' + 1
    <3>1. /\ \A n \in 1 .. Len(journal) : journal'[n] = journal[n]
          /\ base' \in Nat /\ base <= base' /\ faults' \in Nat /\ faults <= faults'
          /\ notified \subseteq notified' /\ unsynced' \subseteq Images
      BY <1>T, <2>1 DEF Images
    <3> QED BY <3>1, ImagesKept
  <2> QED BY <2>1, <2>6, <2>7, <2>8 DEF LostInv
<1>8. CASE PowerLoss
  <2>1. /\ db' \in Images /\ unsynced' = {} /\ pc' = "crashed"
        /\ UNCHANGED <<journal, base, notified>> /\ faults' = faults + 1
    BY <1>8 DEF PowerLoss, history, Fault
  <2>2. \A d \in Images : Cardinality(Lose(d, base, journal, notified)) <= faults + 1
    <3>1. \A d \in unsynced : Cardinality(Lose(d, base, journal, notified)) <= faults + 1
      BY DEF LInv, LostInv
    <3>2. Cardinality(Lose(db, base, journal, notified)) <= faults + InFlight
      BY LostBound DEF LInv
    <3>3. Cardinality(Lose(db, base, journal, notified)) \in Nat
      BY <1>T, LoseFinite
    <3> QED BY <1>T, <3>1, <3>2, <3>3 DEF Images, InFlight
  <2>3. Cardinality(Lose(db', base', journal', notified')) <= faults'
    BY <2>1, <2>2
  <2>4. Flight' = {}
    BY <2>1 DEF Flight
  <2>5. Lose(db', base', journal', notified') \ Flight'
          = Lose(db', base', journal', notified')
    BY <2>4
  <2> QED BY <2>1, <2>3, <2>5 DEF LostInv
<1> QED
  BY <1>1, <1>2, <1>3, <1>4, <1>5, <1>6, <1>7, <1>8 DEF Next, Progress, Trouble

(* Every step keeps what is known of the reader's place. *)
LEMMA PlaceStep == IInv /\ LInv /\ [Next]_vars => SkipInv' /\ PlaceInv'
<1> SUFFICES ASSUME IInv, LInv, [Next]_vars PROVE SkipInv' /\ PlaceInv'
  OBVIOUS
<1>T. /\ base \in Nat /\ Len(journal) \in Nat /\ pos \in -1 .. Len(journal)
      /\ db \in ImageType /\ db.cursor \in Nat /\ db.rows \in Seq(Nat)
      /\ SkipInv /\ PlaceInv
  BY DEF IInv, LInv, TypeOK, ImageType
<1>1. ASSUME NEW kind \in Kinds, Write(kind) PROVE SkipInv' /\ PlaceInv'
  <2>1. /\ \A n \in 1 .. Len(journal) : journal'[n] = journal[n]
        /\ UNCHANGED <<db, pc, pos, base>>
    BY <1>1 DEF Write, disk, history, IInv, TypeOK
  <2> QED BY <1>T, <2>1 DEF SkipInv, PlaceInv
<1>2. CASE Connect
  BY <1>T, <1>2 DEF Connect, disk, SkipInv, PlaceInv
<1>3. CASE SkipLine
  BY <1>T, <1>3 DEF SkipLine, disk, history, SkipInv, PlaceInv
<1>4. CASE TakeLine
  <2>1. /\ db'.cursor = pos + 1 /\ pos' = pos + 1 /\ pc' # "inserted"
    BY <1>T, <1>4 DEF TakeLine, Commit, ImageType
  <2> QED BY <1>T, <2>1 DEF SkipInv, PlaceInv
<1>5. CASE InsertEvent
  <2>1. /\ db'.cursor = db.cursor /\ db'.rows = Append(db.rows, pos)
        /\ pc' = "inserted" /\ pos' = pos /\ pos \in Nat
    BY <1>T, <1>5 DEF InsertEvent, Commit, ImageType, IInv, HandInv
  <2>2. pos \in RowsIn(db'.rows)
    BY <1>T, <2>1, AppendFacts DEF RowsIn
  <2> QED BY <1>T, <2>1, <2>2 DEF SkipInv, PlaceInv
<1>6. CASE OnEvent
  BY <1>T, <1>6 DEF OnEvent, disk, SkipInv, PlaceInv, IInv, HandInv
<1>7. CASE PowerLoss
  <2>1. db' \in Images /\ pc' = "crashed" /\ pos' = pos
    BY <1>7 DEF PowerLoss
  <2>2. db'.cursor \in Nat /\ db'.cursor <= db.cursor
    BY <1>T, <2>1 DEF Images, IInv, TypeOK, ImageType, Older
  <2> QED BY <1>T, <2>1, <2>2 DEF SkipInv, PlaceInv
<1>8. CASE Checkpoint \/ UNCHANGED vars
  BY <1>T, <1>8 DEF Checkpoint, history, vars, SkipInv, PlaceInv
<1>9. CASE \/ ConnectFails \/ FallBack \/ TailFails \/ StreamEnds \/ TakeLineFails
           \/ InsertEventFails \/ OnEventFails \/ Crash \/ Retry \/ Start \/ Stop
           \/ Restart
  <2>1. UNCHANGED <<db, pos>> /\ pc' \notin {"stream", "inserted"}
    BY <1>9
    DEF ConnectFails, FallBack, TailFails, StreamEnds, TakeLineFails,
        InsertEventFails, OnEventFails, Crash, Retry, Start, Stop, Restart, disk
  <2> QED BY <1>T, <2>1 DEF SkipInv, PlaceInv
<1> QED
  BY <1>1, <1>2, <1>3, <1>4, <1>5, <1>6, <1>7, <1>8, <1>9
  DEF Next, Progress, Trouble

(* Both invariants hold in every reachable state. *)
LEMMA LostInvariance == Spec => [](IInv /\ LInv)
<1>1. Init => IInv /\ LInv
  BY InitInv, LostInit
<1>2. IInv /\ LInv /\ [Next]_vars => (IInv /\ LInv)'
  BY StepInv, LostStep, PlaceStep DEF LInv
<1> QED BY <1>1, <1>2, PTL DEF Spec

-----------------------------------------------------------------------------
(* Restarts, reconnects, fallbacks and SIGTERMs lose no login, and a fault *)
(* loses at most the one in hand, for any number of each.                  *)
THEOREM OneIsLostPerFault == Spec => []OneLostPerFault
<1>1. ASSUME IInv, LInv PROVE OneLostPerFault
  <2>1. \A d : Lost(d) = Lose(d, base, journal, notified)
    BY DEF Lost, Lose
  <2>2. Cardinality(Lost(db)) <= faults + InFlight
    BY <1>1, <2>1, LostBound DEF LInv
  <2>3. \A d \in unsynced : Cardinality(Lost(d)) <= faults + 1
    BY <1>1, <2>1 DEF LInv, LostInv
  <2> QED BY <2>2, <2>3 DEF OneLostPerFault
<1> QED BY <1>1, LostInvariance, PTL

(* Only a connection that finds no cursor skips entries.                   *)
THEOREM Resumes == Spec => ResumesAfterFirstMessage
<1>1. ASSUME IInv, LInv, [Next]_vars
      PROVE  [pc = "connect" /\ pc' = "stream" /\ pos' > pos
                => db.cursor = 0 /\ base' = Len(journal)]_vars
  <2> SUFFICES ASSUME Next, pc = "connect", pc' = "stream", pos' > pos
               PROVE  db.cursor = 0 /\ base' = Len(journal)
    BY <1>1
  <2>1. Connect
    BY DEF Next, Progress, Trouble, Write, Restart, SkipLine, TakeLine,
           InsertEvent, OnEvent, Retry, ConnectFails, FallBack, TailFails,
           StreamEnds, TakeLineFails, InsertEventFails, OnEventFails, Crash,
           PowerLoss, Start, Stop, Checkpoint
  <2>2. /\ db.cursor \in Nat /\ pos \in Int
        /\ db.cursor > 0 => db.cursor <= pos
    BY <1>1 DEF IInv, LInv, PlaceInv, TypeOK, ImageType
  <2> QED BY <2>1, <2>2 DEF Connect
<1> QED BY <1>1, LostInvariance, PTL DEF Spec, ResumesAfterFirstMessage

=============================================================================
