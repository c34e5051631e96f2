--------------------------- MODULE AtMostOnceLog ---------------------------
(***************************************************************************)
(* What the SSH ingest promises of the journal it follows, stated without  *)
(* its mechanism: a message is taken from the journal once, messages are   *)
(* taken in journal order, a message that is taken is recorded at once or  *)
(* never, and only a power failure undoes the end of what was taken.       *)
(***************************************************************************)
EXTENDS Integers, Sequences

VARIABLES
    written,    \* how many messages the journal holds
    taken,      \* the last message that was taken from it (0: none yet)
    recorded    \* the recorded messages, by journal position, oldest first

vars == <<written, taken, recorded>>

Init ==
    /\ written = 0
    /\ taken = 0
    /\ recorded = <<>>

Write ==
    /\ written' = written + 1
    /\ UNCHANGED <<taken, recorded>>

(* Taking a message gives up every message before it. *)
Take ==
    /\ taken' \in taken + 1 .. written
    /\ UNCHANGED <<written, recorded>>

(* Only the message taken last can be recorded, and only once. *)
Record ==
    /\ taken > 0
    /\ \A n \in DOMAIN recorded : recorded[n] < taken
    /\ recorded' = Append(recorded, taken)
    /\ UNCHANGED <<written, taken>>

(* A power failure forgets a suffix of what was taken and recorded. *)
Undo ==
    /\ taken' \in 0 .. taken
    /\ \E n \in 0 .. Len(recorded) :
          /\ recorded' = SubSeq(recorded, 1, n)
          /\ \A m \in 1 .. n : recorded[m] <= taken'
    /\ UNCHANGED written

Next == Write \/ Take \/ Record \/ Undo

Spec == Init /\ [][Next]_vars

=============================================================================
