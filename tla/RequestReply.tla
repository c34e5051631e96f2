----------------------------- MODULE RequestReply -----------------------------
(***************************************************************************)
(* What a caller of _send_and_wait may rely on, whatever connections,      *)
(* daemons and timeouts do: a request is answered at most once, by its own *)
(* answer, or fails; an answer never comes unasked or after the failure,   *)
(* and no request goes away without either.                                *)
(***************************************************************************)
CONSTANTS
    Callers,
    Requests    \* the commands a caller may send

VARIABLE exchange   \* what each caller is at

Idle == [st |-> "idle"]
Failed == [st |-> "failed"]
Asked(r) == [st |-> "asked", request |-> r]
Answered(r) == [st |-> "answered", request |-> r]

Init == exchange = [c \in Callers |-> Idle]

(* A caller that waits for nothing asks, perhaps as soon as it has its last *)
(* answer; without a connection that fails at once.                        *)
Asks(c) ==
    /\ exchange[c].st \in {"idle", "answered"}
    /\ exchange'[c] \in {Failed} \cup {Asked(r) : r \in Requests}

Receives(c) ==
    /\ exchange[c].st = "asked"
    /\ exchange'[c] \in {Failed, Answered(exchange[c].request)}

(* It is done with what it got. *)
Leaves(c) ==
    /\ exchange[c].st \in {"answered", "failed"}
    /\ exchange'[c] = Idle

(* Several may move at once: a connection that is lost fails them all.     *)
Next ==
    /\ DOMAIN exchange' = Callers
    /\ \A c \in Callers :
          UNCHANGED exchange[c] \/ Asks(c) \/ Receives(c) \/ Leaves(c)

Spec == Init /\ [][Next]_exchange

=============================================================================
