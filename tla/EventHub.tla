------------------------------ MODULE EventHub ------------------------------
(***************************************************************************)
(* OmniaServer: its clients, the commands that change what a client gets,  *)
(* broadcast, and the tasks that call it -- run_metrics_loop, which awaits *)
(* it, and the tasks made for each login event and each speed test -- up   *)
(* to main's shutdown.                                                     *)
(*                                                                         *)
(* broadcast copies the client set and writes to one subscriber after the  *)
(* other; it yields only where a drain has to wait, that is when the       *)
(* transport holds more than the peer has read.  Lines are counted, not    *)
(* kept.  The order of a set is arbitrary, and a client wakes the drains   *)
(* that wait for it in any order.                                          *)
(***************************************************************************)
EXTENDS Naturals, FiniteSets

CONSTANTS
    Clients,        \* connections to the socket, each used again once closed
    Events,         \* login events and speedtest results, broadcast by a task
    Metrics,        \* the broadcast of run_metrics_loop
    NoClient,
    WaitsForClients,  \* wait_closed waits for them (Python 3.12.1 on)
    HighWater,      \* lines a transport holds before drain waits
    MaxSnapshots,   \* bound: snapshots taken
    MaxJoins,       \* bound: connections accepted
    MaxStalls       \* bound: times a peer stops reading

ASSUME HubAssumption ==
    /\ IsFiniteSet(Clients) /\ NoClient \notin Clients
    /\ IsFiniteSet(Events) /\ Metrics \notin Events
    /\ WaitsForClients \in BOOLEAN
    /\ HighWater \in Nat /\ MaxSnapshots \in Nat
    /\ MaxJoins \in Nat /\ MaxStalls \in Nat

Broadcasts == Events \cup {Metrics}

VARIABLES
    phase,      \* "running", "closing" in wait_closed, "stopped"
    connected,  \* _clients
    subscribed, \* those with the streams in their subscriptions
    peer,       \* the other end: "none", "reading", "stalled", "gone"
    unread,     \* lines written to each and not read by it
    handler,    \* _handle_client: "none", "reading", "draining"
    sending,    \* each broadcast: st, at: the client whose drain it awaits,
                \* left: the clients it has not come to
    latest,     \* the number of _latest_snapshot
    alive,      \* run_metrics_loop has not ended by an exception
    joins, stalls,  \* bounded counters
    shown,      \* history: the newest snapshot written to each client
    owed        \* history: for each event, who was subscribed when it went
                \* out, is still, and has not been written it

clientVars == <<connected, subscribed, peer, unread, handler>>
counters == <<joins, stalls>>
told == <<shown, owed>>
vars == <<phase, clientVars, sending, latest, alive, counters, told>>

Idle == [st |-> "none", at |-> NoClient, left |-> {}]
Over == [Idle EXCEPT !.st = "over"]

Init ==
    /\ phase = "running"
    /\ connected = {} /\ subscribed = {}
    /\ peer = [c \in Clients |-> "none"]
    /\ unread = [c \in Clients |-> 0]
    /\ handler = [c \in Clients |-> "none"]
    /\ sending = [b \in Broadcasts |-> Idle]
    /\ latest = 0
    /\ alive = TRUE
    /\ joins = 0 /\ stalls = 0
    /\ shown = [c \in Clients |-> 0]
    /\ owed = [e \in Events |-> {}]

(* The transport is above its high-water mark.  The low mark, under which   *)
(* it wakes the drains, is taken to be the same.                           *)
Paused(lines) == lines > HighWater

-----------------------------------------------------------------------------
(* Writing.                                                                *)

There(c) == peer[c] \in {"reading", "stalled"}

(* What a write to c makes of it: nothing once the peer is gone. *)
After(c) == IF There(c) THEN unread[c] + 1 ELSE unread[c]

(* The drain behind that write has to wait. *)
Waits(c) == There(c) /\ Paused(After(c))

(* b writes to those among W, and has come past them. *)
WriteTo(b, to) ==
    /\ unread' = [c \in Clients |-> IF c \in to THEN After(c) ELSE unread[c]]
    /\ shown' = [c \in Clients |->
                    IF b = Metrics /\ c \in to THEN latest' ELSE shown[c]]
    /\ owed' = [e \in Events |->
                    IF e # b THEN owed[e]
                    ELSE (IF sending[b].st = "due" THEN subscribed
                          ELSE owed[b]) \ to]

(* A plausible bug: the error of a dead connection ends the round.         *)
WriteOrRaise(b, W) ==
    LET to == W \cap subscribed
    IN  \E upTo \in SUBSET to :
           /\ upTo # to => \E c \in to : ~There(c)
           /\ WriteTo(b, upTo)

(* Of W, only the subscribers are written to. *)
Write(b, W) == WriteTo(b, W \cap subscribed)

(* A plausible bug: a drain on a connection that was closed is not woken.  *)
WakesIfRead(c) == There(c) /\ ~Paused(unread[c])

(* A drain that waits goes on. *)
Wakes(c) == ~There(c) \/ ~Paused(unread[c])

-----------------------------------------------------------------------------
(* More plausible bugs, one for each property the runs check: none is in   *)
(* Next.                                                                   *)

(* The snapshot is stored after it has been broadcast. *)
SnapshotBefore == IF sending[Metrics].st = "sending" THEN latest - 1 ELSE latest

(* main waits for its tasks to end instead of cancelling them. *)
NothingRuns == connected = {} /\ ~alive

-----------------------------------------------------------------------------
(* broadcast.                                                              *)

(* From the clients left on, up to a drain that waits or to the end.       *)
Send(b, left) ==
    \/ /\ \A c \in left \cap subscribed : ~Waits(c)
       /\ Write(b, left)
       /\ sending' = [sending EXCEPT ![b] = Over]
    \/ \E c \in left \cap subscribed, W \in SUBSET left :
          /\ Waits(c) /\ c \notin W
          /\ \A d \in W \cap subscribed : ~Waits(d)
          /\ Write(b, W \cup {c})
          /\ sending' = [sending EXCEPT ![b] =
                [st |-> "sending", at |-> c, left |-> left \ (W \cup {c})]]

GoesOn(b) ==
    /\ sending[b].st = "sending"
    /\ Wakes(sending[b].at)
    /\ UNCHANGED <<phase, connected, subscribed, peer, handler,
                   latest, alive, counters>>
    /\ Send(b, sending[b].left)

(* run_metrics_loop: the snapshot is stored, then sent to everyone before  *)
(* the loop sleeps and takes the next.                                     *)
TakeSnapshot ==
    /\ alive
    /\ sending[Metrics].st # "sending"
    /\ latest < MaxSnapshots
    /\ latest' = latest + 1
    /\ Send(Metrics, connected)
    /\ UNCHANGED <<phase, connected, subscribed, peer, handler,
                   alive, counters>>

(* metrics.snapshot, on_metrics_snapshot or the flush raises: nothing      *)
(* catches it, and the task is over while the daemon goes on.              *)
MetricsLoopEnds ==
    /\ alive
    /\ sending[Metrics].st # "sending"
    /\ alive' = FALSE
    /\ UNCHANGED <<phase, clientVars, sending, latest, counters, told>>

(* on_event, or a speed test: a task is made for the broadcast. *)
Post(e) ==
    /\ sending[e].st = "none"
    /\ sending' = [sending EXCEPT ![e].st = "due"]
    /\ UNCHANGED <<phase, clientVars, latest, alive, counters, told>>

(* The task starts. *)
Starts(e) ==
    /\ sending[e].st = "due"
    /\ UNCHANGED <<phase, connected, subscribed, peer, handler,
                   latest, alive, counters>>
    /\ Send(e, connected)

-----------------------------------------------------------------------------
(* _handle_client and _dispatch.                                           *)

(* A plausible bug: the answer is written and not drained. *)
NeverDrains(c) == "reading"

(* Where the handler is after its answer: in send's drain, or at the next  *)
(* line.                                                                   *)
AnswerSent(c) == IF Paused(unread[c] + 1) THEN "draining" ELSE "reading"

Answer(c) ==
    /\ phase # "stopped"
    /\ handler[c] = "reading"
    /\ peer[c] = "reading"
    /\ unread' = [unread EXCEPT ![c] = @ + 1]
    /\ handler' = [handler EXCEPT ![c] = AnswerSent(c)]
    /\ UNCHANGED <<phase, connected, peer, sending, latest, alive,
                   counters>>

Subscribe(c) ==
    /\ Answer(c)
    /\ subscribed' = subscribed \cup {c}
    /\ UNCHANGED told

(* Events that are going out no longer reach it. *)
Unsubscribe(c) ==
    /\ c \in subscribed
    /\ Answer(c)
    /\ subscribed' = subscribed \ {c}
    /\ owed' = [e \in Events |-> owed[e] \ {c}]
    /\ UNCHANGED shown

SnapshotAnswered == latest

GetSnapshot(c) ==
    /\ Answer(c)
    /\ shown' = [shown EXCEPT ![c] = SnapshotAnswered]
    /\ UNCHANGED <<subscribed, owed>>

(* The commands that only read or act elsewhere, an unknown one, a line    *)
(* that is no JSON, a handler that raises.                                 *)
OtherCommand(c) ==
    /\ Answer(c)
    /\ UNCHANGED <<subscribed, told>>

Drained(c) ==
    /\ handler[c] = "draining"
    /\ Wakes(c)
    /\ handler' = [handler EXCEPT ![c] = "reading"]
    /\ UNCHANGED <<phase, connected, subscribed, peer, unread, sending,
                   latest, alive, counters, told>>

Reaps(c) == peer[c] = "gone"

(* readline finds the end of the stream.  A broadcast that still has the   *)
(* closed connection before it writes to nobody there: it is taken off its *)
(* list here, so that c can stand for another connection.                  *)
Leave(c) ==
    /\ handler[c] = "reading"
    /\ Reaps(c)
    /\ connected' = connected \ {c}
    /\ subscribed' = subscribed \ {c}
    /\ peer' = [peer EXCEPT ![c] = "none"]
    /\ handler' = [handler EXCEPT ![c] = "none"]
    /\ sending' = [b \in Broadcasts |-> [sending[b] EXCEPT !.left = @ \ {c}]]
    /\ shown' = [shown EXCEPT ![c] = 0]
    /\ owed' = [e \in Events |-> owed[e] \ {c}]
    /\ UNCHANGED <<phase, unread, latest, alive, counters>>

-----------------------------------------------------------------------------
(* The other ends of the socket.                                           *)

(* A new connection; a broadcast under way does not have it on its list.   *)
Join(c) ==
    /\ phase = "running"
    /\ joins < MaxJoins
    /\ handler[c] = "none"
    /\ \A b \in Broadcasts : sending[b].at # c
    /\ joins' = joins + 1
    /\ connected' = connected \cup {c}
    /\ peer' = [peer EXCEPT ![c] = "reading"]
    /\ handler' = [handler EXCEPT ![c] = "reading"]
    /\ UNCHANGED <<phase, subscribed, unread, sending, latest, alive,
                   stalls, told>>

Read(c) ==
    /\ peer[c] = "reading"
    /\ unread[c] > 0
    /\ unread' = [unread EXCEPT ![c] = @ - 1]
    /\ UNCHANGED <<phase, connected, subscribed, peer, handler, sending,
                   latest, alive, counters, told>>

(* A suspended terminal, a hung ssh. *)
Stall(c) ==
    /\ peer[c] = "reading"
    /\ stalls < MaxStalls
    /\ stalls' = stalls + 1
    /\ peer' = [peer EXCEPT ![c] = "stalled"]
    /\ UNCHANGED <<phase, connected, subscribed, unread, handler,
                   sending, latest, alive, joins, told>>

ReadsAgain(c) ==
    /\ peer[c] = "stalled"
    /\ peer' = [peer EXCEPT ![c] = "reading"]
    /\ UNCHANGED <<phase, connected, subscribed, unread, handler,
                   sending, latest, alive, counters, told>>

(* What was not read is lost. *)
HangUp(c) ==
    /\ peer[c] \in {"reading", "stalled"}
    /\ peer' = [peer EXCEPT ![c] = "gone"]
    /\ unread' = [unread EXCEPT ![c] = 0]
    /\ owed' = [e \in Events |-> owed[e] \ {c}]
    /\ UNCHANGED <<phase, connected, subscribed, handler, sending,
                   latest, alive, counters, shown>>

-----------------------------------------------------------------------------
(* main.                                                                   *)

(* SIGTERM: the socket is closed and wait_closed awaited, and every task   *)
(* goes on meanwhile.                                                      *)
StopSignal ==
    /\ phase = "running"
    /\ phase' = "closing"
    /\ UNCHANGED <<clientVars, sending, latest, alive, counters, told>>

CanStop == WaitsForClients => connected = {}

(* The tasks are cancelled, the database is closed, asyncio.run cancels    *)
(* what is left.                                                           *)
Stop ==
    /\ phase = "closing"
    /\ CanStop
    /\ phase' = "stopped"
    /\ UNCHANGED <<clientVars, sending, latest, alive, counters, told>>

-----------------------------------------------------------------------------
Serving(c) ==
    \/ Subscribe(c) \/ Unsubscribe(c) \/ GetSnapshot(c) \/ OtherCommand(c)
    \/ Drained(c) \/ Leave(c)

Peer(c) == Join(c) \/ Read(c) \/ Stall(c) \/ ReadsAgain(c) \/ HangUp(c)

Next ==
    \/ /\ phase # "stopped"
       /\ \/ TakeSnapshot \/ MetricsLoopEnds
          \/ \E b \in Broadcasts : GoesOn(b)
          \/ \E e \in Events : Post(e) \/ Starts(e)
          \/ \E c \in Clients : Serving(c) \/ Peer(c)
    \/ StopSignal \/ Stop

Spec == Init /\ [][Next]_vars

(* The event loop runs every task that can run, and a client that is not   *)
(* stalled reads what it is sent.  Drains are strongly fair: the transport *)
(* that falls to its low mark schedules everyone who waits for it, and     *)
(* they run even if it fills again first.  No client has to connect, ask,  *)
(* leave or come back from a stall.                                        *)
Fairness ==
    /\ WF_vars(Stop)
    /\ \A b \in Broadcasts : SF_vars(phase # "stopped" /\ GoesOn(b))
    /\ \A e \in Events : WF_vars(phase # "stopped" /\ Starts(e))
    /\ \A c \in Clients :
          /\ SF_vars(phase # "stopped" /\ Drained(c))
          /\ WF_vars(phase # "stopped" /\ Leave(c))
          /\ WF_vars(phase # "stopped" /\ Read(c))

FairSpec == Spec /\ Fairness

-----------------------------------------------------------------------------
Progress == [st : {"none", "due", "sending", "over"},
             at : Clients \cup {NoClient}, left : SUBSET Clients]

(* The type invariant: every variable has the shape its comment gives it.  *)
TypeOK ==
    /\ phase \in {"running", "closing", "stopped"}
    /\ connected \subseteq Clients
    /\ subscribed \subseteq connected
    /\ peer \in [Clients -> {"none", "reading", "stalled", "gone"}]
    /\ unread \in [Clients -> Nat]
    /\ handler \in [Clients -> {"none", "reading", "draining"}]
    /\ sending \in [Broadcasts -> Progress]
    /\ latest \in 0 .. MaxSnapshots
    /\ alive \in BOOLEAN
    /\ joins \in 0 .. MaxJoins /\ stalls \in 0 .. MaxStalls
    /\ shown \in [Clients -> 0 .. MaxSnapshots]
    /\ owed \in [Events -> SUBSET Clients]

(* An event reaches everyone who was subscribed when it went out and has   *)
(* stayed: whoever else hung up, stalled, joined or left while it was on   *)
(* its way (broadcast and its comment, send).                              *)
Delivered ==
    \A e \in Events : sending[e].st = "over" => owed[e] = {}

(* The broadcasts that wait in c's drain. *)
Held(c) == {b \in Broadcasts : sending[b].at = c}

(* For every line a transport holds beyond its mark, the one that wrote it *)
(* is still waiting in drain: a broadcast, or the client's own handler     *)
(* (send).  So a client that does not read costs at most one line of each. *)
BacklogBounded ==
    \A c \in Clients :
        unread[c] <= HighWater + Cardinality(Held(c))
                       + (IF handler[c] = "draining" THEN 1 ELSE 0)

(* No client is shown an older snapshot after a newer one, whether pushed  *)
(* or asked for and however far the broadcast has got                      *)
(* (set_latest_snapshot, get_snapshot).                                    *)
SnapshotsNeverGoBack ==
    [][\A c \in connected \cap connected' : shown'[c] >= shown[c]]_vars

NoStall == <>[](\A c \in Clients : peer[c] # "stalled")

(* Every broadcast comes to its end, and with it the next snapshot can be  *)
(* taken, provided no client stops reading for good without hanging up.    *)
BroadcastsEnd ==
    NoStall =>
        \A b \in Broadcasts :
            sending[b].st \in {"due", "sending"}
                ~> sending[b].st = "over" \/ phase = "stopped"

(* A client that hung up is taken off the list, whatever else is stuck     *)
(* ("a dead connection is reaped by _handle_client's read loop noticing    *)
(* EOF", broadcast).                                                       *)
GoneAreReaped ==
    \A c \in Clients :
        peer[c] = "gone" ~> (c \notin connected \/ phase = "stopped")

NobodyStays == <>[](\A c \in Clients : ~There(c))

(* A SIGTERM ends the daemon, once its clients have hung up where          *)
(* wait_closed waits for them (_main_async): no broadcast, drain or        *)
(* half-closed connection holds it up.                                     *)
StopCompletes ==
    (WaitsForClients => NobodyStays)
        => (phase = "closing" ~> phase = "stopped")

=============================================================================
