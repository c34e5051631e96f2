--------------------------- MODULE EventHub_proofs ---------------------------
(***************************************************************************)
(* Proofs about EventHub for any number of clients, events and snapshots:  *)
(* type correctness, delivery, the bound on a client's backlog, and that   *)
(* no client is shown an older snapshot.                                   *)
(*                                                                         *)
(* Delivered says nothing of a broadcast under way: the invariant adds     *)
(* that whoever is owed an event is still on its list (OwedInv).           *)
(* BacklogBounded needs that a connection that is gone holds nothing and   *)
(* that only a broadcast under way waits (DrainInv).                       *)
(***************************************************************************)
EXTENDS EventHub, FiniteSetTheorems, TLAPS

Accepted == \A c \in Clients : handler[c] # "none" => c \in connected

OwedInv ==
    \A e \in Events :
        /\ owed[e] \subseteq subscribed
        /\ sending[e].st # "sending" => owed[e] = {}
        /\ owed[e] \subseteq sending[e].left

DrainInv ==
    /\ \A b \in Broadcasts : sending[b].st # "sending" => sending[b].at = NoClient
    /\ \A c \in Clients : ~There(c) => unread[c] = 0

ShownInv == \A c \in Clients : shown[c] <= latest

IInv ==
    /\ TypeOK
    /\ Accepted
    /\ OwedInv
    /\ DrainInv
    /\ ShownInv
    /\ BacklogBounded

-----------------------------------------------------------------------------
(* The waiting broadcasts of a client are finitely many. *)
LEMMA HeldFinite ==
  ASSUME NEW c
  PROVE  IsFiniteSet(Held(c)) /\ Cardinality(Held(c)) \in Nat
<1>1. IsFiniteSet(Broadcasts)
  BY FS_AddElement, HubAssumption DEF Broadcasts
<1>2. Held(c) \in SUBSET Broadcasts
  BY DEF Held
<1> QED BY <1>1, <1>2, FS_Subset, FS_CardinalityType

(* The inductive invariant holds initially. *)
LEMMA InitInv == Init => IInv
<1> SUFFICES ASSUME Init PROVE IInv
  OBVIOUS
<1>1. TypeOK /\ Accepted /\ OwedInv /\ DrainInv /\ ShownInv
  BY HubAssumption
  DEF Init, TypeOK, Accepted, OwedInv, DrainInv, ShownInv, There, Idle,
      Progress, Broadcasts
<1>2. BacklogBounded
  BY HeldFinite, HubAssumption DEF Init, BacklogBounded
<1> QED BY <1>1, <1>2 DEF IInv

-----------------------------------------------------------------------------
(* What a stretch of a broadcast does, from one drain to the next: it      *)
(* writes to some, and whoever else it had to write to is still on its     *)
(* list; if one of those it wrote to has to be waited for, it waits there. *)
LEMMA SendFacts ==
  ASSUME TypeOK, NEW b \in Broadcasts, NEW left \in SUBSET Clients, Send(b, left)
  PROVE  \E to \in SUBSET (left \cap subscribed), next \in Progress :
           /\ WriteTo(b, to)
           /\ sending' = [sending EXCEPT ![b] = next]
           /\ (left \cap subscribed) \ to \subseteq next.left
           /\ \/ next.st = "sending" /\ next.at \in Clients
              \/ /\ next.st = "over" /\ next.at = NoClient
                 /\ to = left \cap subscribed
           /\ \A c \in to : Waits(c) => next.at = c
<1>1. CASE /\ \A c \in left \cap subscribed : ~Waits(c)
           /\ Write(b, left)
           /\ sending' = [sending EXCEPT ![b] = Over]
  <2>1. /\ Over \in Progress
        /\ Over.st = "over" /\ Over.at = NoClient /\ Over.left = {}
    BY DEF Over, Idle, Progress
  <2>2. WriteTo(b, left \cap subscribed)
    BY <1>1 DEF Write
  <2> QED BY <1>1, <2>1, <2>2
<1>2. ASSUME NEW c \in left \cap subscribed, NEW W \in SUBSET left,
             Waits(c), c \notin W,
             \A d \in W \cap subscribed : ~Waits(d),
             Write(b, W \cup {c}),
             sending' = [sending EXCEPT ![b] =
                [st |-> "sending", at |-> c, left |-> left \ (W \cup {c})]]
      PROVE \E to \in SUBSET (left \cap subscribed), next \in Progress :
           /\ WriteTo(b, to)
           /\ sending' = [sending EXCEPT ![b] = next]
           /\ (left \cap subscribed) \ to \subseteq next.left
           /\ \/ next.st = "sending" /\ next.at \in Clients
              \/ /\ next.st = "over" /\ next.at = NoClient
                 /\ to = left \cap subscribed
           /\ \A d \in to : Waits(d) => next.at = d
  <2> DEFINE next == [st |-> "sending", at |-> c, left |-> left \ (W \cup {c})]
             to == (W \cup {c}) \cap subscribed
  <2>1. /\ next \in Progress
        /\ next.st = "sending" /\ next.at = c
        /\ next.left = left \ (W \cup {c})
    BY DEF Progress
  <2>2. WriteTo(b, to)
    BY <1>2 DEF Write
  <2>3. to \in SUBSET (left \cap subscribed)
    OBVIOUS
  <2>4. sending' = [sending EXCEPT ![b] = next]
    BY <1>2
  <2>5. (left \cap subscribed) \ to \subseteq next.left
    BY <2>1
  <2>6. \A d \in to : Waits(d) => next.at = d
    BY <1>2, <2>1
  <2> HIDE DEF next, to
  <2> QED BY <2>1, <2>2, <2>3, <2>4, <2>5, <2>6
<1> QED BY <1>1, <1>2 DEF Send

(* Who waits for c after that: the broadcast if it stopped at c.           *)
LEMMA HeldAfter ==
  ASSUME TypeOK, NEW b \in Broadcasts, NEW next \in Progress,
         sending' = [sending EXCEPT ![b] = next], NEW c \in Clients
  PROVE  /\ b \in Held(c) \/ next.at # c
              => Cardinality(Held(c)') >= Cardinality(Held(c)) - 1
         /\ b \notin Held(c) /\ next.at # c
              => Cardinality(Held(c)') = Cardinality(Held(c))
         /\ b \notin Held(c) /\ next.at = c
              => Cardinality(Held(c)') = Cardinality(Held(c)) + 1
         /\ next.at = c => Cardinality(Held(c)') >= 1
         /\ Cardinality(Held(c)') \in Nat
<1> DEFINE rest == Held(c) \ {b}
<1>1. /\ IsFiniteSet(Held(c)) /\ Cardinality(Held(c)) \in Nat
  BY HeldFinite
<1>2. /\ IsFiniteSet(rest) /\ Cardinality(rest) \in Nat
      /\ b \in Held(c) => Cardinality(rest) = Cardinality(Held(c)) - 1
      /\ b \notin Held(c) => Cardinality(rest) = Cardinality(Held(c))
  BY <1>1, FS_RemoveElement, FS_CardinalityType
<1>3. /\ Cardinality(rest \cup {b}) = Cardinality(rest) + 1
  BY <1>2, FS_AddElement
<1>4. Held(c)' = IF next.at = c THEN rest \cup {b} ELSE rest
  BY DEF Held, TypeOK
<1> HIDE DEF rest
<1> QED BY <1>1, <1>2, <1>3, <1>4

(* A stretch of a broadcast keeps the invariant, if its list holds whoever *)
(* it owes the event, and if it does not wait or the drain it waited for   *)
(* is over.                                                                *)
LEMMA SendStep ==
  ASSUME IInv, NEW b \in Broadcasts, NEW left \in SUBSET Clients, Send(b, left),
         sending[b].st = "due" => subscribed \subseteq left,
         sending[b].st # "due" => (b \in Events => owed[b] \subseteq left),
         \A c \in Clients : sending[b].at = c => Wakes(c),
         latest' \in 0 .. MaxSnapshots, latest' >= latest,
         UNCHANGED <<phase, connected, subscribed, peer, handler, alive, counters>>
  PROVE  IInv'
<1> USE HubAssumption
<1>1. PICK to \in SUBSET (left \cap subscribed), next \in Progress :
           /\ WriteTo(b, to)
           /\ sending' = [sending EXCEPT ![b] = next]
           /\ (left \cap subscribed) \ to \subseteq next.left
           /\ \/ next.st = "sending" /\ next.at \in Clients
              \/ /\ next.st = "over" /\ next.at = NoClient
                 /\ to = left \cap subscribed
           /\ \A c \in to : Waits(c) => next.at = c
  BY SendFacts DEF IInv
<1>2. /\ unread' = [c \in Clients |-> IF c \in to THEN After(c) ELSE unread[c]]
      /\ shown' = [c \in Clients |->
                     IF b = Metrics /\ c \in to THEN latest' ELSE shown[c]]
      /\ owed' = [e \in Events |->
                     IF e # b THEN owed[e]
                     ELSE (IF sending[b].st = "due" THEN subscribed
                           ELSE owed[b]) \ to]
  BY <1>1 DEF WriteTo
<1>3. TypeOK'
  <2>1. \A c \in Clients : After(c) \in Nat
    BY DEF IInv, TypeOK, After
  <2> QED BY <1>1, <1>2, <2>1 DEF IInv, TypeOK, counters
<1>4. Accepted'
  BY DEF IInv, Accepted
<1>5. OwedInv'
  <2> SUFFICES ASSUME NEW e \in Events
               PROVE  /\ owed'[e] \subseteq subscribed'
                      /\ sending'[e].st # "sending" => owed'[e] = {}
                      /\ owed'[e] \subseteq sending'[e].left
    BY DEF OwedInv
  <2>0. e \in Broadcasts
    BY DEF Broadcasts
  <2>1. CASE e # b
    <3>1. sending'[e] = sending[e] /\ owed'[e] = owed[e]
      BY <1>1, <1>2, <2>0, <2>1 DEF IInv, TypeOK
    <3> QED BY <3>1 DEF IInv, OwedInv
  <2>2. CASE e = b
    <3>1. sending'[e] = next
      BY <1>1, <2>0, <2>2 DEF IInv, TypeOK
    <3>2. PICK X : /\ owed'[e] = X \ to
                   /\ X \subseteq left /\ X \subseteq subscribed
      <4>1. CASE sending[b].st = "due"
        BY <1>2, <2>2, <4>1
      <4>2. CASE sending[b].st # "due"
        BY <1>2, <2>2, <4>2 DEF IInv, OwedInv
      <4> QED BY <4>1, <4>2
    <3> QED BY <1>1, <3>1, <3>2
  <2> QED BY <2>1, <2>2
<1>6. DrainInv'
  <2>1. ASSUME NEW x \in Broadcasts, sending'[x].st # "sending"
        PROVE  sending'[x].at = NoClient
    <3>1. CASE x = b
      BY <1>1, <2>1, <3>1 DEF IInv, TypeOK
    <3>2. CASE x # b
      BY <1>1, <2>1, <3>2 DEF IInv, TypeOK, DrainInv
    <3> QED BY <3>1, <3>2
  <2>2. ASSUME NEW c \in Clients, ~There(c)'
        PROVE  unread'[c] = 0
    BY <1>2, <2>2 DEF IInv, DrainInv, There, After
  <2> QED BY <2>1, <2>2 DEF DrainInv
<1>7. ShownInv'
  BY <1>2 DEF IInv, TypeOK, ShownInv
<1>8. BacklogBounded'
  <2> SUFFICES ASSUME NEW c \in Clients
               PROVE  unread'[c] <= HighWater + Cardinality(Held(c)')
                        + (IF handler'[c] = "draining" THEN 1 ELSE 0)
    BY DEF BacklogBounded
  <2> DEFINE more == IF handler[c] = "draining" THEN 1 ELSE 0
  <2>0. /\ unread[c] \in Nat /\ more \in {0, 1}
        /\ Cardinality(Held(c)) \in Nat
        /\ unread[c] <= HighWater + Cardinality(Held(c)) + more
    BY HeldFinite DEF IInv, TypeOK, BacklogBounded
  <2>1. b \in Held(c) => unread[c] <= HighWater
    BY <2>0 DEF Held, IInv, DrainInv, Wakes, Paused
  <2>2. /\ unread'[c] \in {unread[c], unread[c] + 1}
        /\ unread'[c] # unread[c] /\ next.at # c => unread'[c] <= HighWater
    BY <1>1, <1>2, <2>0 DEF After, Waits, Paused
  <2>3. /\ b \notin Held(c) /\ next.at # c
              => Cardinality(Held(c)') = Cardinality(Held(c))
        /\ b \notin Held(c) /\ next.at = c
              => Cardinality(Held(c)') = Cardinality(Held(c)) + 1
        /\ next.at = c => Cardinality(Held(c)') >= 1
        /\ Cardinality(Held(c)') \in Nat
    BY <1>1, HeldAfter DEF IInv
  <2>4. handler' = handler
    OBVIOUS
  <2> HIDE DEF more
  <2>5. unread'[c] <= HighWater + Cardinality(Held(c)') + more
    BY <2>0, <2>1, <2>2, <2>3
  <2> QED BY <2>4, <2>5 DEF more
<1> QED BY <1>3, <1>4, <1>5, <1>6, <1>7, <1>8 DEF IInv

-----------------------------------------------------------------------------
(* A command's answer: one line to c, behind which its handler drains if   *)
(* it is beyond the mark.                                                  *)
LEMMA AnswerBacklog ==
  ASSUME IInv, NEW c \in Clients, Answer(c), UNCHANGED sending
  PROVE  /\ unread' \in [Clients -> Nat]
         /\ handler' \in [Clients -> {"none", "reading", "draining"}]
         /\ Accepted'
         /\ DrainInv'
         /\ BacklogBounded'
<1> USE HubAssumption
<1>1. /\ handler[c] = "reading" /\ peer[c] = "reading"
      /\ unread' = [unread EXCEPT ![c] = @ + 1]
      /\ handler' = [handler EXCEPT ![c] = AnswerSent(c)]
      /\ UNCHANGED <<connected, peer>>
  BY DEF Answer
<1>2. /\ unread \in [Clients -> Nat]
      /\ handler \in [Clients -> {"none", "reading", "draining"}]
      /\ AnswerSent(c) \in {"reading", "draining"}
      /\ AnswerSent(c) = "reading" => unread[c] + 1 <= HighWater
  BY DEF IInv, TypeOK, AnswerSent, Paused
<1>3. /\ unread' \in [Clients -> Nat]
      /\ handler' \in [Clients -> {"none", "reading", "draining"}]
  BY <1>1, <1>2
<1>4. Accepted'
  BY <1>1, <1>2 DEF IInv, Accepted
<1>5. DrainInv'
  BY <1>1, <1>2 DEF IInv, DrainInv, There
<1>6. BacklogBounded'
  <2> SUFFICES ASSUME NEW d \in Clients
               PROVE  unread'[d] <= HighWater + Cardinality(Held(d)')
                        + (IF handler'[d] = "draining" THEN 1 ELSE 0)
    BY DEF BacklogBounded
  <2>1. /\ Held(d)' = Held(d) /\ Cardinality(Held(d)) \in Nat
        /\ unread[d] <= HighWater + Cardinality(Held(d))
                          + (IF handler[d] = "draining" THEN 1 ELSE 0)
    BY HeldFinite DEF Held, IInv, BacklogBounded
  <2>2. CASE d # c
    BY <1>1, <1>2, <2>1, <2>2
  <2>3. CASE d = c
    BY <1>1, <1>2, <2>1, <2>3
  <2> QED BY <2>2, <2>3
<1> QED BY <1>3, <1>4, <1>5, <1>6

(* A step that writes nothing, moves no broadcast from one client to       *)
(* another and ends a drain only at or below the mark keeps the bound.     *)
LEMMA QuietBacklog ==
  ASSUME IInv,
         \A c \in Clients :
            /\ unread'[c] \in Nat /\ unread'[c] <= unread[c]
            /\ handler'[c] = handler[c] \/ unread'[c] <= HighWater,
         \A b \in Broadcasts : sending'[b].at = sending[b].at
  PROVE  BacklogBounded'
<1> SUFFICES ASSUME NEW c \in Clients
             PROVE  unread'[c] <= HighWater + Cardinality(Held(c)')
                      + (IF handler'[c] = "draining" THEN 1 ELSE 0)
  BY DEF BacklogBounded
<1>1. /\ Held(c)' = Held(c) /\ Cardinality(Held(c)) \in Nat
  BY HeldFinite DEF Held
<1>2. /\ unread[c] \in Nat
      /\ unread[c] <= HighWater + Cardinality(Held(c))
                        + (IF handler[c] = "draining" THEN 1 ELSE 0)
  BY DEF IInv, TypeOK, BacklogBounded
<1>3. /\ unread'[c] \in Nat /\ unread'[c] <= unread[c]
      /\ handler'[c] = handler[c] \/ unread'[c] <= HighWater
  OBVIOUS
<1>4. CASE handler'[c] = handler[c]
  BY <1>1, <1>2, <1>3, <1>4, HubAssumption
<1>5. CASE unread'[c] <= HighWater
  BY <1>1, <1>3, <1>5, HubAssumption
<1> QED BY <1>3, <1>4, <1>5

-----------------------------------------------------------------------------
(* Every step keeps the invariant. *)
LEMMA NextInv == IInv /\ [Next]_vars => IInv'
<1> SUFFICES ASSUME IInv, [Next]_vars PROVE IInv'
  OBVIOUS
<1> USE HubAssumption
<1>T. /\ TypeOK /\ Accepted /\ OwedInv /\ DrainInv /\ ShownInv /\ BacklogBounded
  BY DEF IInv
<1>1. CASE TakeSnapshot
  <2>1. Metrics \in Broadcasts /\ Metrics \notin Events
    BY DEF Broadcasts
  <2>2. sending[Metrics].at = NoClient
    BY <1>1, <1>T, <2>1 DEF TakeSnapshot, DrainInv
  <2>3. /\ connected \in SUBSET Clients /\ subscribed \subseteq connected
        /\ latest' \in 0 .. MaxSnapshots /\ latest' >= latest
    BY <1>1, <1>T DEF TakeSnapshot, TypeOK
  <2> QED BY <1>1, <2>1, <2>2, <2>3, SendStep DEF TakeSnapshot, counters
<1>2. ASSUME NEW b \in Broadcasts, GoesOn(b) PROVE IInv'
  <2>1. /\ sending[b].st = "sending" /\ sending[b].left \in SUBSET Clients
    BY <1>2, <1>T DEF GoesOn, TypeOK, Progress
  <2>2. latest' \in 0 .. MaxSnapshots /\ latest' >= latest
    BY <1>2, <1>T DEF GoesOn, TypeOK
  <2>3. b \in Events => owed[b] \subseteq sending[b].left
    BY <1>T DEF OwedInv
  <2> QED BY <1>2, <2>1, <2>2, <2>3, SendStep DEF GoesOn, counters
<1>3. ASSUME NEW e \in Events, Starts(e) PROVE IInv'
  <2>1. /\ e \in Broadcasts /\ connected \in SUBSET Clients
        /\ sending[e].st = "due" /\ subscribed \subseteq connected
    BY <1>3, <1>T DEF Starts, TypeOK, Broadcasts
  <2>2. latest' \in 0 .. MaxSnapshots /\ latest' >= latest
    BY <1>3, <1>T DEF Starts, TypeOK
  <2>3. sending[e].at = NoClient
    BY <1>T, <2>1 DEF DrainInv
  <2> QED BY <1>3, <2>1, <2>2, <2>3, SendStep DEF Starts, counters
<1>4. CASE MetricsLoopEnds \/ StopSignal \/ Stop \/ UNCHANGED vars
  <2>1. /\ UNCHANGED <<clientVars, sending, latest, counters, told>>
        /\ phase' \in {"running", "closing", "stopped"} /\ alive' \in BOOLEAN
    BY <1>4, <1>T DEF MetricsLoopEnds, StopSignal, Stop, vars, TypeOK
  <2>2. TypeOK'
    BY <1>T, <2>1 DEF TypeOK, clientVars, counters, told
  <2>3. Accepted' /\ OwedInv' /\ DrainInv' /\ ShownInv'
    BY <1>T, <2>1
    DEF clientVars, counters, told, Accepted, OwedInv, DrainInv, ShownInv, There
  <2>4. BacklogBounded'
    BY <1>T, <2>1 DEF clientVars, BacklogBounded, Held
  <2> QED BY <2>2, <2>3, <2>4 DEF IInv
<1>5. ASSUME NEW e \in Events, Post(e) PROVE IInv'
  <2>1. /\ e \in Broadcasts /\ sending[e].st = "none"
        /\ sending' = [sending EXCEPT ![e].st = "due"]
        /\ UNCHANGED <<phase, clientVars, latest, alive, counters, told>>
    BY <1>5 DEF Post, Broadcasts
  <2>2. \A b \in Broadcasts :
           /\ sending'[b].at = sending[b].at /\ sending'[b].left = sending[b].left
           /\ sending'[b].st = IF b = e THEN "due" ELSE sending[b].st
           /\ sending'[b] \in Progress
    BY <1>T, <2>1 DEF TypeOK, Progress
  <2>3. TypeOK'
    BY <1>T, <2>1 DEF TypeOK, Progress, clientVars, counters, told
  <2>4. Accepted' /\ ShownInv'
    BY <1>T, <2>1 DEF clientVars, told, Accepted, ShownInv
  <2>5. OwedInv'
    BY <1>T, <2>1, <2>2 DEF clientVars, told, OwedInv, Broadcasts
  <2>6. DrainInv'
    BY <1>T, <2>1, <2>2 DEF clientVars, told, DrainInv, There
  <2>7. BacklogBounded'
    BY <1>T, <2>1, <2>2, QuietBacklog DEF clientVars, TypeOK
  <2> QED BY <2>3, <2>4, <2>5, <2>6, <2>7 DEF IInv
<1>6. ASSUME NEW c \in Clients, Subscribe(c) PROVE IInv'
  <2>1. c \in connected
    BY <1>6, <1>T DEF Subscribe, Answer, Accepted
  <2>2. OwedInv' /\ ShownInv'
    BY <1>6, <1>T DEF Subscribe, Answer, OwedInv, ShownInv, told
  <2>3. /\ unread' \in [Clients -> Nat]
        /\ handler' \in [Clients -> {"none", "reading", "draining"}]
        /\ Accepted' /\ DrainInv' /\ BacklogBounded'
    BY <1>6, AnswerBacklog DEF Subscribe, Answer
  <2>4. TypeOK'
    BY <1>6, <1>T, <2>1, <2>3 DEF Subscribe, Answer, TypeOK, counters, told
  <2> QED BY <2>2, <2>3, <2>4 DEF IInv
<1>7. ASSUME NEW c \in Clients, Unsubscribe(c) PROVE IInv'
  <2>2. OwedInv' /\ ShownInv'
    BY <1>7, <1>T DEF Unsubscribe, Answer, OwedInv, ShownInv, TypeOK
  <2>3. /\ unread' \in [Clients -> Nat]
        /\ handler' \in [Clients -> {"none", "reading", "draining"}]
        /\ Accepted' /\ DrainInv' /\ BacklogBounded'
    BY <1>7, AnswerBacklog DEF Unsubscribe, Answer
  <2>4. TypeOK'
    BY <1>7, <1>T, <2>3 DEF Unsubscribe, Answer, TypeOK, counters
  <2> QED BY <2>2, <2>3, <2>4 DEF IInv
<1>8. ASSUME NEW c \in Clients, GetSnapshot(c) \/ OtherCommand(c) PROVE IInv'
  <2>1. /\ Answer(c) /\ UNCHANGED <<subscribed, owed>>
        /\ shown' = [shown EXCEPT ![c] = latest] \/ shown' = shown
    BY <1>8 DEF GetSnapshot, OtherCommand, SnapshotAnswered, told
  <2>2. OwedInv' /\ ShownInv'
    BY <1>T, <2>1 DEF Answer, OwedInv, ShownInv, TypeOK
  <2>3. /\ unread' \in [Clients -> Nat]
        /\ handler' \in [Clients -> {"none", "reading", "draining"}]
        /\ Accepted' /\ DrainInv' /\ BacklogBounded'
    BY <2>1, AnswerBacklog DEF Answer
  <2>4. TypeOK'
    BY <1>T, <2>1, <2>3 DEF Answer, TypeOK, counters
  <2> QED BY <2>2, <2>3, <2>4 DEF IInv
<1>9. ASSUME NEW c \in Clients, Drained(c) PROVE IInv'
  <2>1. /\ handler' = [handler EXCEPT ![c] = "reading"]
        /\ handler[c] = "draining" /\ unread[c] <= HighWater
        /\ UNCHANGED <<phase, connected, subscribed, peer, unread, sending,
                       latest, alive, counters, told>>
    BY <1>9, <1>T DEF Drained, Wakes, Paused, DrainInv, TypeOK
  <2>2. TypeOK'
    BY <1>T, <2>1 DEF TypeOK, counters, told
  <2>3. Accepted' /\ OwedInv' /\ DrainInv' /\ ShownInv'
    BY <1>T, <2>1 DEF TypeOK, told, Accepted, OwedInv, DrainInv, ShownInv, There
  <2>4. BacklogBounded'
    BY <1>T, <2>1, QuietBacklog DEF TypeOK
  <2> QED BY <2>2, <2>3, <2>4 DEF IInv
<1>10. ASSUME NEW c \in Clients, Leave(c) PROVE IInv'
  <2>1. /\ unread[c] = 0 /\ UNCHANGED <<phase, unread, latest, alive, counters>>
        /\ connected' = connected \ {c} /\ subscribed' = subscribed \ {c}
        /\ peer' = [peer EXCEPT ![c] = "none"]
        /\ handler' = [handler EXCEPT ![c] = "none"]
        /\ shown' = [shown EXCEPT ![c] = 0]
        /\ owed' = [e \in Events |-> owed[e] \ {c}]
        /\ sending' = [b \in Broadcasts |-> [sending[b] EXCEPT !.left = @ \ {c}]]
    BY <1>10, <1>T DEF Leave, Reaps, DrainInv, There
  <2>2. \A b \in Broadcasts :
           /\ sending'[b].st = sending[b].st /\ sending'[b].at = sending[b].at
           /\ sending'[b].left = sending[b].left \ {c}
           /\ sending'[b] \in Progress
    BY <1>T, <2>1 DEF TypeOK, Progress
  <2>3. TypeOK'
    <3>1. sending' \in [Broadcasts -> Progress]
      BY <2>1, <2>2
    <3>2. owed' \in [Events -> SUBSET Clients]
      BY <1>T, <2>1 DEF TypeOK
    <3>3. /\ peer' \in [Clients -> {"none", "reading", "stalled", "gone"}]
          /\ handler' \in [Clients -> {"none", "reading", "draining"}]
          /\ shown' \in [Clients -> 0 .. MaxSnapshots]
      BY <1>T, <2>1 DEF TypeOK
    <3> QED BY <1>T, <2>1, <3>1, <3>2, <3>3 DEF TypeOK, counters
  <2>4. Accepted' /\ ShownInv'
    BY <1>T, <2>1 DEF TypeOK, Accepted, ShownInv
  <2>5. OwedInv'
    <3> SUFFICES ASSUME NEW e \in Events
                 PROVE  /\ owed'[e] \subseteq subscribed'
                        /\ sending'[e].st # "sending" => owed'[e] = {}
                        /\ owed'[e] \subseteq sending'[e].left
      BY DEF OwedInv
    <3>1. /\ sending'[e].st = sending[e].st
          /\ sending'[e].left = sending[e].left \ {c}
      BY <2>2 DEF Broadcasts
    <3>2. owed'[e] = owed[e] \ {c} /\ subscribed' = subscribed \ {c}
      BY <2>1
    <3> QED BY <1>T, <3>1, <3>2 DEF OwedInv
  <2>6. DrainInv'
    BY <1>T, <2>1, <2>2 DEF TypeOK, DrainInv, There
  <2>7. BacklogBounded'
    <3>1. \A d \in Clients :
             /\ unread'[d] \in Nat /\ unread'[d] <= unread[d]
             /\ handler'[d] = handler[d] \/ unread'[d] <= HighWater
      BY <1>T, <2>1 DEF TypeOK
    <3> QED BY <2>2, <3>1, QuietBacklog
  <2> QED BY <2>3, <2>4, <2>5, <2>6, <2>7 DEF IInv
<1>11. ASSUME NEW c \in Clients, Join(c) PROVE IInv'
  <2>1. /\ handler[c] = "none" /\ joins' \in 0 .. MaxJoins
        /\ connected' = connected \cup {c}
        /\ peer' = [peer EXCEPT ![c] = "reading"]
        /\ handler' = [handler EXCEPT ![c] = "reading"]
        /\ UNCHANGED <<phase, subscribed, unread, sending, latest, alive, stalls, told>>
    BY <1>11, <1>T DEF Join, TypeOK
  <2>2. TypeOK'
    BY <1>T, <2>1 DEF TypeOK, told
  <2>3. Accepted' /\ OwedInv' /\ DrainInv' /\ ShownInv'
    BY <1>T, <2>1 DEF TypeOK, told, Accepted, OwedInv, DrainInv, ShownInv, There
  <2>4. BacklogBounded'
    <3> SUFFICES ASSUME NEW d \in Clients
                 PROVE  unread'[d] <= HighWater + Cardinality(Held(d)')
                          + (IF handler'[d] = "draining" THEN 1 ELSE 0)
      BY DEF BacklogBounded
    <3>1. /\ Held(d)' = Held(d)
          /\ handler'[d] = "draining" <=> handler[d] = "draining"
      BY <1>T, <2>1 DEF Held, TypeOK
    <3> QED BY <1>T, <2>1, <3>1 DEF BacklogBounded
  <2> QED BY <2>2, <2>3, <2>4 DEF IInv
<1>12. ASSUME NEW c \in Clients, Read(c) \/ HangUp(c) PROVE IInv'
  <2>1. /\ \A d \in Clients : unread'[d] \in Nat /\ unread'[d] <= unread[d]
        /\ unread' \in [Clients -> Nat] /\ peer[c] # "none" /\ There(c)
        /\ peer' = peer \/ (peer' = [peer EXCEPT ![c] = "gone"] /\ unread'[c] = 0)
        /\ \A e \in Events : owed'[e] \subseteq owed[e]
        /\ owed' \in [Events -> SUBSET Clients]
        /\ UNCHANGED <<phase, connected, subscribed, handler, sending,
                       latest, alive, counters, shown>>
    BY <1>12, <1>T DEF Read, HangUp, There, TypeOK, told
  <2>2. TypeOK'
    BY <1>T, <2>1 DEF TypeOK, counters
  <2>3. Accepted' /\ OwedInv' /\ ShownInv'
    BY <1>T, <2>1 DEF TypeOK, Accepted, OwedInv, ShownInv
  <2>4. DrainInv'
    BY <1>T, <2>1 DEF TypeOK, DrainInv, There
  <2>5. BacklogBounded'
    BY <1>T, <2>1, QuietBacklog DEF TypeOK
  <2> QED BY <2>2, <2>3, <2>4, <2>5 DEF IInv
<1>13. ASSUME NEW c \in Clients, Stall(c) \/ ReadsAgain(c) PROVE IInv'
  <2>1. /\ There(c) /\ stalls' \in 0 .. MaxStalls
        /\ \/ peer' = [peer EXCEPT ![c] = "stalled"]
           \/ peer' = [peer EXCEPT ![c] = "reading"]
        /\ UNCHANGED <<phase, connected, subscribed, unread, handler,
                       sending, latest, alive, joins, told>>
    BY <1>13, <1>T DEF Stall, ReadsAgain, There, TypeOK, counters
  <2>2. TypeOK'
    BY <1>T, <2>1 DEF TypeOK, told
  <2>3. Accepted' /\ OwedInv' /\ DrainInv' /\ ShownInv'
    BY <1>T, <2>1 DEF TypeOK, told, Accepted, OwedInv, DrainInv, ShownInv, There
  <2>4. BacklogBounded'
    BY <1>T, <2>1 DEF BacklogBounded, Held
  <2> QED BY <2>2, <2>3, <2>4 DEF IInv
<1> QED
  BY <1>1, <1>2, <1>3, <1>4, <1>5, <1>6, <1>7, <1>8, <1>9, <1>10, <1>11,
     <1>12, <1>13
  DEF Next, Serving, Peer

(* IInv is an invariant. *)
LEMMA Inductive == Spec => []IInv
<1>1. Init => IInv
  BY InitInv
<1>2. IInv /\ [Next]_vars => IInv'
  BY NextInv
<1> QED BY <1>1, <1>2, PTL DEF Spec

(* Every variable keeps its shape, for any number of clients and events.   *)
THEOREM TypeCorrect == Spec => []TypeOK
<1>1. IInv => TypeOK
  BY DEF IInv
<1> QED BY <1>1, Inductive, PTL

(* An event reaches every subscriber who stays, whatever the others do     *)
(* while broadcast waits.                                                  *)
THEOREM EventsAreDelivered == Spec => []Delivered
<1>1. IInv => Delivered
  BY DEF IInv, OwedInv, Delivered
<1> QED BY <1>1, Inductive, PTL

(* What a connection holds beyond its mark is one line of each broadcast   *)
(* that waits for it and one of its handler.                               *)
THEOREM BacklogIsBounded == Spec => []BacklogBounded
<1>1. IInv => BacklogBounded
  BY DEF IInv
<1> QED BY <1>1, Inductive, PTL

(* No client is shown an older snapshot after a newer one.                 *)
THEOREM SnapshotsOnlyAdvance == Spec => SnapshotsNeverGoBack
<1>1. ASSUME IInv, [Next]_vars
      PROVE  [\A c \in connected \cap connected' : shown'[c] >= shown[c]]_vars
  <2> SUFFICES ASSUME NEW c \in connected \cap connected', Next
               PROVE  shown'[c] >= shown[c]
    BY <1>1
  <2>1. /\ c \in Clients /\ shown \in [Clients -> 0 .. MaxSnapshots]
        /\ latest \in Nat /\ shown[c] <= latest /\ shown[c] \in Nat
    BY <1>1, HubAssumption DEF IInv, TypeOK, ShownInv
  <2>2. \/ shown' = shown \/ shown'[c] = latest \/ shown'[c] = latest'
           \/ shown'[c] = shown[c]
    <3>1. ASSUME NEW b \in Broadcasts, NEW left \in SUBSET Clients, Send(b, left)
          PROVE  shown'[c] = latest' \/ shown'[c] = shown[c]
      <4>1. PICK to : shown' = [d \in Clients |->
                         IF b = Metrics /\ d \in to THEN latest' ELSE shown[d]]
        BY <1>1, <3>1, SendFacts DEF IInv, WriteTo
      <4> QED BY <2>1, <4>1
    <3>2. CASE TakeSnapshot
      BY <1>1, <3>1, <3>2 DEF TakeSnapshot, IInv, TypeOK, Broadcasts
    <3>3. ASSUME NEW b \in Broadcasts, GoesOn(b) PROVE shown'[c] = latest' \/ shown'[c] = shown[c]
      BY <1>1, <3>1, <3>3 DEF GoesOn, IInv, TypeOK, Progress
    <3>4. ASSUME NEW e \in Events, Starts(e) PROVE shown'[c] = latest' \/ shown'[c] = shown[c]
      BY <1>1, <3>1, <3>4 DEF Starts, IInv, TypeOK, Broadcasts
    <3>5. ASSUME NEW d \in Clients, Leave(d) PROVE shown'[c] = shown[c]
      BY <2>1, <3>5 DEF Leave
    <3>6. ASSUME NEW d \in Clients, GetSnapshot(d)
          PROVE  shown'[c] = shown[c] \/ shown'[c] = latest
      BY <2>1, <3>6 DEF GetSnapshot, SnapshotAnswered
    <3>7. ASSUME NEW d \in Clients, \/ Subscribe(d) \/ Unsubscribe(d)
                 \/ OtherCommand(d) \/ Drained(d) \/ Peer(d)
          PROVE  shown' = shown
      BY <3>7 DEF Subscribe, Unsubscribe, OtherCommand, Drained, Peer, Join, Read,
                  Stall, ReadsAgain, HangUp, told
    <3>8. CASE MetricsLoopEnds \/ StopSignal \/ Stop \/ \E e \in Events : Post(e)
      BY <3>8 DEF MetricsLoopEnds, StopSignal, Stop, Post, told
    <3> QED BY <3>2, <3>3, <3>4, <3>5, <3>6, <3>7, <3>8 DEF Next, Serving
  <2>3. latest' = latest \/ latest' = latest + 1
    BY DEF Next, TakeSnapshot, MetricsLoopEnds, GoesOn, Post, Starts, Serving, Peer,
           StopSignal, Stop, Subscribe, Unsubscribe, GetSnapshot, OtherCommand,
           Answer, Drained, Leave, Join, Read, Stall, ReadsAgain, HangUp
  <2> QED BY <2>1, <2>2, <2>3
<1> QED BY <1>1, Inductive, PTL DEF Spec, SnapshotsNeverGoBack

=============================================================================
