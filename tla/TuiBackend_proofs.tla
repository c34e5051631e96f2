-------------------------- MODULE TuiBackend_proofs --------------------------
(***************************************************************************)
(* Proofs about TuiBackend for any limits and bounds: type correctness,    *)
(* that its requests implement RequestReply, that a busy speedtest button  *)
(* waits for something, and that the login history shows what it should.   *)
(*                                                                         *)
(* An answer is known by its id alone.  That it is the answer to one's own *)
(* request needs that no other request or answer on the wires carries the  *)
(* id of one that waits (OwnInv), which a new id keeps because there is    *)
(* always one that is not in use (FreshIdIsFresh).  That the button has    *)
(* something to wait for when its request was answered needs that a test   *)
(* was running from the moment the answer was written (BusyInv).           *)
(*                                                                         *)
(* That the history is the newest logins up to those on their way has to   *)
(* be followed from the answer that brings it: while that is on the wire,  *)
(* in the load's hand and on the screen, the pushes behind it go on where  *)
(* it ends (Continues, HistoryInv).  That nobody subscribes any more once  *)
(* the load has gone on needs that the subscription, asked for first, is   *)
(* answered once (Linked).                                                 *)
(***************************************************************************)
EXTENDS TuiBackend, FiniteSetTheorems, SequenceTheorems, TLAPS

(* What is on a wire, in whatever order. *)
Lines(wire) == {wire[i] : i \in DOMAIN wire}

DaemonRecord ==
    [up : BOOLEAN, rows : 0 .. MaxLogins, pushed : 0 .. MaxLogins, tests : Nat,
     client : {"none", "open", "subscribed"}]

LoadInv ==
    calls["load"].st # "none" => conn = "up" /\ step \in 1 .. Len(LoadSteps)

OwnInv ==
    /\ \A t \in Tasks : Waits(t) =>
        /\ \A r \in Lines(toDaemon) :
              r.id = calls[t].id => r.cmd = calls[t].cmd
        /\ \A m \in Lines(toClient) :
              m.kind = "answer" /\ m.id = calls[t].id => m.cmd = calls[t].cmd
    /\ Waits("speedtest") => calls["speedtest"].cmd = "run_speedtest"

(* The speedtest's request has failed or may still fail or be served. *)
Unserved ==
    \/ calls["speedtest"].st = "failed"
    \/ /\ Waits("speedtest")
       /\ \A m \in Lines(toClient) :
             m.kind = "answer" /\ m.id = calls["speedtest"].id => ~m.ok

Busy ==
    \/ Unserved
    \/ daemon.tests > 0
    \/ SpeedtestResult \in Lines(toClient)
    \/ missed

BusyInv == testing => Busy

IInv == TypeOK /\ LoadInv /\ OwnInv /\ BusyInv

-----------------------------------------------------------------------------
(* The seven requests. *)
LEMMA SevenSteps ==
  /\ Len(LoadSteps) = 7 /\ Loaded = 8
  /\ \A i \in 1 .. 7 : LoadSteps[i] \in Commands
<1>1. Len(LoadSteps) = 7 /\ DOMAIN LoadSteps = 1 .. 7
  BY DEF LoadSteps
<1> QED BY <1>1 DEF Commands, Loaded

(* What writing to a wire, reading from it and cutting it off leave on it. *)
LEMMA WireOps ==
  ASSUME NEW S, NEW w \in Seq(S)
  PROVE  /\ Lines(w) \subseteq S
         /\ \A x \in S : /\ Append(w, x) \in Seq(S)
                         /\ Lines(Append(w, x)) = Lines(w) \cup {x}
         /\ w # <<>> => /\ Head(w) \in Lines(w)
                        /\ Tail(w) \in Seq(S)
                        /\ Lines(w) = Lines(Tail(w)) \cup {Head(w)}
         /\ \A n \in 0 .. Len(w) : /\ SubSeq(w, 1, n) \in Seq(S)
                                   /\ Lines(SubSeq(w, 1, n)) \subseteq Lines(w)
         /\ <<>> \in Seq(S) /\ Lines(<<>>) = {}
<1>1. Lines(w) \subseteq S
  BY DEF Lines
<1>2. ASSUME NEW x \in S
      PROVE  Append(w, x) \in Seq(S) /\ Lines(Append(w, x)) = Lines(w) \cup {x}
  <2>1. /\ Append(w, x) \in Seq(S)
        /\ DOMAIN w = 1 .. Len(w)
        /\ DOMAIN Append(w, x) = 1 .. Len(w) + 1
        /\ \A i \in 1 .. Len(w) : Append(w, x)[i] = w[i]
        /\ Append(w, x)[Len(w) + 1] = x
        /\ Len(w) \in Nat
    OBVIOUS
  <2>2. \A i : i \in 1 .. Len(w) + 1 <=> i \in 1 .. Len(w) \/ i = Len(w) + 1
    BY <2>1
  <2> DEFINE w2 == Append(w, x)
  <2> HIDE DEF w2
  <2>3. /\ \A i : i \in DOMAIN w2 <=> i \in DOMAIN w \/ i = Len(w) + 1
        /\ \A i \in DOMAIN w : w2[i] = w[i]
        /\ w2[Len(w) + 1] = x
    BY <2>1, <2>2 DEF w2
  <2>4. \A y : y \in Lines(w2) <=> y \in Lines(w) \cup {x}
    BY <2>3 DEF Lines
  <2> QED BY <2>1, <2>4 DEF w2
<1>3. ASSUME w # <<>>
      PROVE  /\ Head(w) \in Lines(w)
             /\ Tail(w) \in Seq(S)
             /\ Lines(w) = Lines(Tail(w)) \cup {Head(w)}
  <2>1. /\ Head(w) = w[1] /\ Tail(w) \in Seq(S)
        /\ DOMAIN w = 1 .. Len(w) /\ Len(w) \in Nat \ {0}
        /\ DOMAIN Tail(w) = 1 .. Len(w) - 1
        /\ \A i \in 1 .. Len(w) - 1 : Tail(w)[i] = w[i + 1]
    BY <1>3
  <2>2. 1 \in DOMAIN w
    BY <2>1
  <2>3. \A i \in DOMAIN w : i = 1 \/ (i - 1 \in DOMAIN Tail(w) /\ w[i] = Tail(w)[i - 1])
    BY <2>1
  <2>4. \A i \in DOMAIN Tail(w) : i + 1 \in DOMAIN w /\ w[i + 1] = Tail(w)[i]
    BY <2>1
  <2> DEFINE v == Tail(w)
  <2> HIDE DEF v
  <2>5. /\ \A i \in DOMAIN w : w[i] = w[1] \/ \E j \in DOMAIN v : w[i] = v[j]
        /\ \A j \in DOMAIN v : \E i \in DOMAIN w : v[j] = w[i]
    BY <2>3, <2>4, Zenon DEF v
  <2>6. \A y : y \in Lines(w) <=> y \in Lines(v) \cup {w[1]}
    <3>1. \A y \in Lines(w) : y \in Lines(v) \cup {w[1]}
      BY <2>5 DEF Lines
    <3>2. Lines(v) \subseteq Lines(w) /\ w[1] \in Lines(w)
      BY <2>2, <2>5 DEF Lines
    <3> QED BY <3>1, <3>2
  <2>7. Lines(w) = Lines(v) \cup {w[1]} /\ w[1] \in Lines(w)
    BY <2>6
  <2> QED BY <2>1, <2>7 DEF v
<1>4. ASSUME NEW n \in 0 .. Len(w)
      PROVE  /\ SubSeq(w, 1, n) \in Seq(S)
             /\ Lines(SubSeq(w, 1, n)) \subseteq Lines(w)
  <2>1. SubSeq(w, 1, n) \in Seq(S)
    OBVIOUS
  <2>2. /\ DOMAIN SubSeq(w, 1, n) = 1 .. n
        /\ \A i \in 1 .. n : i \in DOMAIN w /\ SubSeq(w, 1, n)[i] = w[i]
    OBVIOUS
  <2> QED BY <2>1, <2>2, Zenon DEF Lines
<1>5. <<>> \in Seq(S) /\ Lines(<<>>) = {}
  BY DEF Lines
<1> QED BY <1>1, <1>2, <1>3, <1>4, <1>5

(* Writing a line adds it. *)
LEMMA Appended ==
  ASSUME NEW S, NEW w \in Seq(S), NEW x \in S
  PROVE  Append(w, x) \in Seq(S) /\ Lines(Append(w, x)) = Lines(w) \cup {x}
BY WireOps

(* A wire that is cut off keeps nothing it did not hold. *)
LEMMA CutOff ==
  ASSUME NEW S, NEW w \in Seq(S), NEW n \in 0 .. Len(w)
  PROVE  SubSeq(w, 1, n) \in Seq(S) /\ Lines(SubSeq(w, 1, n)) \subseteq Lines(w)
BY WireOps

(* A function on a finite set takes finitely many values. *)
LEMMA FiniteImage ==
  ASSUME NEW S, IsFiniteSet(S), NEW f, DOMAIN f = S, f = [x \in S |-> f[x]]
  PROVE  IsFiniteSet({f[x] : x \in S})
<1> DEFINE T == {f[x] : x \in S}
<1>1. f \in [S -> T]
  OBVIOUS
<1>2. \A t \in T : \E s \in S : f[s] = t
  OBVIOUS
<1>3. f \in Surjection(S, T)
  BY <1>1, <1>2 DEF Surjection
<1> QED BY <1>3, FS_Surjection

(* The ids on a wire are finitely many. *)
LEMMA FiniteWire ==
  ASSUME NEW S, NEW w \in Seq(S)
  PROVE  IsFiniteSet({w[i].id : i \in DOMAIN w})
<1> DEFINE f == [i \in DOMAIN w |-> w[i].id]
<1>1. DOMAIN w = 1 .. Len(w) /\ Len(w) \in Nat
  OBVIOUS
<1>2. IsFiniteSet(DOMAIN w)
  BY <1>1, FS_Interval
<1>3. IsFiniteSet({f[i] : i \in DOMAIN w})
  <2>1. DOMAIN f = DOMAIN w /\ f = [i \in DOMAIN w |-> f[i]]
    BY Zenon
  <2> HIDE DEF f
  <2> QED BY <1>2, <2>1, FiniteImage
<1>4. {f[i] : i \in DOMAIN w} = {w[i].id : i \in DOMAIN w}
  BY Zenon
<1> QED BY <1>3, <1>4

(* There is always an id nothing in flight carries. *)
LEMMA FreshIdIsFresh ==
  ASSUME TypeOK
  PROVE  FreshId \in Ids /\ FreshId \notin IdsInUse
<1> DEFINE asked == {calls["load"].id, calls["sessions"].id, calls["speedtest"].id}
           sent == {toDaemon[i].id : i \in DOMAIN toDaemon}
           answers == {toClient[i].id : i \in DOMAIN toClient}
           n == Cardinality(IdsInUse)
<1>1. IsFiniteSet(asked)
  <2>1. /\ IsFiniteSet({calls["load"].id})
        /\ IsFiniteSet({calls["sessions"].id})
        /\ IsFiniteSet({calls["speedtest"].id})
    BY FS_Singleton
  <2>2. asked = ({calls["load"].id} \cup {calls["sessions"].id})
                   \cup {calls["speedtest"].id}
    BY Zenon
  <2> HIDE DEF asked
  <2> QED BY <2>1, <2>2, FS_Union
<1>2. IsFiniteSet(sent) /\ IsFiniteSet(answers)
  <2>1. toDaemon \in Seq(Request) /\ toClient \in Seq(Line)
    BY DEF TypeOK
  <2> QED BY <2>1, FiniteWire
<1>5. IsFiniteSet((asked \cup sent) \cup answers)
  <2> HIDE DEF asked, sent, answers
  <2> QED BY <1>1, <1>2, FS_Union
<1>6. IdsInUse \in SUBSET ((asked \cup sent) \cup answers)
  <2>1. \A t \in Tasks : calls[t].id \in asked
    BY DEF Tasks
  <2> QED BY <2>1, Zenon DEF IdsInUse
<1>7. IsFiniteSet(IdsInUse) /\ n \in Nat
  BY <1>5, <1>6, FS_Subset, FS_CardinalityType
<1> HIDE DEF n, asked, sent, answers
<1>8. \E id \in 1 .. n + 1 : id \notin IdsInUse
  <2> SUFFICES ASSUME 1 .. n + 1 \in SUBSET IdsInUse PROVE FALSE
    BY Zenon
  <2>1. Cardinality(1 .. n + 1) <= n
    BY <1>7, FS_Subset DEF n
  <2>2. Cardinality(1 .. n + 1) = n + 1
    BY <1>7, FS_Interval
  <2> QED BY <1>7, <2>1, <2>2
<1>9. FreshId \in 1 .. n + 1 /\ FreshId \notin IdsInUse
  BY <1>8 DEF FreshId, n
<1> QED BY <1>7, <1>9 DEF Ids

(* What it means for those who wait and for what is on the wires. *)
LEMMA NobodyHasIt ==
  ASSUME TypeOK
  PROVE  /\ FreshId \in Ids
         /\ \A t \in Tasks : Waits(t) => calls[t].id # FreshId
         /\ \A r \in Lines(toDaemon) : r.id # FreshId
         /\ \A m \in Lines(toClient) : m.kind = "answer" => m.id # FreshId
BY FreshIdIsFresh DEF IdsInUse, Lines

-----------------------------------------------------------------------------
(* A request that is sent, or fails at once. *)
LEMMA Asking ==
  ASSUME TypeOK, NEW t \in Tasks, NEW cmd \in Commands,
         \/ Ask(t, cmd)
         \/ Waiting(t, cmd) /\ toDaemon' = Sent(cmd)
  PROVE  /\ toDaemon' \in Seq(Request)
         /\ calls' \in [Tasks -> Call]
         /\ \A u \in Tasks : u # t => calls'[u] = calls[u]
         /\ \/ calls'[t] = Failed
            \/ calls'[t] = [st |-> "waiting", id |-> FreshId, cmd |-> cmd]
         /\ Lines(toDaemon') \subseteq
               Lines(toDaemon) \cup {[id |-> FreshId, cmd |-> cmd]}
<1>1. FreshId \in Ids
  BY NobodyHasIt
<1>2. toDaemon' \in {toDaemon, Append(toDaemon, [id |-> FreshId, cmd |-> cmd])}
  BY Zenon DEF Ask, Sent
<1>3. [id |-> FreshId, cmd |-> cmd] \in Request
  BY <1>1 DEF Request
<1>4. toDaemon \in Seq(Request)
  BY DEF TypeOK
<1>5. /\ toDaemon' \in Seq(Request)
      /\ Lines(toDaemon') \subseteq
            Lines(toDaemon) \cup {[id |-> FreshId, cmd |-> cmd]}
  <2> DEFINE r == [id |-> FreshId, cmd |-> cmd]
  <2> HIDE DEF r
  <2>1. r \in Request
    BY <1>3 DEF r
  <2>2. toDaemon' = toDaemon \/ toDaemon' = Append(toDaemon, r)
    BY <1>2, Zenon DEF r
  <2>3. /\ Append(toDaemon, r) \in Seq(Request)
        /\ Lines(Append(toDaemon, r)) = Lines(toDaemon) \cup {r}
    BY <2>1, <1>4, Appended
  <2>4. toDaemon' \in Seq(Request) /\ Lines(toDaemon') \subseteq Lines(toDaemon) \cup {r}
    BY <2>2, <2>3, <1>4, Zenon
  <2> QED BY <2>4 DEF r
<1>6. /\ Failed \in Call
      /\ [st |-> "waiting", id |-> FreshId, cmd |-> cmd] \in Call
  BY <1>1 DEF Call
<1>7. \E c \in {Failed, [st |-> "waiting", id |-> FreshId, cmd |-> cmd]} :
         calls' = [calls EXCEPT ![t] = c]
  BY Zenon DEF Ask, Waiting
<1>8. calls \in [Tasks -> Call]
  BY DEF TypeOK
<1> QED BY <1>5, <1>6, <1>7, <1>8

-----------------------------------------------------------------------------
(* A function on 1 .. n is a sequence. *)
LEMMA SeqOfFunction ==
  ASSUME NEW S, NEW n \in Nat, NEW f \in [1 .. n -> S]
  PROVE  f \in Seq(S)
BY SeqDef

(* The types of what the query and the push make of the history. *)
LEMMA NewestType ==
  ASSUME NEW n \in 0 .. MaxLogins
  PROVE  Newest(n) \in Seq(1 .. MaxLogins)
<1>1. Atmost(n, HistoryLimit) \in 0 .. n
  BY LimitAssumption DEF Atmost
<1>2. \A i \in 1 .. Atmost(n, HistoryLimit) : n + 1 - i \in 1 .. MaxLogins
  BY <1>1, LimitAssumption
<1>3. Newest(n) \in [1 .. Atmost(n, HistoryLimit) -> 1 .. MaxLogins]
  BY <1>2 DEF Newest
<1>4. Atmost(n, HistoryLimit) \in Nat
  BY <1>1
<1> QED BY <1>3, <1>4, SeqOfFunction, Zenon

(* As above, for a login pushed. *)
LEMMA WithLoginType ==
  ASSUME TypeOK, NEW n \in 1 .. MaxLogins
  PROVE  WithLogin(n) \in Seq(1 .. MaxLogins)
<1>1. <<n>> \o history \in Seq(1 .. MaxLogins) /\ Len(<<n>> \o history) = Len(history) + 1
  BY DEF TypeOK
<1>2. Len(history) \in Nat
  BY DEF TypeOK
<1>3. Atmost(Len(history) + 1, HistoryLimit) \in 0 .. Len(history) + 1
  BY <1>2, LimitAssumption DEF Atmost
<1> DEFINE all == <<n>> \o history
<1>4. all \in Seq(1 .. MaxLogins) /\ Len(all) = Len(history) + 1
  BY <1>1
<1> HIDE DEF all
<1>5. Atmost(Len(history) + 1, HistoryLimit) \in 0 .. Len(all)
  BY <1>3, <1>4
<1>6. SubSeq(all, 1, Atmost(Len(history) + 1, HistoryLimit)) \in Seq(1 .. MaxLogins)
  BY <1>4, <1>5, CutOff
<1> QED BY <1>6 DEF WithLogin, all

(* Every line the daemon writes is a Line. *)
LEMMA WrittenLines ==
  /\ Eof \in Line /\ SpeedtestResult \in Line
  /\ \A n \in 1 .. MaxLogins : LoginEvent(n) \in Line
  /\ \A id \in Ids, cmd \in Commands, ok \in BOOLEAN, d \in 0 .. MaxLogins :
        [kind |-> "answer", id |-> id, cmd |-> cmd, ok |-> ok, data |-> d] \in Line
BY DEF Line

(* What reading a line of each kind may count on. *)
LEMMA ReadLines ==
  ASSUME NEW m \in Line
  PROVE  /\ m.kind = "login_event" => m.row \in 1 .. MaxLogins
         /\ m.kind = "answer" => /\ m.id \in Ids /\ m.cmd \in Commands
                                 /\ m.ok \in BOOLEAN
                                 /\ m.data \in 0 .. MaxLogins
BY DEF Line, Eof, SpeedtestResult, LoginEvent

(* What broadcast puts on the wire. *)
LEMMA Delivering ==
  ASSUME TypeOK, NEW m \in Line, Deliver(<<m>>)
  PROVE  /\ toClient' \in Seq(Line)
         /\ daemon.client = "subscribed" => Lines(toClient') = Lines(toClient) \cup {m}
         /\ daemon.client # "subscribed" => toClient' = toClient
<1>1. toClient \in Seq(Line)
  BY DEF TypeOK
<1>2. toClient \o <<m>> = Append(toClient, m)
  BY <1>1
<1>3. toClient' = IF daemon.client = "subscribed" THEN Append(toClient, m) ELSE toClient
  BY <1>2 DEF Deliver
<1> QED BY <1>1, <1>3, WireOps

(* The daemon's part of TypeOK. *)
LEMMA DaemonIsRecord ==
  ASSUME TypeOK
  PROVE  daemon \in DaemonRecord
BY DEF TypeOK, DaemonRecord

(* The type invariant: the daemon's steps that only count. *)
LEMMA DaemonTypes ==
  ASSUME TypeOK, UNCHANGED tabs,
         Login \/ ScheduledTest \/ DaemonStarts
  PROVE  TypeOK'
<1>1. daemon' \in DaemonRecord
  <2>1. CASE Login
    BY <2>1, LimitAssumption, DaemonIsRecord DEF DaemonRecord, Login
  <2>2. CASE ScheduledTest
    BY <2>2, LimitAssumption, DaemonIsRecord DEF DaemonRecord, ScheduledTest
  <2>3. CASE DaemonStarts
    BY <2>3, LimitAssumption, DaemonIsRecord DEF DaemonRecord, DaemonStarts
  <2> QED BY <2>1, <2>2, <2>3
<1>2. tested' \in 0 .. MaxTests /\ troubles' = troubles
  BY LimitAssumption
  DEF TypeOK, Login, ScheduledTest, DaemonStarts, OneMoreTest, counters
<1>3. UNCHANGED <<wires, link, calls, screen, notes>>
  BY DEF Login, ScheduledTest, DaemonStarts
<1> QED BY <1>1, <1>2, <1>3
        DEF TypeOK, DaemonRecord, wires, link, screen, notes

(* As above: its pushes. *)
LEMMA PushTypes ==
  ASSUME TypeOK, UNCHANGED tabs, NEW m \in Line, Deliver(<<m>>),
         daemon' \in DaemonRecord, missed' \in BOOLEAN,
         UNCHANGED <<toDaemon, link, calls, screen, counters, raced>>
  PROVE  TypeOK'
<1>1. toClient' \in Seq(Line)
  BY Delivering DEF TypeOK
<1> QED BY <1>1 DEF TypeOK, DaemonRecord, link, screen, counters

(* As above: Push and TestEnds are such. *)
LEMMA PushesType ==
  ASSUME TypeOK, UNCHANGED tabs, Push \/ TestEnds
  PROVE  TypeOK'
<1>1. CASE Push
  <2>1. daemon' \in DaemonRecord /\ daemon.pushed + 1 \in 1 .. MaxLogins
    BY <1>1, LimitAssumption, DaemonIsRecord DEF DaemonRecord, Push
  <2>2. LoginEvent(daemon.pushed + 1) \in Line
    BY <2>1, WrittenLines
  <2>3. UNCHANGED <<toDaemon, link, calls, screen, counters, raced>> /\ missed' = missed
    BY <1>1 DEF Push, notes
  <2>4. missed' \in BOOLEAN
    BY <2>3 DEF TypeOK
  <2> QED BY <1>1, <2>1, <2>2, <2>3, <2>4, PushTypes DEF Push
<1>2. CASE TestEnds
  <2>1. daemon' \in DaemonRecord
    BY <1>2, LimitAssumption, DaemonIsRecord DEF DaemonRecord, TestEnds
  <2>2. missed' \in BOOLEAN
    BY <1>2, Zenon DEF TestEnds
  <2> QED BY <1>2, <2>1, <2>2, WrittenLines, PushTypes DEF TestEnds
<1> QED BY <1>1, <1>2

(* As above: the answers. *)
LEMMA AnswerTypes ==
  ASSUME TypeOK, UNCHANGED tabs, Serve \/ ServeFails
  PROVE  /\ TypeOK'
         /\ toDaemon # <<>>
         /\ Head(toDaemon) \in Request
         /\ Lines(toDaemon') \subseteq Lines(toDaemon)
         /\ Head(toDaemon) \in Lines(toDaemon)
         /\ \E ok \in BOOLEAN, d \in 0 .. MaxLogins :
              (ok => Serve) /\ Lines(toClient') = Lines(toClient) \cup
                 {[kind |-> "answer", id |-> Head(toDaemon).id,
                   cmd |-> Head(toDaemon).cmd, ok |-> ok, data |-> d]}
<1>1. toDaemon # <<>> /\ toDaemon' = Tail(toDaemon)
  BY DEF Serve, ServeFails
<1>2. /\ Head(toDaemon) \in Request
      /\ Head(toDaemon) \in Lines(toDaemon)
      /\ Lines(toDaemon') \subseteq Lines(toDaemon)
      /\ toDaemon' \in Seq(Request)
  <2>1. toDaemon \in Seq(Request)
    BY DEF TypeOK
  <2> QED BY <1>1, <2>1, WireOps
<1>3. PICK ok \in BOOLEAN, d \in 0 .. MaxLogins :
         (ok => Serve) /\ toClient' = Append(toClient,
                 [kind |-> "answer", id |-> Head(toDaemon).id,
                   cmd |-> Head(toDaemon).cmd, ok |-> ok, data |-> d])
  <2>1. daemon.rows \in 0 .. MaxLogins /\ 0 \in 0 .. MaxLogins
    BY LimitAssumption DEF TypeOK
  <2>2. TRUE \in BOOLEAN /\ FALSE \in BOOLEAN
    OBVIOUS
  <2>3. CASE Serve
    BY <2>1, <2>2, <2>3, Zenon DEF Serve
  <2>4. CASE ServeFails
    BY <2>1, <2>2, <2>4, Zenon DEF ServeFails
  <2> QED BY <2>3, <2>4
<1> DEFINE m == [kind |-> "answer", id |-> Head(toDaemon).id,
                   cmd |-> Head(toDaemon).cmd, ok |-> ok, data |-> d]
<1>4. m \in Line
  BY <1>2, WrittenLines DEF Request
<1>5. toClient' \in Seq(Line) /\ Lines(toClient') = Lines(toClient) \cup {m}
  <2>1. toClient \in Seq(Line)
    BY DEF TypeOK
  <2> HIDE DEF m
  <2>2. toClient' = Append(toClient, m)
    BY <1>3 DEF m
  <2> QED BY <1>4, <2>1, <2>2, Appended
<1>6. daemon' \in DaemonRecord
  <2>1. CASE Serve
    <3>1. PICK c \in {"none", "open", "subscribed"}, k \in Nat :
             daemon' = [daemon EXCEPT !.client = c, !.tests = k]
      <4> DEFINE c == IF Head(toDaemon).cmd = "subscribe" THEN "subscribed"
                      ELSE daemon.client
                 k == IF Head(toDaemon).cmd = "run_speedtest" THEN daemon.tests + 1
                      ELSE daemon.tests
      <4>1. c \in {"none", "open", "subscribed"} /\ k \in Nat
        BY DaemonIsRecord DEF DaemonRecord
      <4>2. daemon' = [daemon EXCEPT !.client = c, !.tests = k]
        BY <2>1, Zenon DEF Serve
      <4> QED BY <4>1, <4>2, Zenon
    <3> QED BY <3>1, DaemonIsRecord DEF DaemonRecord
  <2>2. CASE ServeFails
    BY <2>2, LimitAssumption, DaemonIsRecord DEF DaemonRecord, ServeFails
  <2> QED BY <2>1, <2>2
<1>7. raced' \in BOOLEAN /\ missed' = missed
  <2>1. CASE Serve
    BY <2>1, Zenon DEF Serve
  <2>2. CASE ServeFails
    BY <2>2, Zenon DEF ServeFails, notes, TypeOK
  <2> QED BY <2>1, <2>2
<1>8. troubles' \in 0 .. MaxTroubles /\ tested' = tested
  <2>1. tested' = tested /\ (troubles' = troubles
                                \/ (troubles < MaxTroubles /\ troubles' = troubles + 1))
    BY DEF Serve, ServeFails, Trouble, counters
  <2>2. troubles \in 0 .. MaxTroubles
    BY DEF TypeOK
  <2> QED BY <2>1, <2>2, LimitAssumption
<1>9. UNCHANGED <<link, calls, screen>>
  BY DEF Serve, ServeFails
<1>10. TypeOK'
  BY <1>2, <1>5, <1>6, <1>7, <1>8, <1>9 DEF TypeOK, DaemonRecord, link, screen
<1>11. (ok => Serve) /\ Lines(toClient') = Lines(toClient) \cup {m}
  BY <1>3, <1>5
<1> QED BY <1>1, <1>2, <1>10, <1>11, Zenon

(* As above: a test whose result is lost, and the daemon's death. *)
LEMMA FaultTypes ==
  ASSUME TypeOK, UNCHANGED tabs, TestResultLost \/ DaemonDies
  PROVE  /\ TypeOK'
         /\ Lines(toDaemon') \subseteq Lines(toDaemon)
         /\ Lines(toClient') \subseteq Lines(toClient) \cup {Eof}
<1>1. daemon' \in DaemonRecord
  <2>1. CASE TestResultLost
    BY <2>1, LimitAssumption, DaemonIsRecord DEF DaemonRecord, TestResultLost
  <2>2. CASE DaemonDies
    BY <2>2, LimitAssumption, DaemonIsRecord DEF DaemonRecord, DaemonDies
  <2> QED BY <2>1, <2>2
<1>2. troubles' \in 0 .. MaxTroubles /\ tested' = tested
  <2>1. troubles < MaxTroubles /\ troubles' = troubles + 1 /\ tested' = tested
    BY DEF TestResultLost, DaemonDies, Trouble
  <2>2. troubles \in 0 .. MaxTroubles
    BY DEF TypeOK
  <2> QED BY <2>1, <2>2, LimitAssumption
<1>3. missed' \in BOOLEAN
  <2>1. CASE TestResultLost
    BY <2>1, Zenon DEF TestResultLost, TypeOK
  <2>2. CASE DaemonDies
    BY <2>2, Zenon DEF DaemonDies
  <2> QED BY <2>1, <2>2
<1>4. toDaemon' \in Seq(Request) /\ Lines(toDaemon') \subseteq Lines(toDaemon)
  <2>1. <<>> \in Seq(Request) /\ Lines(<<>>) = {} /\ toDaemon \in Seq(Request)
    BY WireOps DEF TypeOK
  <2> QED BY <2>1 DEF TestResultLost, DaemonDies, wires
<1>5. /\ toClient' \in Seq(Line)
      /\ Lines(toClient') \subseteq Lines(toClient) \cup {Eof}
  <2>1. toClient \in Seq(Line) /\ Eof \in Line
    BY WrittenLines DEF TypeOK
  <2>2. CASE UNCHANGED toClient
    BY <2>1, <2>2
  <2>3. ASSUME NEW n \in 0 .. Len(toClient),
               toClient' = Append(SubSeq(toClient, 1, n), Eof)
        PROVE  /\ toClient' \in Seq(Line)
               /\ Lines(toClient') \subseteq Lines(toClient) \cup {Eof}
    <3>1. /\ SubSeq(toClient, 1, n) \in Seq(Line)
          /\ Lines(SubSeq(toClient, 1, n)) \subseteq Lines(toClient)
      BY <2>1, CutOff
    <3> DEFINE left == SubSeq(toClient, 1, n)
    <3> HIDE DEF left
    <3>2. left \in Seq(Line)
      BY <3>1 DEF left
    <3>3. Append(left, Eof) \in Seq(Line) /\ Lines(Append(left, Eof)) = Lines(left) \cup {Eof}
      BY <2>1, <3>2, Appended
    <3> QED BY <2>3, <3>1, <3>3, Zenon DEF left
  <2> QED BY <2>2, <2>3 DEF TestResultLost, DaemonDies, wires
<1>6. UNCHANGED <<link, calls, screen, raced>>
  BY DEF TestResultLost, DaemonDies
<1>7. TypeOK'
  BY <1>1, <1>2, <1>3, <1>4, <1>5, <1>6 DEF TypeOK, DaemonRecord, link, screen
<1> QED BY <1>4, <1>5, <1>7

(* As above: a wait that times out. *)
LEMMA TimeOutTypes ==
  ASSUME TypeOK, UNCHANGED tabs, NEW t \in Tasks, TimesOutEarly(t) \/ TimesOut(t)
  PROVE  TypeOK'
<1>1. calls' \in [Tasks -> Call]
  BY DEF TypeOK, TimesOutEarly, TimesOut, TimeOut, Call
<1>2. troubles' \in 0 .. MaxTroubles /\ tested' = tested
  BY LimitAssumption DEF TypeOK, TimesOutEarly, TimesOut, Trouble, counters
<1>3. UNCHANGED <<daemon, wires, link, screen, notes>>
  BY DEF TimesOutEarly, TimesOut, TimeOut
<1> QED BY <1>1, <1>2, <1>3 DEF TypeOK, wires, link, screen, notes

(* As above: the read task, which takes a line off the wire. *)
LEMMA ReadTypes ==
  ASSUME TypeOK, UNCHANGED tabs, Read
  PROVE  /\ TypeOK'
         /\ Head(toClient) \in Lines(toClient)
         /\ Lines(toClient) = Lines(toClient') \cup {Head(toClient)}
<1>1. toClient # <<>> /\ toClient' = Tail(toClient)
  BY DEF Read, ReadEnds, ReadAnswer, ReadLoginEvent, ReadSpeedtestResult
<1>2. /\ Head(toClient) \in Line
      /\ Head(toClient) \in Lines(toClient)
      /\ Lines(toClient) = Lines(toClient') \cup {Head(toClient)}
      /\ toClient' \in Seq(Line)
  <2>1. toClient \in Seq(Line)
    BY DEF TypeOK
  <2> QED BY <1>1, <2>1, WireOps
<1>3. CASE ReadEnds
  BY <1>2, <1>3 DEF ReadEnds, TypeOK, screen, counters, notes
<1>4. CASE ReadAnswer
  <2> DEFINE m == Head(toClient)
  <2>1. m.ok \in BOOLEAN /\ m.data \in 0 .. MaxLogins
    BY <1>2, <1>4, ReadLines DEF ReadAnswer
  <2>2. \A t \in Tasks : t \in Waiter(m) => calls[t].cmd \in Commands
    <3> SUFFICES ASSUME NEW t \in Tasks, t \in Waiter(m)
                 PROVE  calls[t].cmd \in Commands
      OBVIOUS
    <3>1. calls[t] \in Call /\ calls[t].st = "waiting"
      BY DEF TypeOK, Waiter, Waits
    <3> QED BY <3>1 DEF Call, NoCall, Failed
  <2>3. \A c \in Commands :
           [st |-> IF m.ok THEN "answered" ELSE "failed", cmd |-> c,
            data |-> m.data, mine |-> TRUE] \in Call
    BY <2>1 DEF Call
  <2>4. \A t \in Tasks : calls[t] \in Call
    BY DEF TypeOK
  <2>5. calls' \in [Tasks -> Call]
    <3> SUFFICES ASSUME NEW t \in Tasks
                 PROVE  (IF t \in Waiter(m)
                 THEN [st |-> IF m.ok THEN "answered" ELSE "failed",
                       cmd |-> calls[t].cmd, data |-> m.data,
                       mine |-> m.id = calls[t].id /\ m.cmd = calls[t].cmd]
                 ELSE calls[t]) \in Call
      BY <1>4, Zenon DEF ReadAnswer
    <3>1. CASE t \in Waiter(m)
      <4>1. calls[t].cmd \in Commands
        BY <2>2, <3>1
      <4> QED BY <2>1, <3>1, <4>1 DEF Call
    <3>2. CASE t \notin Waiter(m)
      BY <2>4, <3>2
    <3> QED BY <3>1, <3>2
  <2>6. UNCHANGED <<daemon, toDaemon, link, screen, counters, notes>>
    BY <1>4 DEF ReadAnswer
  <2> QED BY <1>2, <2>5, <2>6 DEF TypeOK, link, screen, counters, notes
<1>5. CASE ReadLoginEvent
  <2>1. Head(toClient).row \in 1 .. MaxLogins
    BY <1>2, <1>5, ReadLines DEF ReadLoginEvent
  <2>2. history' \in Seq(1 .. MaxLogins)
    BY <1>5, <2>1, WithLoginType DEF ReadLoginEvent
  <2>3. raced' \in BOOLEAN
    BY <1>5, Zenon DEF ReadLoginEvent
  <2>4. UNCHANGED <<daemon, toDaemon, link, calls, ready, testing, counters, missed>>
    BY <1>5 DEF ReadLoginEvent
  <2> QED BY <1>2, <2>2, <2>3, <2>4 DEF TypeOK, link, counters
<1>6. CASE ReadSpeedtestResult
  BY <1>2, <1>6 DEF ReadSpeedtestResult, TypeOK, link, counters, notes
<1> QED BY <1>2, <1>3, <1>4, <1>5, <1>6 DEF Read

(* As above: a connection is made, and the step of the load is in hand. *)
LEMMA ConnectTypes ==
  ASSUME TypeOK, UNCHANGED tabs, Connect
  PROVE  TypeOK' /\ LoadInv'
<1>1. LoadSteps[1] \in Commands
  BY SevenSteps
<1>2. /\ toDaemon' \in Seq(Request)
      /\ calls' \in [Tasks -> Call]
  BY <1>1, Asking, "load" \in Tasks DEF Connect, Tasks
<1>3. daemon' \in DaemonRecord
  BY DaemonIsRecord DEF DaemonRecord, Connect
<1>4. /\ conn' = "up" /\ step' = 1 /\ reader' = "reading" /\ raced' = FALSE
      /\ UNCHANGED <<toClient, screen, counters, missed>>
  BY DEF Connect, ReaderAt
<1>5. step' \in 0 .. Loaded
  BY <1>4, SevenSteps
<1>6. TypeOK'
  BY <1>2, <1>3, <1>4, <1>5
  DEF TypeOK, DaemonRecord, screen, counters
<1> QED BY <1>4, <1>6, SevenSteps DEF LoadInv

(* As above: an answer is applied and the next request sent. *)
LEMMA LoadTypes ==
  ASSUME TypeOK, LoadInv, UNCHANGED tabs, LoadGoesOn
  PROVE  TypeOK' /\ LoadInv'
<1>1. /\ conn = "up" /\ step \in 1 .. 7 /\ step' = step + 1
      /\ calls["load"] \in Call /\ calls["load"].st = "answered"
  BY SevenSteps DEF LoadInv, LoadGoesOn, TypeOK, Tasks
<1>2. calls["load"].data \in 0 .. MaxLogins
  BY <1>1 DEF Call, NoCall, Failed
<1>3. history' \in Seq(1 .. MaxLogins)
  BY <1>2, NewestType DEF LoadGoesOn, TypeOK
<1>4. reader' \in {"off", "reading", "ended"}
  BY DEF LoadGoesOn, ReaderAt, TypeOK
<1>5. UNCHANGED <<daemon, toClient, conn, testing, counters, notes>>
  BY DEF LoadGoesOn
<1>6. CASE step < 7
  <2>1. LoadSteps[step + 1] \in Commands /\ step + 1 \in 1 .. 7
    BY <1>1, <1>6, SevenSteps
  <2>2. Ask("load", LoadSteps[step + 1]) /\ UNCHANGED ready
    BY <1>6, SevenSteps DEF LoadGoesOn
  <2>3. toDaemon' \in Seq(Request) /\ calls' \in [Tasks -> Call]
    BY <2>1, <2>2, Asking, "load" \in Tasks DEF Tasks
  <2>4. TypeOK'
    BY <1>1, <1>3, <1>4, <1>5, <2>1, <2>2, <2>3, SevenSteps
    DEF TypeOK, counters, notes
  <2> QED BY <1>1, <1>5, <2>1, <2>4, SevenSteps DEF LoadInv
<1>7. CASE ~(step < 7)
  <2>1. ready' = TRUE /\ calls' = [calls EXCEPT !["load"] = NoCall] /\ UNCHANGED toDaemon
    BY <1>7, SevenSteps DEF LoadGoesOn
  <2>2. calls' \in [Tasks -> Call] /\ calls'["load"] = NoCall
    BY <2>1 DEF TypeOK, Call, Tasks
  <2>3. step' \in 0 .. Loaded
    BY <1>1, SevenSteps
  <2>4. TypeOK'
    BY <1>3, <1>4, <1>5, <2>1, <2>2, <2>3 DEF TypeOK, counters, notes
  <2> QED BY <2>2, <2>4 DEF LoadInv, NoCall
<1> QED BY <1>6, <1>7

(* As above: the connection is given up. *)
LEMMA TearDownTypes ==
  ASSUME TypeOK, UNCHANGED tabs, TearDown
  PROVE  TypeOK' /\ LoadInv'
<1>1. \A t \in Tasks : calls[t] \in Call
  BY DEF TypeOK
<1>2. NoCall \in Call /\ Failed \in Call /\ "load" \in Tasks
  BY DEF Call, Tasks
<1>3. calls' \in [Tasks -> Call] /\ calls'["load"] = NoCall
  BY <1>1, <1>2 DEF TearDown
<1>4. daemon' \in DaemonRecord
  BY DaemonIsRecord DEF DaemonRecord, TearDown
<1>5. <<>> \in Seq(Request) /\ <<>> \in Seq(Line)
  OBVIOUS
<1>6. missed' \in BOOLEAN
  BY Zenon DEF TearDown
<1>7. /\ conn' = "down" /\ step' = 0 /\ reader' = "off"
      /\ toDaemon' = <<>> /\ toClient' = <<>>
      /\ UNCHANGED <<screen, counters, raced>>
  BY DEF TearDown
<1>8. TypeOK'
  BY <1>3, <1>4, <1>5, <1>6, <1>7, SevenSteps DEF TypeOK, DaemonRecord, screen, counters
<1> QED BY <1>3, <1>8 DEF LoadInv, NoCall

(* As above: the ticks and the speedtest button. *)
LEMMA ButtonTypes ==
  ASSUME TypeOK, tabs' \in BOOLEAN,
         Tick \/ SessionsRefreshed \/ StartSpeedTest \/ SpeedTestAsked
  PROVE  TypeOK'
<1>1. "get_snapshot" \in Commands /\ "run_speedtest" \in Commands
  <2>1. LoadSteps[2] = "get_snapshot" /\ 2 \in DOMAIN LoadSteps
    BY DEF LoadSteps
  <2> QED BY <2>1 DEF Commands
<1>2. "sessions" \in Tasks /\ "speedtest" \in Tasks /\ NoCall \in Call
  BY DEF Tasks, Call
<1>3. CASE Tick
  <2>1. toDaemon' \in Seq(Request) /\ calls' \in [Tasks -> Call]
    BY <1>1, <1>2, <1>3, Asking DEF Tick
  <2> QED BY <1>3, <2>1 DEF Tick, TypeOK, link, screen, counters, notes
<1>4. CASE SessionsRefreshed
  <2>1. calls' \in [Tasks -> Call]
    BY <1>2, <1>4 DEF SessionsRefreshed, TypeOK
  <2> QED BY <1>4, <2>1
          DEF SessionsRefreshed, TypeOK, wires, link, screen, counters, notes
<1>5. CASE StartSpeedTest
  <2>1. toDaemon' \in Seq(Request) /\ calls' \in [Tasks -> Call]
    BY <1>1, <1>2, <1>5, Asking DEF StartSpeedTest
  <2>2. tested' \in 0 .. MaxTests
    BY <1>5, LimitAssumption DEF StartSpeedTest, OneMoreTest, TypeOK
  <2> QED BY <1>5, <2>1, <2>2 DEF StartSpeedTest, TypeOK, link
<1>6. CASE SpeedTestAsked
  <2>1. calls' \in [Tasks -> Call]
    BY <1>2, <1>6 DEF SpeedTestAsked, TypeOK
  <2>2. testing' \in BOOLEAN
    BY <1>6 DEF SpeedTestAsked, TestingAfter, TypeOK
  <2> QED BY <1>6, <2>1, <2>2
          DEF SpeedTestAsked, TypeOK, wires, link, counters, notes
<1> QED BY <1>3, <1>4, <1>5, <1>6

-----------------------------------------------------------------------------
(* Every step keeps the types. *)
LEMMA TypeStep ==
  ASSUME TypeOK, LoadInv, [Next]_vars
  PROVE  TypeOK'
<1>1. CASE AppTick
  <2>1. tabs' \in BOOLEAN
    BY <1>1, Zenon DEF AppTick
  <2>2. CASE Tick
    BY <2>1, <2>2, ButtonTypes
  <2>3. CASE IdleTick
    BY <2>1, <2>3
    DEF IdleTick, backend, TypeOK, wires, link, screen, counters, notes
  <2> QED BY <1>1, <2>2, <2>3 DEF AppTick
<1>2. CASE BackendStep /\ UNCHANGED tabs
  <2>1. tabs' \in BOOLEAN
    BY <1>2 DEF TypeOK
  <2> QED BY <1>2, <2>1, DaemonTypes, PushesType, AnswerTypes, FaultTypes,
             TimeOutTypes, ReadTypes, ConnectTypes, LoadTypes, TearDownTypes,
             ButtonTypes, Zenon DEF BackendStep
<1>3. CASE UNCHANGED vars
  BY <1>3 DEF vars, backend, TypeOK, wires, link, screen, counters, notes
<1> QED BY <1>1, <1>2, <1>3 DEF Next

(* The load's step stays right: what its request becomes while waiting     *)
(* changes nothing about the connection.                                   *)
LEMMA LoadStep ==
  ASSUME TypeOK, LoadInv, [Next]_vars
  PROVE  LoadInv'
<1> DEFINE kept == UNCHANGED <<conn, step>>
<1>1. ASSUME kept, calls["load"].st = "none" => calls'["load"].st = "none"
      PROVE  LoadInv'
  BY <1>1 DEF LoadInv
<1>2. CASE Tick \/ StartSpeedTest \/ SessionsRefreshed \/ SpeedTestAsked
  <2>1. calls'["load"] = calls["load"]
    BY <1>2 DEF Tick, StartSpeedTest, SessionsRefreshed, SpeedTestAsked, Ask,
                Waiting, TypeOK, Tasks
  <2>2. kept
    BY <1>2 DEF Tick, StartSpeedTest, SessionsRefreshed, SpeedTestAsked, link
  <2> QED BY <1>1, <2>1, <2>2
<1>3. ASSUME NEW t \in Tasks, TimesOutEarly(t) \/ TimesOut(t)
      PROVE  LoadInv'
  <2>1. kept /\ Waits(t) /\ calls' = [calls EXCEPT ![t] = Failed]
    BY <1>3 DEF TimesOutEarly, TimesOut, TimeOut, Overdue, link
  <2>2. calls["load"].st = "none" => calls'["load"] = calls["load"]
    BY <2>1 DEF TypeOK, Tasks, Waits
  <2> QED BY <1>1, <2>1, <2>2
<1>4. CASE Read
  <2>1. kept /\ (UNCHANGED calls \/ ReadAnswer)
    BY <1>4 DEF Read, ReadEnds, ReadAnswer, ReadLoginEvent, ReadSpeedtestResult, link
  <2>2. CASE ReadAnswer
    <3>1. calls["load"].st = "none" => calls'["load"] = calls["load"]
      BY <2>2 DEF ReadAnswer, Waiter, Waits, Tasks
    <3> QED BY <1>1, <2>1, <3>1
  <2> QED BY <1>1, <2>1, <2>2
<1>5. CASE \/ Login \/ Push \/ ScheduledTest \/ TestEnds \/ TestResultLost
           \/ Serve \/ ServeFails \/ DaemonDies \/ DaemonStarts
  <2>1. kept /\ UNCHANGED calls
    BY <1>5 DEF Login, Push, ScheduledTest, TestEnds, TestResultLost, Serve,
                ServeFails, DaemonDies, DaemonStarts, link
  <2> QED BY <1>1, <2>1
<1>6. CASE IdleTick \/ UNCHANGED vars
  <2>1. kept /\ UNCHANGED calls
    BY <1>6 DEF IdleTick, vars, backend, link
  <2> QED BY <1>1, <2>1
<1>7. CASE (Connect \/ LoadGoesOn \/ TearDown) /\ UNCHANGED tabs
  BY <1>7, ConnectTypes, LoadTypes, TearDownTypes
<1> HIDE DEF kept
<1> QED BY <1>2, <1>3, <1>4, <1>5, <1>6, <1>7, Zenon
        DEF Next, BackendStep, AppTick

-----------------------------------------------------------------------------
(* Whose answer it is.  Nobody starts to wait, and what comes onto a wire  *)
(* is no answer, or that to a request which was on the other.              *)
LEMMA OwnKept ==
  ASSUME OwnInv,
         \A t \in Tasks : Waits(t)' => calls'[t] = calls[t],
         Lines(toDaemon') \subseteq Lines(toDaemon),
         \A m \in Lines(toClient') : m.kind = "answer" =>
            \/ m \in Lines(toClient)
            \/ \E r \in Lines(toDaemon) : r.id = m.id /\ r.cmd = m.cmd
  PROVE  OwnInv'
<1>1. \A t \in Tasks : Waits(t)' => Waits(t)
  BY DEF Waits
<1>2. ASSUME NEW t \in Tasks, Waits(t)'
      PROVE  /\ \A r \in Lines(toDaemon') :
                    r.id = calls'[t].id => r.cmd = calls'[t].cmd
             /\ \A m \in Lines(toClient') :
                    m.kind = "answer" /\ m.id = calls'[t].id
                       => m.cmd = calls'[t].cmd
  <2>1. Waits(t) /\ calls'[t] = calls[t]
    BY <1>1, <1>2
  <2>2. /\ \A r \in Lines(toDaemon) : r.id = calls[t].id => r.cmd = calls[t].cmd
        /\ \A m \in Lines(toClient) :
              m.kind = "answer" /\ m.id = calls[t].id => m.cmd = calls[t].cmd
    BY <2>1, Zenon DEF OwnInv
  <2>3. \A m \in Lines(toClient') :
           m.kind = "answer" /\ m.id = calls[t].id => m.cmd = calls[t].cmd
    <3> SUFFICES ASSUME NEW m \in Lines(toClient'), m.kind = "answer",
                        m.id = calls[t].id
                 PROVE  m.cmd = calls[t].cmd
      OBVIOUS
    <3>1. CASE m \in Lines(toClient)
      BY <2>2, <3>1
    <3>2. ASSUME NEW r \in Lines(toDaemon), r.id = m.id, r.cmd = m.cmd
          PROVE  m.cmd = calls[t].cmd
      BY <2>2, <3>2
    <3> QED BY <3>1, <3>2
  <2> QED BY <2>1, <2>2, <2>3, Zenon
<1>3. Waits("speedtest")' => calls'["speedtest"].cmd = "run_speedtest"
  BY <1>1, "speedtest" \in Tasks, Zenon DEF OwnInv, Tasks
<1> QED BY <1>2, <1>3, Zenon DEF OwnInv, Lines

(* As above: someone asks, with an id nobody has. *)
LEMMA OwnAsked ==
  ASSUME TypeOK, OwnInv, NEW t \in Tasks, NEW cmd \in Commands,
         Ask(t, cmd) \/ (Waiting(t, cmd) /\ toDaemon' = Sent(cmd)),
         t = "speedtest" => cmd = "run_speedtest",
         UNCHANGED toClient
  PROVE  OwnInv'
<1> DEFINE w == [st |-> "waiting", id |-> FreshId, cmd |-> cmd]
           r0 == [id |-> FreshId, cmd |-> cmd]
<1>1. /\ \A u \in Tasks : u # t => calls'[u] = calls[u]
      /\ calls'[t] = Failed \/ calls'[t] = w
      /\ Lines(toDaemon') \subseteq Lines(toDaemon) \cup {r0}
  BY Asking
<1>2. /\ w.id = FreshId /\ w.cmd = cmd /\ w.st = "waiting"
      /\ r0.id = FreshId /\ r0.cmd = cmd /\ Failed.st # "waiting"
  BY DEF Failed
<1>3. /\ \A u \in Tasks : Waits(u) => calls[u].id # FreshId
      /\ \A r \in Lines(toDaemon) : r.id # FreshId
      /\ \A m \in Lines(toClient) : m.kind = "answer" => m.id # FreshId
  BY NobodyHasIt
<1> HIDE DEF w, r0
<1>4. ASSUME NEW u \in Tasks, Waits(u)'
      PROVE  /\ \A r \in Lines(toDaemon') :
                    r.id = calls'[u].id => r.cmd = calls'[u].cmd
             /\ \A m \in Lines(toClient') :
                    m.kind = "answer" /\ m.id = calls'[u].id
                       => m.cmd = calls'[u].cmd
  <2>1. Lines(toClient') = Lines(toClient)
    BY Zenon DEF Lines
  <2>2. CASE u = t
    <3>1. calls'[u] = w
      BY <1>1, <1>2, <1>4, <2>2, Zenon DEF Waits
    <3> QED BY <1>1, <1>2, <1>3, <2>1, <3>1, Zenon
  <2>3. CASE u # t
    <3>1. calls'[u] = calls[u] /\ Waits(u)
      BY <1>1, <1>4, <2>3, Zenon DEF Waits
    <3>2. calls[u].id # FreshId
      BY <1>3, <3>1, Zenon
    <3>3. \A r \in Lines(toDaemon') : r.id = calls[u].id => r \in Lines(toDaemon)
      BY <1>1, <1>2, <3>2
    <3> QED BY <2>1, <3>1, <3>3, Zenon DEF OwnInv
  <2> QED BY <2>2, <2>3
<1>5. Waits("speedtest")' => calls'["speedtest"].cmd = "run_speedtest"
  <2> SUFFICES ASSUME Waits("speedtest")'
               PROVE  calls'["speedtest"].cmd = "run_speedtest"
    OBVIOUS
  <2>1. "speedtest" \in Tasks
    BY DEF Tasks
  <2>2. CASE t = "speedtest"
    BY <1>1, <1>2, <2>2, Zenon DEF Waits
  <2>3. CASE t # "speedtest"
    BY <1>1, <2>1, <2>3, Zenon DEF Waits, OwnInv
  <2> QED BY <2>2, <2>3
<1> QED BY <1>4, <1>5, Zenon DEF OwnInv, Lines

(* Every step keeps that an id on a wire belongs to one request. *)
LEMMA OwnStep ==
  ASSUME TypeOK, LoadInv, OwnInv, [Next]_vars
  PROVE  OwnInv'
<1> DEFINE sameCalls == \A t \in Tasks : Waits(t)' => calls'[t] = calls[t]
           sent == Lines(toDaemon') \subseteq Lines(toDaemon)
           written == \A m \in Lines(toClient') : m.kind = "answer" =>
              \/ m \in Lines(toClient)
              \/ \E r \in Lines(toDaemon) : r.id = m.id /\ r.cmd = m.cmd
<1>1. ASSUME sameCalls, sent, written
      PROVE  OwnInv'
  BY <1>1, OwnKept
<1>2. ASSUME UNCHANGED calls
      PROVE  sameCalls
  BY <1>2
<1>3. ASSUME UNCHANGED toDaemon
      PROVE  sent
  BY <1>3
<1>4. ASSUME UNCHANGED toClient
      PROVE  written
  BY <1>4
<1>5. CASE Login \/ ScheduledTest \/ DaemonStarts \/ IdleTick \/ UNCHANGED vars
  <2>1. UNCHANGED <<calls, toDaemon, toClient>>
    BY <1>5 DEF Login, ScheduledTest, DaemonStarts, IdleTick, vars, backend, wires
  <2> QED BY <1>1, <1>2, <1>3, <1>4, <2>1
<1>6. CASE Push \/ TestEnds
  <2>1. UNCHANGED <<calls, toDaemon>>
    BY <1>6 DEF Push, TestEnds
  <2>2. PICK m \in Line : Deliver(<<m>>) /\ m.kind # "answer"
    <3>1. CASE Push
      <4>1. daemon.pushed + 1 \in 1 .. MaxLogins
        BY <3>1, LimitAssumption, DaemonIsRecord DEF DaemonRecord, Push
      <4>2. LoginEvent(daemon.pushed + 1) \in Line
        BY <4>1, WrittenLines
      <4>3. LoginEvent(daemon.pushed + 1).kind # "answer"
        BY DEF LoginEvent
      <4> QED BY <3>1, <4>2, <4>3, Zenon DEF Push
    <3>2. CASE TestEnds
      <4>1. SpeedtestResult.kind # "answer"
        BY DEF SpeedtestResult
      <4> QED BY <3>2, <4>1, WrittenLines, Zenon DEF TestEnds
    <3> QED BY <1>6, <3>1, <3>2
  <2>3. Lines(toClient') \subseteq Lines(toClient) \cup {m}
    BY <2>2, Delivering
  <2>4. written
    BY <2>2, <2>3, Zenon
  <2> QED BY <1>1, <1>2, <1>3, <2>1, <2>4
<1>7. CASE (Serve \/ ServeFails) /\ UNCHANGED tabs
  <2>1. UNCHANGED calls
    BY <1>7 DEF Serve, ServeFails
  <2>2. PICK ok \in BOOLEAN, d \in 0 .. MaxLogins :
           Lines(toClient') = Lines(toClient) \cup
                 {[kind |-> "answer", id |-> Head(toDaemon).id,
                   cmd |-> Head(toDaemon).cmd, ok |-> ok, data |-> d]}
    BY <1>7, AnswerTypes
  <2>3. sent /\ Head(toDaemon) \in Lines(toDaemon)
    BY <1>7, AnswerTypes
  <2>4. written
    BY <2>2, <2>3
  <2> QED BY <1>1, <1>2, <2>1, <2>3, <2>4
<1>8. CASE (TestResultLost \/ DaemonDies) /\ UNCHANGED tabs
  <2>1. UNCHANGED calls
    BY <1>8 DEF TestResultLost, DaemonDies
  <2>2. sent /\ Lines(toClient') \subseteq Lines(toClient) \cup {Eof}
    BY <1>8, FaultTypes
  <2>3. Eof.kind # "answer"
    BY DEF Eof
  <2>4. written
    BY <2>2, <2>3, Zenon
  <2> QED BY <1>1, <1>2, <2>1, <2>2, <2>4
<1>9. ASSUME NEW t \in Tasks, TimesOutEarly(t) \/ TimesOut(t)
      PROVE  OwnInv'
  <2>1. calls' = [calls EXCEPT ![t] = Failed] /\ UNCHANGED <<toDaemon, toClient>>
    BY <1>9 DEF TimesOutEarly, TimesOut, TimeOut, wires
  <2>2. sameCalls
    BY <2>1 DEF TypeOK, Waits, Failed
  <2> QED BY <1>1, <1>3, <1>4, <2>1, <2>2
<1>10. CASE Read /\ UNCHANGED tabs
  <2>1. UNCHANGED toDaemon /\ (UNCHANGED calls \/ ReadAnswer)
    BY <1>10 DEF Read, ReadEnds, ReadAnswer, ReadLoginEvent, ReadSpeedtestResult
  <2>2. written
    BY <1>10, ReadTypes
  <2>3. sameCalls
    <3>1. CASE ReadAnswer
      BY <3>1 DEF ReadAnswer, Waits
    <3> QED BY <1>2, <2>1, <3>1
  <2> QED BY <1>1, <1>3, <2>1, <2>2, <2>3
<1>11. CASE TearDown
  <2>1. Lines(toDaemon') = {} /\ Lines(toClient') = {}
    BY <1>11 DEF TearDown, Lines
  <2>2. sameCalls
    BY <1>11 DEF TearDown, Waits, NoCall, Failed
  <2> QED BY <1>1, <2>1, <2>2
<1>12. CASE SessionsRefreshed \/ SpeedTestAsked
  <2>1. UNCHANGED <<toDaemon, toClient>>
    BY <1>12 DEF SessionsRefreshed, SpeedTestAsked, wires
  <2>2. sameCalls
    BY <1>12 DEF SessionsRefreshed, SpeedTestAsked, Waits, NoCall, TypeOK
  <2> QED BY <1>1, <1>3, <1>4, <2>1, <2>2
<1> HIDE DEF sameCalls, sent, written
<1>13. "get_snapshot" \in Commands /\ "run_speedtest" \in Commands
  <2>1. LoadSteps[2] = "get_snapshot" /\ 2 \in DOMAIN LoadSteps
    BY DEF LoadSteps
  <2> QED BY <2>1 DEF Commands
<1>14. CASE Tick
  BY <1>13, <1>14, OwnAsked, "sessions" \in Tasks DEF Tick, Tasks
<1>15. CASE StartSpeedTest
  BY <1>13, <1>15, OwnAsked, "speedtest" \in Tasks DEF StartSpeedTest, Tasks
<1>16. CASE Connect
  BY <1>16, SevenSteps, OwnAsked, "load" \in Tasks DEF Connect, Tasks
<1>17. CASE LoadGoesOn
  <2>1. step \in 1 .. 7 /\ UNCHANGED toClient
    BY <1>17, SevenSteps DEF LoadInv, LoadGoesOn
  <2>2. CASE step < 7
    <3>1. LoadSteps[step + 1] \in Commands /\ Ask("load", LoadSteps[step + 1])
      BY <1>17, <2>1, <2>2, SevenSteps DEF LoadGoesOn
    <3> QED BY <2>1, <3>1, OwnAsked, "load" \in Tasks DEF Tasks
  <2>3. CASE ~(step < 7)
    <3>1. calls' = [calls EXCEPT !["load"] = NoCall] /\ UNCHANGED toDaemon
      BY <1>17, <2>3, SevenSteps DEF LoadGoesOn
    <3>2. sameCalls
      BY <3>1 DEF TypeOK, Waits, NoCall, sameCalls
    <3> QED BY <1>1, <1>3, <1>4, <2>1, <3>1, <3>2
  <2> QED BY <2>2, <2>3
<1> QED BY <1>5, <1>6, <1>7, <1>8, <1>9, <1>10, <1>11, <1>12, <1>14, <1>15,
           <1>16, <1>17, Zenon DEF Next, BackendStep, AppTick

-----------------------------------------------------------------------------
(* The speedtest button.  Nothing happens to it, or only to what others    *)
(* wait for.                                                               *)
LEMMA BusyKept ==
  ASSUME BusyInv,
         testing' => testing,
         UNCHANGED calls["speedtest"],
         daemon.tests > 0 => daemon'.tests > 0,
         \A m \in Lines(toClient') :
            \/ m \in Lines(toClient)
            \/ m.kind # "answer" \/ ~m.ok \/ m.id # calls["speedtest"].id,
         SpeedtestResult \in Lines(toClient) => SpeedtestResult \in Lines(toClient'),
         missed => missed'
  PROVE  BusyInv'
<1>1. Unserved => Unserved'
  <2>1. \A m \in Lines(toClient)' :
            \/ m \in Lines(toClient)
            \/ m.kind # "answer" \/ ~m.ok \/ m.id # calls["speedtest"].id
    BY Zenon DEF Lines
  <2> QED BY <2>1, Zenon DEF Unserved, Waits
<1>2. SpeedtestResult \in Lines(toClient) => SpeedtestResult \in Lines(toClient)'
  BY Zenon DEF Lines
<1>3. Busy => Busy'
  BY <1>1, <1>2, Zenon DEF Busy
<1> QED BY <1>3, Zenon DEF BusyInv

(* Every step keeps that a busy button waits for something. *)
LEMMA BusyStep ==
  ASSUME TypeOK, LoadInv, OwnInv, BusyInv, [Next]_vars
  PROVE  BusyInv'
<1> DEFINE same == UNCHANGED calls["speedtest"]
<1>1. ASSUME same, UNCHANGED <<testing, toClient, missed>>,
             daemon.tests > 0 => daemon'.tests > 0
      PROVE  BusyInv'
  <2>1. Lines(toClient') = Lines(toClient)
    BY <1>1
  <2> QED BY <1>1, <2>1, BusyKept
<1>2. CASE Login \/ ScheduledTest \/ DaemonStarts \/ IdleTick \/ UNCHANGED vars
  <2>1. UNCHANGED <<calls, testing, toClient, missed>>
    BY <1>2 DEF Login, ScheduledTest, DaemonStarts, IdleTick, vars, backend, wires,
                screen, notes
  <2>2. daemon.tests > 0 => daemon'.tests > 0
    BY <1>2, DaemonIsRecord
    DEF Login, ScheduledTest, DaemonStarts, IdleTick, vars, backend, DaemonRecord
  <2> QED BY <1>1, <2>1, <2>2
<1>3. CASE Push
  <2>1. UNCHANGED <<calls, testing, missed>> /\ daemon'.tests = daemon.tests
    BY <1>3, DaemonIsRecord DEF Push, DaemonRecord, screen, notes
  <2>2. LoginEvent(daemon.pushed + 1) \in Line
    BY <1>3, WrittenLines, DaemonIsRecord, LimitAssumption DEF Push, DaemonRecord
  <2>3. LoginEvent(daemon.pushed + 1).kind # "answer"
    BY DEF LoginEvent
  <2>4. \/ Lines(toClient') = Lines(toClient) \cup {LoginEvent(daemon.pushed + 1)}
        \/ toClient' = toClient
    BY <1>3, <2>2, Delivering DEF Push
  <2> QED BY <2>1, <2>3, <2>4, BusyKept
<1>4. CASE TestEnds
  <2>1. UNCHANGED <<calls, testing>>
    BY <1>4 DEF TestEnds, screen
  <2>2. testing /\ daemon.client # "subscribed" => missed'
    BY <1>4, Zenon DEF TestEnds
  <2>3. daemon.client = "subscribed" => SpeedtestResult \in Lines(toClient')
    BY <1>4, WrittenLines, Delivering DEF TestEnds
  <2>4. testing' => missed' \/ SpeedtestResult \in Lines(toClient)'
    BY <2>1, <2>2, <2>3, Zenon DEF Lines
  <2> QED BY <2>4, Zenon DEF BusyInv, Busy
<1>5. CASE TestResultLost
  <2>1. testing' => missed'
    BY <1>5, Zenon DEF TestResultLost, screen
  <2> QED BY <2>1, Zenon DEF BusyInv, Busy
<1>6. CASE (Serve \/ ServeFails) /\ UNCHANGED tabs
  <2>1. /\ UNCHANGED <<calls, testing, missed>>
        /\ Head(toDaemon) \in Lines(toDaemon)
    BY <1>6, AnswerTypes DEF Serve, ServeFails, screen, notes
  <2>2. PICK ok \in BOOLEAN, d \in 0 .. MaxLogins :
           (ok => Serve) /\ Lines(toClient') = Lines(toClient) \cup
                 {[kind |-> "answer", id |-> Head(toDaemon).id,
                   cmd |-> Head(toDaemon).cmd, ok |-> ok, data |-> d]}
    BY <1>6, AnswerTypes
  <2> DEFINE m == [kind |-> "answer", id |-> Head(toDaemon).id,
                   cmd |-> Head(toDaemon).cmd, ok |-> ok, data |-> d]
  <2>3. m.kind = "answer" /\ m.ok = ok /\ m.id = Head(toDaemon).id
    OBVIOUS
  <2>4. daemon.tests > 0 => daemon'.tests > 0
    <3>1. CASE Serve
      BY <3>1, DaemonIsRecord DEF Serve, DaemonRecord
    <3>2. CASE ServeFails
      BY <3>2 DEF ServeFails
    <3> QED BY <1>6, <3>1, <3>2
  <2>5. CASE daemon'.tests > 0
    BY <2>5, Zenon DEF BusyInv, Busy
  <2>6. CASE ~(daemon'.tests > 0) /\ ~m.ok
    <3> HIDE DEF m
    <3> QED BY <2>1, <2>2, <2>4, <2>6, BusyKept, Zenon DEF m
  <2>7. CASE ~(daemon'.tests > 0) /\ m.id # calls["speedtest"].id
    <3> HIDE DEF m
    <3> QED BY <2>1, <2>2, <2>4, <2>7, BusyKept, Zenon DEF m
  <2>8. CASE /\ ~(daemon'.tests > 0)
             /\ ~Waits("speedtest")
    <3>1. Unserved => Unserved'
      BY <2>1, <2>8, Zenon DEF Unserved, Waits
    <3>2. SpeedtestResult \in Lines(toClient) => SpeedtestResult \in Lines(toClient)'
      BY <2>2, Zenon DEF Lines
    <3> QED BY <2>1, <2>4, <3>1, <3>2, Zenon DEF BusyInv, Busy
  <2>9. ASSUME Waits("speedtest"), m.id = calls["speedtest"].id, m.ok
        PROVE  daemon'.tests > 0
    <3>1. Serve
      BY <2>2, <2>3, <2>9
    <3>2. Head(toDaemon).cmd = "run_speedtest"
      BY <2>1, <2>3, <2>9, "speedtest" \in Tasks, Zenon DEF OwnInv, Tasks
    <3> QED BY <3>1, <3>2, DaemonIsRecord DEF Serve, DaemonRecord
  <2> QED BY <2>5, <2>6, <2>7, <2>8, <2>9, Zenon
<1>7. CASE DaemonDies /\ UNCHANGED tabs
  <2>1. UNCHANGED <<calls, testing>>
    BY <1>7 DEF DaemonDies, screen
  <2>2. ResultOnItsWay <=> SpeedtestResult \in Lines(toClient)
    BY Zenon DEF ResultOnItsWay, Lines
  <2>3. missed \/ (testing /\ (daemon.tests > 0 \/ ResultOnItsWay)) => missed'
    BY <1>7, Zenon DEF DaemonDies
  <2>4. \A m \in Lines(toClient)' : m \in Lines(toClient) \/ m.kind # "answer"
    <3>1. Eof.kind # "answer"
      BY DEF Eof
    <3>2. Lines(toClient') \subseteq Lines(toClient) \cup {Eof}
      BY <1>7, FaultTypes
    <3> QED BY <3>1, <3>2, Zenon DEF Lines
  <2>5. Unserved => Unserved'
    BY <2>1, <2>4, Zenon DEF Unserved, Waits
  <2> QED BY <2>1, <2>2, <2>3, <2>5, Zenon DEF BusyInv, Busy
<1>8. ASSUME NEW t \in Tasks, TimesOutEarly(t) \/ TimesOut(t)
      PROVE  BusyInv'
  <2>1. /\ calls' = [calls EXCEPT ![t] = Failed]
        /\ UNCHANGED <<daemon, testing, toClient, missed>>
    BY <1>8 DEF TimesOutEarly, TimesOut, TimeOut, wires, screen, notes
  <2>2. CASE t = "speedtest"
    <3>1. calls'["speedtest"].st = "failed"
      BY <2>1, <2>2 DEF TypeOK, Tasks, Failed
    <3> QED BY <3>1, Zenon DEF BusyInv, Busy, Unserved
  <2>3. CASE t # "speedtest"
    <3>1. same
      BY <2>1, <2>3 DEF TypeOK, Tasks
    <3> QED BY <1>1, <2>1, <3>1
  <2> QED BY <2>2, <2>3
<1>9. CASE Read /\ UNCHANGED tabs
  <2>1. Lines(toClient) = Lines(toClient') \cup {Head(toClient)}
    BY <1>9, ReadTypes
  <2>2. CASE ReadSpeedtestResult
    BY <2>2, Zenon DEF ReadSpeedtestResult, BusyInv
  <2>3. CASE ReadEnds \/ ReadLoginEvent
    <3>1. UNCHANGED <<calls, testing, missed, daemon>>
      BY <2>3 DEF ReadEnds, ReadLoginEvent, screen, notes
    <3>2. Head(toClient) # SpeedtestResult
      BY <2>3 DEF ReadEnds, ReadLoginEvent, Eof, SpeedtestResult, TooLong
    <3> QED BY <2>1, <3>1, <3>2, BusyKept
  <2>4. CASE ReadAnswer
    <3>1. UNCHANGED <<testing, missed, daemon>>
      BY <2>4 DEF ReadAnswer, screen, notes
    <3>2. Head(toClient) # SpeedtestResult /\ Head(toClient).kind = "answer"
      BY <2>4 DEF ReadAnswer, SpeedtestResult
    <3>3. CASE "speedtest" \notin Waiter(Head(toClient))
      <4>1. same
        BY <2>4, <3>3 DEF ReadAnswer, Tasks
      <4> QED BY <2>1, <3>1, <3>2, <4>1, BusyKept
    <3>4. CASE "speedtest" \in Waiter(Head(toClient)) /\ ~Head(toClient).ok
      <4>1. calls'["speedtest"].st = "failed"
        BY <2>4, <3>4 DEF ReadAnswer, Tasks
      <4> QED BY <4>1, Zenon DEF BusyInv, Busy, Unserved
    <3>5. CASE "speedtest" \in Waiter(Head(toClient)) /\ Head(toClient).ok
      <4>1. Waits("speedtest") /\ Head(toClient).id = calls["speedtest"].id
        BY <3>5, Zenon DEF Waiter
      <4>2. ~Unserved
        <5>1. Head(toClient) \in Lines(toClient) /\ calls["speedtest"].st # "failed"
          BY <2>1, <4>1 DEF Waits
        <5> QED BY <3>2, <3>5, <4>1, <5>1, Zenon DEF Unserved
      <4>3. SpeedtestResult \in Lines(toClient) => SpeedtestResult \in Lines(toClient)'
        BY <2>1, <3>2, Zenon DEF Lines
      <4> QED BY <3>1, <4>2, <4>3, Zenon DEF BusyInv, Busy
    <3> QED BY <3>3, <3>4, <3>5
  <2> QED BY <1>9, <2>2, <2>3, <2>4 DEF Read
<1>10. CASE Connect \/ Tick \/ LoadGoesOn
  <2>1. UNCHANGED <<testing, toClient, missed>> /\ daemon'.tests = daemon.tests
    BY <1>10, DaemonIsRecord
    DEF Connect, Tick, LoadGoesOn, screen, notes, DaemonRecord
  <2>2. same
    <3>1. CASE Connect \/ LoadGoesOn
      BY <3>1 DEF Connect, LoadGoesOn, Ask, Waiting, TypeOK, Tasks
    <3>2. CASE Tick
      BY <3>2 DEF Tick, Ask, Waiting, TypeOK, Tasks
    <3> QED BY <1>10, <3>1, <3>2
  <2> QED BY <1>1, <2>1, <2>2
<1>11. CASE SessionsRefreshed
  <2>1. UNCHANGED <<testing, toClient, missed, daemon>> /\ same
    BY <1>11 DEF SessionsRefreshed, wires, screen, notes, TypeOK, Tasks
  <2> QED BY <1>1, <2>1
<1>12. CASE TearDown
  <2>1. UNCHANGED testing /\ daemon'.tests = daemon.tests
    BY <1>12, DaemonIsRecord DEF TearDown, screen, DaemonRecord
  <2>2. ResultOnItsWay <=> SpeedtestResult \in Lines(toClient)
    BY Zenon DEF ResultOnItsWay, Lines
  <2>3. missed \/ (testing /\ ResultOnItsWay) => missed'
    BY <1>12, Zenon DEF TearDown
  <2>4. Unserved => calls'["speedtest"].st = "failed"
    BY <1>12 DEF TearDown, Unserved, Waits, Tasks, Failed
  <2> QED BY <2>1, <2>2, <2>3, <2>4, Zenon DEF BusyInv, Busy, Unserved
<1>13. CASE StartSpeedTest
  <2>1. UNCHANGED toClient /\ Ask("speedtest", "run_speedtest")
    BY <1>13 DEF StartSpeedTest
  <2>2. "run_speedtest" \in Commands /\ "speedtest" \in Tasks
    BY DEF Commands, Tasks
  <2>3. \/ calls'["speedtest"] = Failed
        \/ calls'["speedtest"] =
              [st |-> "waiting", id |-> FreshId, cmd |-> "run_speedtest"]
    BY <2>1, <2>2, Asking
  <2>4. \/ calls'["speedtest"].st = "failed"
        \/ /\ calls'["speedtest"].st = "waiting"
           /\ calls'["speedtest"].id = FreshId
    BY <2>3 DEF Failed
  <2>5. \A m \in Lines(toClient)' : m.kind = "answer" => m.id # FreshId
    BY <2>1, NobodyHasIt DEF Lines
  <2>6. Unserved'
    BY <2>4, <2>5, Zenon DEF Unserved, Waits
  <2> QED BY <2>6, Zenon DEF BusyInv, Busy
<1>14. CASE SpeedTestAsked
  <2>1. UNCHANGED <<toClient, missed, daemon>>
    BY <1>14 DEF SpeedTestAsked, wires, notes
  <2>2. CASE calls["speedtest"].st = "failed"
    BY <1>14, <2>2, Zenon DEF SpeedTestAsked, TestingAfter, BusyInv
  <2>3. CASE calls["speedtest"].st # "failed"
    <3>1. ~Unserved /\ testing' = testing
      BY <1>14, <2>3 DEF SpeedTestAsked, TestingAfter, Unserved, Waits
    <3> QED BY <2>1, <3>1, Zenon DEF BusyInv, Busy, Lines
  <2> QED BY <2>2, <2>3
<1> HIDE DEF same
<1> QED BY <1>2, <1>3, <1>4, <1>5, <1>6, <1>7, <1>8, <1>9, <1>10, <1>11,
           <1>12, <1>13, <1>14, Zenon DEF Next, BackendStep, AppTick

-----------------------------------------------------------------------------
(* The inductive invariant holds initially. *)
LEMMA InitInv == Init => IInv
<1> SUFFICES ASSUME Init PROVE IInv
  OBVIOUS
<1>1. TypeOK
  <2>1. daemon \in DaemonRecord
    <3>1. PICK n \in 0 .. MaxLogins :
             daemon = [up |-> TRUE, rows |-> n, pushed |-> n,
                       client |-> "none", tests |-> 0]
      BY DEF Init
    <3> QED BY <3>1 DEF DaemonRecord
  <2>2. calls \in [Tasks -> Call]
    BY DEF Init, Call
  <2>3. /\ <<>> \in Seq(Request) /\ <<>> \in Seq(Line) /\ <<>> \in Seq(1 .. MaxLogins)
        /\ 0 \in 0 .. Loaded /\ 0 \in 0 .. MaxTroubles /\ 0 \in 0 .. MaxTests
    BY SevenSteps, LimitAssumption
  <2> QED BY <2>1, <2>2, <2>3 DEF Init, TypeOK, DaemonRecord
<1>2. LoadInv /\ OwnInv /\ BusyInv
  BY DEF Init, LoadInv, OwnInv, BusyInv, Waits, NoCall, Tasks
<1> QED BY <1>1, <1>2 DEF IInv

(* It always holds. *)
THEOREM Invariance == Spec => []IInv
<1>1. IInv /\ [Next]_vars => IInv'
  BY TypeStep, LoadStep, OwnStep, BusyStep DEF IInv
<1> QED BY <1>1, InitInv, PTL DEF Spec

(* Every variable has the shape its comment gives it. *)
THEOREM TypeCorrect == Spec => []TypeOK
<1>1. IInv => TypeOK
  BY DEF IInv
<1> QED BY <1>1, Invariance, PTL

(* While the button says a test is running something will end that, unless *)
(* a result went astray (start_speed_test, _apply_new_speedtest_result).   *)
THEOREM BusyButtonWaits == Spec => []SpeedtestRunning
<1>1. IInv => SpeedtestRunning
  <2>1. ResultOnItsWay <=> SpeedtestResult \in Lines(toClient)
    BY Zenon DEF ResultOnItsWay, Lines
  <2>2. Unserved => calls["speedtest"].st # "none"
    BY DEF Unserved, Waits
  <2> QED BY <2>1, <2>2, Zenon DEF IInv, BusyInv, Busy, SpeedtestRunning
<1> QED BY <1>1, Invariance, PTL

-----------------------------------------------------------------------------
(* What a call may become, in the terms of RequestReply. *)
Moves(c, d) ==
    \/ d = c
    \/ /\ c.st \in {"none", "answered"}
       /\ d = Failed \/ (d.st = "waiting" /\ d.cmd \in Commands)
    \/ /\ c.st = "waiting"
       /\ \/ d.st = "failed"
          \/ d.st = "answered" /\ d.mine /\ d.cmd = c.cmd
    \/ c.st \in {"answered", "failed"} /\ d = NoCall

(* A step in which every call makes such a move is one of RequestReply. *)
LEMMA MovesMap ==
  ASSUME \A t \in Tasks : Moves(calls[t], calls'[t])
  PROVE  Abstract!Next
<1> SUFFICES ASSUME NEW t \in Tasks
             PROVE  \/ Exchange(calls'[t]) = Exchange(calls[t])
                    \/ /\ Exchange(calls[t]).st \in {"idle", "answered"}
                       /\ Exchange(calls'[t]) \in
                             {Abstract!Failed} \cup {Abstract!Asked(r) : r \in Commands}
                    \/ /\ Exchange(calls[t]).st = "asked"
                       /\ Exchange(calls'[t]) \in
                             {Abstract!Failed,
                              Abstract!Answered(Exchange(calls[t]).request)}
                    \/ /\ Exchange(calls[t]).st \in {"answered", "failed"}
                       /\ Exchange(calls'[t]) = Abstract!Idle
  BY DEF Abstract!Next, Abstract!Asks, Abstract!Receives, Abstract!Leaves
<1>1. Moves(calls[t], calls'[t])
  OBVIOUS
<1> DEFINE c == calls[t]
           d == calls'[t]
<1> HIDE DEF c, d
<1>2. Moves(c, d)
  BY <1>1 DEF c, d
<1>3. CASE d = c
  BY <1>3 DEF c, d
<1>4. CASE /\ c.st \in {"none", "answered"}
           /\ d = Failed \/ (d.st = "waiting" /\ d.cmd \in Commands)
  <2>1. Exchange(c).st \in {"idle", "answered"}
    BY <1>4 DEF Exchange
  <2>2. CASE d = Failed
    <3>1. d.st = "failed"
      BY <2>2 DEF Failed
    <3>2. Exchange(d) = Abstract!Failed
      BY <3>1 DEF Exchange, Abstract!Failed
    <3> QED BY <2>1, <3>2 DEF c, d
  <2>3. CASE d.st = "waiting" /\ d.cmd \in Commands
    <3>1. Exchange(d) = Abstract!Asked(d.cmd)
      BY <2>3 DEF Exchange, Abstract!Asked
    <3> QED BY <2>1, <2>3, <3>1 DEF c, d
  <2> QED BY <1>4, <2>2, <2>3
<1>5. CASE /\ c.st = "waiting"
           /\ \/ d.st = "failed"
              \/ d.st = "answered" /\ d.mine /\ d.cmd = c.cmd
  <2>1. Exchange(c).st = "asked" /\ Exchange(c).request = c.cmd
    BY <1>5 DEF Exchange
  <2>2. CASE d.st = "failed"
    BY <2>1, <2>2 DEF Exchange, Abstract!Failed, c, d
  <2>3. CASE d.st = "answered" /\ d.mine /\ d.cmd = c.cmd
    <3>1. Exchange(d) = Abstract!Answered(c.cmd)
      BY <2>3 DEF Exchange, AnswerTo, Abstract!Answered
    <3> QED BY <2>1, <3>1 DEF c, d
  <2> QED BY <1>5, <2>2, <2>3
<1>6. CASE c.st \in {"answered", "failed"} /\ d = NoCall
  <2>1. Exchange(c).st \in {"answered", "failed"}
    BY <1>6 DEF Exchange
  <2>2. Exchange(d) = Abstract!Idle
    BY <1>6 DEF Exchange, NoCall, Abstract!Idle
  <2> QED BY <2>1, <2>2 DEF c, d
<1> QED BY <1>2, <1>3, <1>4, <1>5, <1>6 DEF Moves

(* Every call makes such a move, in every step. *)
LEMMA StepMoves ==
  ASSUME IInv, [Next]_vars
  PROVE  \A t \in Tasks : Moves(calls[t], calls'[t])
<1> USE DEF IInv
<1>1. ASSUME UNCHANGED calls
      PROVE  \A t \in Tasks : Moves(calls[t], calls'[t])
  BY <1>1 DEF Moves
<1>2. ASSUME NEW t \in Tasks, NEW cmd \in Commands,
             Ask(t, cmd) \/ (Waiting(t, cmd) /\ toDaemon' = Sent(cmd)),
             calls[t].st \in {"none", "answered"}
      PROVE  \A u \in Tasks : Moves(calls[u], calls'[u])
  <2>1. \A u \in Tasks : u # t => calls'[u] = calls[u]
    BY <1>2, Asking
  <2>2. \/ calls'[t] = Failed
        \/ calls'[t] = [st |-> "waiting", id |-> FreshId, cmd |-> cmd]
    BY <1>2, Asking
  <2>3. calls'[t] = Failed \/ (calls'[t].st = "waiting" /\ calls'[t].cmd = cmd)
    BY <2>2
  <2>4. Moves(calls[t], calls'[t])
    BY <1>2, <2>3, Zenon DEF Moves
  <2> QED BY <2>1, <2>4, Zenon DEF Moves
<1>3. ASSUME NEW t \in Tasks, calls[t].st \in {"answered", "failed"},
             calls' = [calls EXCEPT ![t] = NoCall]
      PROVE  \A u \in Tasks : Moves(calls[u], calls'[u])
  <2>1. \A u \in Tasks : calls'[u] = IF u = t THEN NoCall ELSE calls[u]
    BY <1>3 DEF TypeOK
  <2> QED BY <1>3, <2>1, Zenon DEF Moves
<1>4. CASE \/ Login \/ Push \/ ScheduledTest \/ TestEnds \/ TestResultLost
           \/ Serve \/ ServeFails \/ DaemonDies \/ DaemonStarts \/ ReadEnds
           \/ ReadLoginEvent \/ ReadSpeedtestResult \/ IdleTick \/ UNCHANGED vars
  <2>1. UNCHANGED calls
    BY <1>4 DEF Login, Push, ScheduledTest, TestEnds, TestResultLost, Serve,
         ServeFails, DaemonDies, DaemonStarts, ReadEnds, ReadLoginEvent,
         ReadSpeedtestResult, IdleTick, vars, backend
  <2> QED BY <1>1, <2>1
<1>5. ASSUME NEW t \in Tasks, TimesOutEarly(t) \/ TimesOut(t)
      PROVE  \A u \in Tasks : Moves(calls[u], calls'[u])
  <2>1. calls[t].st = "waiting" /\ calls' = [calls EXCEPT ![t] = Failed]
    BY <1>5 DEF TimesOutEarly, TimesOut, TimeOut, Overdue, Waits
  <2>2. \A u \in Tasks : calls'[u] = IF u = t THEN Failed ELSE calls[u]
    BY <2>1 DEF TypeOK
  <2>3. Failed.st = "failed"
    BY DEF Failed
  <2> QED BY <2>1, <2>2, <2>3, Zenon DEF Moves
<1>6. CASE ReadAnswer
  <2> SUFFICES ASSUME NEW t \in Tasks PROVE Moves(calls[t], calls'[t])
    OBVIOUS
  <2> DEFINE m == Head(toClient)
  <2>1. CASE t \notin Waiter(m)
    BY <1>6, <2>1 DEF ReadAnswer, Moves
  <2>2. CASE t \in Waiter(m)
    <3>1. Waits(t) /\ calls[t].id = m.id
      BY <2>2 DEF Waiter
    <3>2. m \in Lines(toClient) /\ m.kind = "answer"
      BY <1>6, WireOps DEF ReadAnswer, TypeOK
    <3>3. m.cmd = calls[t].cmd
      BY <3>1, <3>2, Zenon DEF OwnInv
    <3>4. calls'[t] = [st |-> IF m.ok THEN "answered" ELSE "failed",
                       cmd |-> calls[t].cmd, data |-> m.data,
                       mine |-> m.id = calls[t].id /\ m.cmd = calls[t].cmd]
      BY <1>6, <2>2 DEF ReadAnswer
    <3>5. /\ calls'[t].st \in {"answered", "failed"}
          /\ calls'[t].cmd = calls[t].cmd
      BY <3>4
    <3>6. calls'[t].mine
      <4>1. (m.id = calls[t].id /\ m.cmd = calls[t].cmd) = TRUE
        BY <3>1, <3>3
      <4>2. calls'[t] = [st |-> IF m.ok THEN "answered" ELSE "failed",
                         cmd |-> calls[t].cmd, data |-> m.data, mine |-> TRUE]
        BY <3>4, <4>1, Zenon
      <4> QED BY <4>2
    <3> QED BY <3>1, <3>5, <3>6 DEF Moves, Waits
  <2> QED BY <2>1, <2>2
<1>7. "get_snapshot" \in Commands /\ "run_speedtest" \in Commands
  <2>1. LoadSteps[2] = "get_snapshot" /\ 2 \in DOMAIN LoadSteps
    BY DEF LoadSteps
  <2> QED BY <2>1 DEF Commands
<1>8. CASE Tick
  BY <1>2, <1>7, <1>8, "sessions" \in Tasks DEF Tick, Tasks
<1>9. CASE StartSpeedTest
  BY <1>2, <1>7, <1>9, "speedtest" \in Tasks DEF StartSpeedTest, Tasks
<1>10. CASE Connect
  <2>1. calls["load"].st = "none"
    BY <1>10 DEF Connect, LoadInv
  <2> QED BY <1>2, <1>10, <2>1, SevenSteps, "load" \in Tasks DEF Connect, Tasks
<1>11. CASE LoadGoesOn
  <2>1. step \in 1 .. 7 /\ calls["load"].st = "answered" /\ "load" \in Tasks
    BY <1>11, SevenSteps DEF LoadInv, LoadGoesOn, Tasks
  <2>2. CASE step < 7
    <3>1. LoadSteps[step + 1] \in Commands /\ Ask("load", LoadSteps[step + 1])
      BY <1>11, <2>1, <2>2, SevenSteps DEF LoadGoesOn
    <3> QED BY <1>2, <2>1, <3>1
  <2>3. CASE ~(step < 7)
    <3>1. calls' = [calls EXCEPT !["load"] = NoCall]
      BY <1>11, <2>3, SevenSteps DEF LoadGoesOn
    <3> QED BY <1>3, <2>1, <3>1
  <2> QED BY <2>2, <2>3
<1>12. CASE TearDown
  <2>1. calls["load"].st \in {"none", "failed"}
    BY <1>12, SevenSteps DEF TearDown, LoadInv
  <2>2. calls["load"].st = "none" => calls["load"] = NoCall
    BY DEF TypeOK, Call, NoCall, Failed, Tasks
  <2> SUFFICES ASSUME NEW t \in Tasks PROVE Moves(calls[t], calls'[t])
    OBVIOUS
  <2>3. calls'[t] = IF t = "load" THEN NoCall
                    ELSE IF Waits(t) THEN Failed ELSE calls[t]
    BY <1>12 DEF TearDown
  <2>4. Failed.st = "failed"
    BY DEF Failed
  <2> QED BY <2>1, <2>2, <2>3, <2>4 DEF Moves, Waits
<1>13. CASE SessionsRefreshed
  BY <1>3, <1>13, "sessions" \in Tasks DEF SessionsRefreshed, Tasks
<1>14. CASE SpeedTestAsked
  BY <1>3, <1>14, "speedtest" \in Tasks DEF SpeedTestAsked, Tasks
<1> QED BY <1>4, <1>5, <1>6, <1>8, <1>9, <1>10, <1>11, <1>12, <1>13, <1>14, Zenon
        DEF Next, BackendStep, AppTick, Read

(* The coroutines' requests implement RequestReply: each goes on with the  *)
(* answer to its own request, or with none (_send_and_wait, _read_loop).   *)
THEOREM Refinement == Spec => ImplementsRequestReply
<1>1. Init => Abstract!Init
  BY DEF Init, Abstract!Init, Exchange, NoCall, Abstract!Idle
<1>2. IInv /\ [Next]_vars => Abstract!Next
  BY StepMoves, MovesMap
<1> QED BY <1>1, <1>2, Invariance, PTL
        DEF Spec, ImplementsRequestReply, Abstract!Spec

-----------------------------------------------------------------------------
(* The login history.                                                      *)

(* Behind its p-th line a wire brings the logins after the n-th, in order  *)
(* and leaving none out before the last that it brings.                    *)
InLine(wire, p, n) ==
    \A i \in DOMAIN wire : i > p /\ wire[i].kind = "login_event" =>
        /\ wire[i].row > n
        /\ \A r \in n + 1 .. wire[i].row - 1 :
              \E j \in p + 1 .. i - 1 : wire[j] = LoginEvent(r)
        /\ \A j \in p + 1 .. i - 1 :
              wire[j].kind = "login_event" => wire[j].row < wire[i].row

(* It brings those up to the m-th.                                         *)
Brings(wire, p, n, m) ==
    \A r \in n + 1 .. m : \E i \in DOMAIN wire : i > p /\ wire[i] = LoginEvent(r)

(* A history of n logins is continued by what is behind the p-th line.     *)
Continues(wire, d, p, n) ==
    /\ n <= d.pushed
    /\ InLine(wire, p, n)
    /\ d.client = "subscribed" => Brings(wire, p, n, d.pushed)

(* Lines are what their kind says.                                         *)
LEMMA LoginLines ==
  /\ \A m \in Line : m.kind = "login_event" => m.row \in Nat /\ m = LoginEvent(m.row)
  /\ \A r : LoginEvent(r).kind = "login_event" /\ LoginEvent(r).row = r
<1>1. ASSUME NEW m \in Line, m.kind = "login_event"
      PROVE  m.row \in Nat /\ m = LoginEvent(m.row)
  <2>1. PICK n \in 1 .. MaxLogins : m = LoginEvent(n)
    BY <1>1 DEF Line, Eof, SpeedtestResult
  <2>2. n \in Nat /\ LoginEvent(n).row = n
    BY LimitAssumption DEF LoginEvent
  <2> QED BY <2>1, <2>2
<1>2. \A r : LoginEvent(r).kind = "login_event" /\ LoginEvent(r).row = r
  BY DEF LoginEvent
<1> QED BY <1>1, <1>2

(* A line more, or one less, by index.                                     *)
LEMMA WireIndex ==
  ASSUME NEW w \in Seq(Line)
  PROVE  /\ Len(w) \in Nat /\ DOMAIN w = 1 .. Len(w)
         /\ \A i \in 1 .. Len(w) : w[i] \in Line
         /\ \A x \in Line : /\ Append(w, x) \in Seq(Line)
                            /\ DOMAIN Append(w, x) = 1 .. Len(w) + 1
                            /\ \A i \in 1 .. Len(w) : Append(w, x)[i] = w[i]
                            /\ Append(w, x)[Len(w) + 1] = x
         /\ w # <<>> => /\ 1 \in 1 .. Len(w) /\ Head(w) = w[1]
                        /\ DOMAIN Tail(w) = 1 .. Len(w) - 1
                        /\ \A i \in 1 .. Len(w) - 1 : Tail(w)[i] = w[i + 1]
<1>1. /\ Len(w) \in Nat /\ DOMAIN w = 1 .. Len(w)
      /\ \A i \in 1 .. Len(w) : w[i] \in Line
  OBVIOUS
<1>2. ASSUME NEW x \in Line
      PROVE  /\ Append(w, x) \in Seq(Line)
             /\ DOMAIN Append(w, x) = 1 .. Len(w) + 1
             /\ \A i \in 1 .. Len(w) : Append(w, x)[i] = w[i]
             /\ Append(w, x)[Len(w) + 1] = x
  <2>1. /\ Append(w, x) \in Seq(Line) /\ Len(Append(w, x)) = Len(w) + 1
        /\ \A i \in 1 .. Len(w) : Append(w, x)[i] = w[i]
        /\ Append(w, x)[Len(w) + 1] = x
    BY AppendProperties
  <2> DEFINE v == Append(w, x)
  <2> HIDE DEF v
  <2>2. v \in Seq(Line) /\ Len(v) = Len(w) + 1 => DOMAIN v = 1 .. Len(w) + 1
    OBVIOUS
  <2> QED BY <2>1, <2>2 DEF v
<1>3. ASSUME w # <<>>
      PROVE  /\ 1 \in 1 .. Len(w) /\ Head(w) = w[1]
             /\ DOMAIN Tail(w) = 1 .. Len(w) - 1
             /\ \A i \in 1 .. Len(w) - 1 : Tail(w)[i] = w[i + 1]
  BY <1>3
<1> QED BY <1>1, <1>2, <1>3

(* A login that is next in line, or another line, is written.              *)
LEMMA InLineAppended ==
  ASSUME NEW w \in Seq(Line), NEW x \in Line, NEW p \in Nat, NEW n \in Nat, NEW m \in Nat,
         InLine(w, p, n),
         x.kind = "login_event" =>
            /\ x = LoginEvent(m + 1) /\ n <= m /\ Brings(w, p, n, m)
            /\ \A l \in Lines(w) : l.kind = "login_event" => l.row <= m
  PROVE  InLine(Append(w, x), p, n)
<1> DEFINE v == Append(w, x)
<1>1. /\ Len(w) \in Nat /\ DOMAIN w = 1 .. Len(w)
      /\ \A i \in 1 .. Len(w) : w[i] \in Line
      /\ DOMAIN v = 1 .. Len(w) + 1
      /\ \A i \in 1 .. Len(w) : v[i] = w[i]
      /\ v[Len(w) + 1] = x
  BY WireIndex
<1> HIDE DEF v
<1>2. ASSUME NEW i \in DOMAIN v, i > p, v[i].kind = "login_event"
      PROVE  /\ v[i].row > n
             /\ \A r \in n + 1 .. v[i].row - 1 :
                   \E j \in p + 1 .. i - 1 : v[j] = LoginEvent(r)
             /\ \A j \in p + 1 .. i - 1 :
                   v[j].kind = "login_event" => v[j].row < v[i].row
  <2>1. \A j \in p + 1 .. i - 1 : j \in 1 .. Len(w) /\ v[j] = w[j]
    BY <1>1
  <2>2. CASE i \in 1 .. Len(w)
    <3>1. v[i] = w[i] /\ i \in DOMAIN w
      BY <1>1, <2>2
    <3>2. /\ w[i].row > n
          /\ \A r \in n + 1 .. w[i].row - 1 :
                \E j \in p + 1 .. i - 1 : w[j] = LoginEvent(r)
          /\ \A j \in p + 1 .. i - 1 :
                w[j].kind = "login_event" => w[j].row < w[i].row
      BY <1>2, <3>1 DEF InLine
    <3> QED BY <2>1, <3>1, <3>2
  <2>3. CASE i = Len(w) + 1
    <3>1. /\ v[i].row = m + 1 /\ n <= m /\ Brings(w, p, n, m)
          /\ \A l \in Lines(w) : l.kind = "login_event" => l.row <= m
      BY <1>1, <1>2, <2>3, LoginLines
    <3>2. ASSUME NEW r \in n + 1 .. m
          PROVE  \E j \in p + 1 .. i - 1 : v[j] = LoginEvent(r)
      <4>1. PICK j \in DOMAIN w : j > p /\ w[j] = LoginEvent(r)
        BY <3>1 DEF Brings
      <4>2. j \in p + 1 .. i - 1
        BY <1>1, <2>3, <4>1
      <4> QED BY <2>1, <4>1, <4>2
    <3>3. ASSUME NEW j \in p + 1 .. i - 1, v[j].kind = "login_event"
          PROVE  v[j].row < m + 1
      <4>1. v[j] = w[j] /\ j \in DOMAIN w /\ w[j] \in Line
        BY <1>1, <2>1
      <4>2. w[j].row \in Nat /\ w[j].row <= m
        BY <3>1, <3>3, <4>1, LoginLines DEF Lines
      <4> QED BY <4>1, <4>2
    <3>4. m + 1 > n /\ (m + 1) - 1 = m
      BY <3>1
    <3> QED BY <3>1, <3>2, <3>3, <3>4
  <2> QED BY <1>1, <2>2, <2>3
<1> QED BY <1>2 DEF InLine, v

LEMMA BringsAppended ==
  ASSUME NEW w \in Seq(Line), NEW x \in Line, NEW p \in Nat, NEW n \in Nat, NEW m \in Nat,
         Brings(w, p, n, m)
  PROVE  /\ Brings(Append(w, x), p, n, m)
         /\ x = LoginEvent(m + 1) /\ p <= Len(w) => Brings(Append(w, x), p, n, m + 1)
<1> DEFINE v == Append(w, x)
<1>1. /\ Len(w) \in Nat /\ DOMAIN w = 1 .. Len(w)
      /\ DOMAIN v = 1 .. Len(w) + 1
      /\ \A i \in 1 .. Len(w) : v[i] = w[i]
      /\ v[Len(w) + 1] = x
  BY WireIndex
<1> HIDE DEF v
<1>2. ASSUME NEW r \in n + 1 .. m
      PROVE  \E i \in DOMAIN v : i > p /\ v[i] = LoginEvent(r)
  <2>1. PICK i \in DOMAIN w : i > p /\ w[i] = LoginEvent(r)
    BY DEF Brings
  <2>2. i \in DOMAIN v /\ v[i] = w[i]
    BY <1>1
  <2> QED BY <2>1, <2>2
<1>3. ASSUME x = LoginEvent(m + 1), p <= Len(w), NEW r \in n + 1 .. m + 1
      PROVE  \E i \in DOMAIN v : i > p /\ v[i] = LoginEvent(r)
  <2>1. CASE r = m + 1
    <3>1. Len(w) + 1 \in DOMAIN v /\ Len(w) + 1 > p
      BY <1>1, <1>3
    <3> QED BY <1>1, <1>3, <2>1, <3>1
  <2>2. CASE r # m + 1
    <3>1. r \in n + 1 .. m
      BY <2>2
    <3> QED BY <1>2, <3>1
  <2> QED BY <2>1, <2>2
<1> QED BY <1>2, <1>3 DEF Brings, v

(* The first line is read: behind the others everything is one line        *)
(* further in front.                                                       *)
LEMMA FirstRead ==
  ASSUME NEW w \in Seq(Line), w # <<>>, NEW p \in Nat \ {0}, NEW n \in Nat, NEW m \in Nat
  PROVE  /\ InLine(w, p, n) => InLine(Tail(w), p - 1, n)
         /\ Brings(w, p, n, m) => Brings(Tail(w), p - 1, n, m)
<1> DEFINE v == Tail(w)
<1>1. /\ Len(w) \in Nat /\ DOMAIN w = 1 .. Len(w)
      /\ DOMAIN v = 1 .. Len(w) - 1
      /\ \A i \in 1 .. Len(w) - 1 : v[i] = w[i + 1]
  BY WireIndex
<1> HIDE DEF v
<1>2. ASSUME InLine(w, p, n), NEW i \in DOMAIN v, i > p - 1, v[i].kind = "login_event"
      PROVE  /\ v[i].row > n
             /\ \A r \in n + 1 .. v[i].row - 1 :
                   \E j \in (p - 1) + 1 .. i - 1 : v[j] = LoginEvent(r)
             /\ \A j \in (p - 1) + 1 .. i - 1 :
                   v[j].kind = "login_event" => v[j].row < v[i].row
  <2>1. i + 1 \in DOMAIN w /\ i + 1 > p /\ v[i] = w[i + 1] /\ (p - 1) + 1 = p
        /\ (i + 1) - 1 = i
    BY <1>1, <1>2
  <2>2. /\ w[i + 1].row > n
        /\ \A r \in n + 1 .. w[i + 1].row - 1 :
              \E j \in p + 1 .. (i + 1) - 1 : w[j] = LoginEvent(r)
        /\ \A j \in p + 1 .. (i + 1) - 1 :
              w[j].kind = "login_event" => w[j].row < w[i + 1].row
    BY <1>2, <2>1 DEF InLine
  <2>3. ASSUME NEW r \in n + 1 .. v[i].row - 1
        PROVE  \E j \in (p - 1) + 1 .. i - 1 : v[j] = LoginEvent(r)
    <3>1. PICK j \in p + 1 .. i : w[j] = LoginEvent(r)
      BY <2>1, <2>2
    <3>2. /\ j - 1 \in p .. i - 1 /\ j - 1 \in 1 .. Len(w) - 1 /\ (j - 1) + 1 = j
      BY <1>1, <1>2
    <3>3. v[j - 1] = LoginEvent(r)
      BY <1>1, <3>1, <3>2
    <3> QED BY <2>1, <3>2, <3>3
  <2>4. ASSUME NEW j \in (p - 1) + 1 .. i - 1, v[j].kind = "login_event"
        PROVE  v[j].row < v[i].row
    <3>1. j + 1 \in p + 1 .. i /\ j \in 1 .. Len(w) - 1
      BY <1>1, <1>2, <2>1
    <3>2. v[j] = w[j + 1]
      BY <1>1, <3>1
    <3> QED BY <2>1, <2>2, <2>4, <3>1, <3>2
  <2> QED BY <2>1, <2>2, <2>3, <2>4
<1>3. ASSUME Brings(w, p, n, m), NEW r \in n + 1 .. m
      PROVE  \E i \in DOMAIN v : i > p - 1 /\ v[i] = LoginEvent(r)
  <2>1. PICK i \in DOMAIN w : i > p /\ w[i] = LoginEvent(r)
    BY <1>3 DEF Brings
  <2>2. i - 1 \in 1 .. Len(w) - 1 /\ i - 1 > p - 1 /\ (i - 1) + 1 = i
    BY <1>1, <2>1
  <2> QED BY <1>1, <2>1, <2>2
<1> QED BY <1>2, <1>3 DEF InLine, Brings, v

(* It is no login: what is behind it comes first.                          *)
LEMMA OtherRead ==
  ASSUME NEW w \in Seq(Line), w # <<>>, Head(w).kind # "login_event",
         NEW n \in Nat, NEW m \in Nat
  PROVE  /\ InLine(w, 0, n) => InLine(Tail(w), 0, n)
         /\ Brings(w, 0, n, m) => Brings(Tail(w), 0, n, m)
<1>1. /\ Len(w) \in Nat /\ DOMAIN w = 1 .. Len(w) /\ w[1].kind # "login_event"
      /\ \A r : w[1] # LoginEvent(r)
  BY WireIndex, LoginLines
<1>2. ASSUME InLine(w, 0, n) PROVE InLine(w, 1, n)
  <2> SUFFICES ASSUME NEW i \in DOMAIN w, i > 1, w[i].kind = "login_event"
               PROVE  /\ w[i].row > n
                      /\ \A r \in n + 1 .. w[i].row - 1 :
                            \E j \in 1 + 1 .. i - 1 : w[j] = LoginEvent(r)
                      /\ \A j \in 1 + 1 .. i - 1 :
                            w[j].kind = "login_event" => w[j].row < w[i].row
    BY DEF InLine
  <2>1. i > 0 /\ 0 + 1 = 1 /\ i \in Nat
    BY <1>1
  <2>2. /\ w[i].row > n
        /\ \A r \in n + 1 .. w[i].row - 1 :
              \E j \in 1 .. i - 1 : w[j] = LoginEvent(r)
        /\ \A j \in 1 .. i - 1 :
              w[j].kind = "login_event" => w[j].row < w[i].row
    BY <1>2, <2>1 DEF InLine
  <2>3. \A j \in 1 .. i - 1 : j = 1 \/ j \in 1 + 1 .. i - 1
    BY <2>1
  <2>4. \A j \in 1 + 1 .. i - 1 : j \in 1 .. i - 1
    BY <2>1
  <2> QED BY <1>1, <2>2, <2>3, <2>4
<1>3. ASSUME Brings(w, 0, n, m) PROVE Brings(w, 1, n, m)
  <2> SUFFICES ASSUME NEW r \in n + 1 .. m
               PROVE  \E i \in DOMAIN w : i > 1 /\ w[i] = LoginEvent(r)
    BY DEF Brings
  <2>1. PICK i \in DOMAIN w : i > 0 /\ w[i] = LoginEvent(r)
    BY <1>3 DEF Brings
  <2>2. i # 1
    BY <1>1, <2>1
  <2>3. i > 1
    BY <1>1, <2>1, <2>2
  <2> QED BY <2>1, <2>3
<1>4. 1 \in Nat \ {0} /\ 1 - 1 = 0
  OBVIOUS
<1> QED BY <1>2, <1>3, <1>4, FirstRead

(* It is a login: the next.                                                *)
LEMMA LoginRead ==
  ASSUME NEW w \in Seq(Line), w # <<>>, Head(w).kind = "login_event",
         NEW n \in Nat, NEW m \in Nat, InLine(w, 0, n)
  PROVE  /\ Head(w) = LoginEvent(n + 1)
         /\ InLine(Tail(w), 0, n + 1)
         /\ Brings(w, 0, n, m) => Brings(Tail(w), 0, n + 1, m)
<1>1. /\ Len(w) \in Nat /\ DOMAIN w = 1 .. Len(w) /\ 1 \in DOMAIN w
      /\ Head(w) = w[1] /\ w[1] \in Line
  BY WireIndex
<1>2. w[1].row \in Nat /\ w[1] = LoginEvent(w[1].row)
  BY <1>1, LoginLines
<1>3. /\ w[1].row > n
      /\ \A r \in n + 1 .. w[1].row - 1 :
            \E j \in 0 + 1 .. 1 - 1 : w[j] = LoginEvent(r)
  BY <1>1 DEF InLine
<1>4. w[1].row = n + 1
  <2>1. ~(n + 1 \in n + 1 .. w[1].row - 1)
    BY <1>3
  <2> QED BY <1>2, <1>3, <2>1
<1>5. w[1] = LoginEvent(n + 1)
  BY <1>2, <1>4
<1>6. InLine(w, 1, n + 1)
  <2> SUFFICES ASSUME NEW i \in DOMAIN w, i > 1, w[i].kind = "login_event"
               PROVE  /\ w[i].row > n + 1
                      /\ \A r \in (n + 1) + 1 .. w[i].row - 1 :
                            \E j \in 1 + 1 .. i - 1 : w[j] = LoginEvent(r)
                      /\ \A j \in 1 + 1 .. i - 1 :
                            w[j].kind = "login_event" => w[j].row < w[i].row
    BY DEF InLine
  <2>1. i > 0 /\ 0 + 1 = 1 /\ i \in Nat
    BY <1>1
  <2>2. /\ \A r \in n + 1 .. w[i].row - 1 :
              \E j \in 1 .. i - 1 : w[j] = LoginEvent(r)
        /\ \A j \in 1 .. i - 1 :
              w[j].kind = "login_event" => w[j].row < w[i].row
    BY <2>1 DEF InLine
  <2>3. w[i].row > n + 1
    <3>1. 1 \in 1 .. i - 1
      BY <2>1
    <3> QED BY <1>1, <1>4, <2>2, <3>1
  <2>4. \A j \in 1 + 1 .. i - 1 : j \in 1 .. i - 1
    BY <2>1
  <2>5. ASSUME NEW r \in (n + 1) + 1 .. w[i].row - 1
        PROVE  \E j \in 1 + 1 .. i - 1 : w[j] = LoginEvent(r)
    <3>1. w[i] \in Line /\ w[i].row \in Nat
      BY <1>1, WireIndex, LoginLines
    <3>2. r \in n + 1 .. w[i].row - 1 /\ r # n + 1
      BY <3>1
    <3>3. PICK j \in 1 .. i - 1 : w[j] = LoginEvent(r)
      BY <2>2, <3>2
    <3>4. j # 1
      BY <1>4, <3>2, <3>3, LoginLines
    <3>5. j \in 1 + 1 .. i - 1
      BY <2>1, <3>4
    <3> QED BY <3>3, <3>5
  <2> QED BY <2>2, <2>3, <2>4, <2>5
<1>7. ASSUME Brings(w, 0, n, m) PROVE Brings(w, 1, n + 1, m)
  <2> SUFFICES ASSUME NEW r \in (n + 1) + 1 .. m
               PROVE  \E i \in DOMAIN w : i > 1 /\ w[i] = LoginEvent(r)
    BY DEF Brings
  <2>1. r \in n + 1 .. m /\ r # n + 1
    OBVIOUS
  <2>2. PICK i \in DOMAIN w : i > 0 /\ w[i] = LoginEvent(r)
    BY <1>7, <2>1 DEF Brings
  <2>3. i # 1
    BY <1>4, <2>1, <2>2, LoginLines
  <2>4. i > 1
    BY <1>1, <2>2, <2>3
  <2> QED BY <2>2, <2>4
<1>8. 1 \in Nat \ {0} /\ 1 - 1 = 0 /\ n + 1 \in Nat
  OBVIOUS
<1> QED BY <1>1, <1>5, <1>6, <1>7, <1>8, FirstRead

(* The wire is cut off.                                                    *)
LEMMA InLineCut ==
  ASSUME NEW w \in Seq(Line), NEW k \in 0 .. Len(w), NEW p \in Nat, NEW n \in Nat,
         InLine(w, p, n)
  PROVE  InLine(SubSeq(w, 1, k), p, n)
<1> DEFINE v == SubSeq(w, 1, k)
<1>1. /\ DOMAIN v = 1 .. k /\ DOMAIN w = 1 .. Len(w)
      /\ \A i \in 1 .. k : i \in DOMAIN w /\ v[i] = w[i]
  OBVIOUS
<1> HIDE DEF v
<1>2. \A i \in 1 .. k : \A j \in p + 1 .. i - 1 : j \in 1 .. k
  OBVIOUS
<1>3. InLine(v, p, n)
  <2> SUFFICES ASSUME NEW i \in 1 .. k, i > p, v[i].kind = "login_event"
               PROVE  /\ v[i].row > n
                      /\ \A r \in n + 1 .. v[i].row - 1 :
                            \E j \in p + 1 .. i - 1 : v[j] = LoginEvent(r)
                      /\ \A j \in p + 1 .. i - 1 :
                            v[j].kind = "login_event" => v[j].row < v[i].row
    BY <1>1 DEF InLine
  <2>1. v[i] = w[i] /\ i \in DOMAIN w
    BY <1>1
  <2>2. \A j \in p + 1 .. i - 1 : v[j] = w[j]
    BY <1>1, <1>2
  <2>3. /\ w[i].row > n
        /\ \A r \in n + 1 .. w[i].row - 1 :
              \E j \in p + 1 .. i - 1 : w[j] = LoginEvent(r)
        /\ \A j \in p + 1 .. i - 1 :
              w[j].kind = "login_event" => w[j].row < w[i].row
    BY <2>1 DEF InLine
  <2> QED BY <2>1, <2>2, <2>3
<1> QED BY <1>3 DEF v

(* A login put in front of the newest of the others.                       *)
LEMMA NewestExtended ==
  ASSUME NEW n \in Nat, history = Newest(n)
  PROVE  WithLogin(n + 1) = Newest(n + 1)
<1> DEFINE L == HistoryLimit
           h == Newest(n)
<1>1. L \in Nat /\ L >= 1
  BY LimitAssumption
<1>2. /\ Atmost(n, L) \in Nat /\ Atmost(n, L) <= n /\ Atmost(n, L) <= L
      /\ Atmost(n + 1, L) = Atmost(Atmost(n, L) + 1, L)
      /\ Atmost(n + 1, L) \in Nat /\ Atmost(n + 1, L) <= Atmost(n, L) + 1
      /\ 1 <= Atmost(n + 1, L)
  BY <1>1 DEF Atmost
<1> DEFINE a == Atmost(n, L)
           b == Atmost(n + 1, L)
<1>3. /\ h \in Seq(Nat) /\ Len(h) = a /\ \A i \in 1 .. a : h[i] = n + 1 - i
  <2>1. h = [i \in 1 .. a |-> n + 1 - i]
    BY DEF Newest
  <2>2. \A i \in 1 .. a : n + 1 - i \in Nat
    BY <1>2
  <2>3. h \in [1 .. a -> Nat]
    BY <2>1, <2>2
  <2>4. h \in Seq(Nat)
    BY <1>2, <2>3, SeqOfFunction
  <2> HIDE DEF h, a
  <2>5. Len(h) = a
    BY <1>2, <2>1, <2>4 DEF a
  <2> QED BY <2>1, <2>4, <2>5
<1> HIDE DEF h, a, b, L
<1> DEFINE c == <<n + 1>> \o h
<1>4. /\ c \in Seq(Nat) /\ Len(c) = a + 1 /\ c[1] = n + 1
      /\ \A i \in 1 .. a : c[1 + i] = h[i]
  <2>1. <<n + 1>> \in Seq(Nat) /\ Len(<<n + 1>>) = 1 /\ <<n + 1>>[1] = n + 1
    OBVIOUS
  <2>2. /\ c \in Seq(Nat) /\ Len(c) = Len(<<n + 1>>) + Len(h)
        /\ \A i \in 1 .. Len(<<n + 1>>) : c[i] = <<n + 1>>[i]
        /\ \A i \in 1 .. Len(h) : c[Len(<<n + 1>>) + i] = h[i]
    BY <1>3, <2>1, ConcatProperties
  <2>3. a \in Nat
    BY <1>2 DEF a, L
  <2> HIDE DEF c
  <2> QED BY <1>3, <2>1, <2>2, <2>3
<1> HIDE DEF c
<1>5. /\ a \in Nat /\ a <= n /\ b \in Nat /\ b <= a + 1 /\ b = Atmost(a + 1, L)
  BY <1>2 DEF a, b, L
<1>6. WithLogin(n + 1) = SubSeq(c, 1, b)
  BY <1>3, <1>5 DEF WithLogin, c, h, L
<1> DEFINE s == SubSeq(c, 1, b)
<1>7. s \in Seq(Nat) /\ Len(s) = b /\ \A i \in 1 .. b : s[i] = c[i]
  <2>1. b \in 0 .. Len(c)
    BY <1>4, <1>5
  <2> QED BY <1>4, <2>1
<1> HIDE DEF s
<1>8. \A i \in 1 .. b : s[i] = (n + 1) + 1 - i
  <2> SUFFICES ASSUME NEW i \in 1 .. b
               PROVE  s[i] = (n + 1) + 1 - i
    OBVIOUS
  <2>1. CASE i = 1
    BY <1>4, <1>7, <2>1
  <2>2. CASE i # 1
    <3>1. i - 1 \in 1 .. a /\ 1 + (i - 1) = i
      BY <1>5, <2>2
    <3>2. c[i] = h[i - 1] /\ h[i - 1] = n + 1 - (i - 1)
      BY <1>3, <1>4, <3>1
    <3> QED BY <1>7, <3>2
  <2> QED BY <2>1, <2>2
<1>9. Newest(n + 1) = [i \in 1 .. b |-> (n + 1) + 1 - i]
  BY DEF Newest, b, L
<1>10. s = [i \in 1 .. b |-> s[i]]
  <2>1. DOMAIN s = 1 .. b
    BY <1>7
  <2> QED BY <1>7, <2>1
<1> QED BY <1>6, <1>8, <1>9, <1>10 DEF s

-----------------------------------------------------------------------------
(* What the three writers and the reader of the two wires leave true of    *)
(* them.  q and w are the wires, d is the daemon, load the load's call and *)
(* s its step.                                                             *)

HistoryAnswer(m) == m.kind = "answer" /\ m.cmd = "get_login_history" /\ m.ok

(* The load has its history's answer and has not applied it. *)
HistoryInHand(load) == load.st = "answered" /\ load.cmd = "get_login_history"

(* Nothing is left on a closed connection, the load waits for the request  *)
(* in hand, the history is not asked for before its step and the           *)
(* subscription, asked for first, is answered once and before the load     *)
(* goes on.                                                                *)
Linked(q, w, d, load, c, s) ==
    /\ c = "down" => w = <<>> /\ q = <<>> /\ d.client = "none"
    /\ load.st \in {"waiting", "answered"} => load.cmd = LoadSteps[s]
    /\ \A r \in Lines(q) : r.cmd = "get_login_history" => s >= 3
    /\ \A m \in Lines(w) : m.kind = "answer" /\ m.cmd = "get_login_history" => s >= 3
    /\ \A r \in Lines(q) : r.cmd = "subscribe" =>
          /\ s = 1 /\ load.st # "answered"
          /\ \A m \in Lines(w) : ~(m.kind = "answer" /\ m.cmd = "subscribe")
    /\ \A i \in DOMAIN q : q[i].cmd = "subscribe" => i = 1

(* No login is pushed that is not stored, none is on its way that was not  *)
(* pushed.                                                                 *)
Pushed(w, d) ==
    /\ d.pushed <= d.rows
    /\ \A m \in Lines(w) : m.kind = "login_event" => m.row <= d.pushed

(* The history, wherever it has come to, is continued by what follows.     *)
Shown(w, d, load, h, s) ==
    /\ \A p \in DOMAIN w : HistoryAnswer(w[p]) => Continues(w, d, p, w[p].data)
    /\ HistoryInHand(load) => Continues(w, d, 0, load.data)
    /\ s > 3 => \E n \in 0 .. MaxLogins : h = Newest(n) /\ Continues(w, d, 0, n)

HistoryInv ==
    /\ Linked(toDaemon, toClient, daemon, calls["load"], conn, step)
    /\ Pushed(toClient, daemon)
    /\ ~raced => Shown(toClient, daemon, calls["load"], history, step)

LEMMA HistoryPrimed ==
  ASSUME Linked(toDaemon', toClient', daemon', calls'["load"], conn', step'),
         Pushed(toClient', daemon'),
         ~raced' => Shown(toClient', daemon', calls'["load"], history', step')
  PROVE  HistoryInv'
<1>1. Linked(toDaemon, toClient, daemon, calls["load"], conn, step)'
  BY DEF Linked, Lines
<1>2. Pushed(toClient, daemon)'
  BY DEF Pushed, Lines
<1>3. ~raced' => Shown(toClient, daemon, calls["load"], history, step)'
  BY DEF Shown, HistoryAnswer, HistoryInHand, Continues, InLine, Brings, Newest
<1> QED BY <1>1, <1>2, <1>3 DEF HistoryInv

-----------------------------------------------------------------------------
(* A wire that stays, or gets another line than a login.                   *)
LEMMA ContinuesKept ==
  ASSUME NEW w \in Seq(Line), NEW d \in DaemonRecord, NEW d2 \in DaemonRecord,
         d2.pushed >= d.pushed,
         d2.client = "subscribed" => d.client = "subscribed" /\ d2.pushed = d.pushed,
         NEW p \in Nat, NEW n \in Nat, Continues(w, d, p, n)
  PROVE  /\ Continues(w, d2, p, n)
         /\ \A x \in Line : x.kind # "login_event" => Continues(Append(w, x), d2, p, n)
<1>1. d.pushed \in Nat /\ d2.pushed \in Nat
  BY LimitAssumption DEF DaemonRecord
<1>2. n <= d2.pushed /\ InLine(w, p, n)
  BY <1>1 DEF Continues
<1>3. d2.client = "subscribed" => Brings(w, p, n, d2.pushed)
  BY DEF Continues
<1>4. ASSUME NEW x \in Line, x.kind # "login_event"
      PROVE  Continues(Append(w, x), d2, p, n)
  <2>1. InLine(Append(w, x), p, n)
    BY <1>1, <1>2, <1>4, InLineAppended
  <2>2. d2.client = "subscribed" => Brings(Append(w, x), p, n, d2.pushed)
    BY <1>1, <1>3, BringsAppended
  <2> QED BY <1>2, <2>1, <2>2, Zenon DEF Continues
<1> QED BY <1>2, <1>3, <1>4, Zenon DEF Continues

(* A subscriber gets a login.                                              *)
LEMMA ContinuesPushed ==
  ASSUME NEW w \in Seq(Line), NEW d \in DaemonRecord, NEW d2 \in DaemonRecord,
         d.client = "subscribed", d2.pushed = d.pushed + 1, Pushed(w, d),
         LoginEvent(d.pushed + 1) \in Line,
         NEW p \in 0 .. Len(w), NEW n \in Nat, Continues(w, d, p, n)
  PROVE  Continues(Append(w, LoginEvent(d.pushed + 1)), d2, p, n)
<1> DEFINE x == LoginEvent(d.pushed + 1)
<1>1. d.pushed \in Nat /\ Len(w) \in Nat /\ p \in Nat /\ p <= Len(w)
  BY LimitAssumption DEF DaemonRecord
<1>2. n <= d.pushed /\ InLine(w, p, n) /\ Brings(w, p, n, d.pushed)
  BY DEF Continues
<1>3. \A l \in Lines(w) : l.kind = "login_event" => l.row <= d.pushed
  BY DEF Pushed
<1> HIDE DEF x
<1>4. InLine(Append(w, x), p, n)
  BY <1>1, <1>2, <1>3, InLineAppended DEF x
<1>5. Brings(Append(w, x), p, n, d.pushed + 1)
  BY <1>1, <1>2, BringsAppended DEF x
<1>6. n <= d2.pushed
  BY <1>1, <1>2
<1> QED BY <1>4, <1>5, <1>6 DEF Continues, x

(* The daemon dies.                                                        *)
LEMMA ContinuesCut ==
  ASSUME NEW w \in Seq(Line), NEW k \in 0 .. Len(w),
         NEW d \in DaemonRecord, NEW d2 \in DaemonRecord,
         d2.pushed >= d.pushed, d2.client # "subscribed",
         NEW p \in Nat, NEW n \in Nat, Continues(w, d, p, n)
  PROVE  Continues(Append(SubSeq(w, 1, k), Eof), d2, p, n)
<1> DEFINE v == SubSeq(w, 1, k)
<1>1. d.pushed \in Nat /\ d2.pushed \in Nat
  BY LimitAssumption DEF DaemonRecord
<1>2. n <= d2.pushed
  BY <1>1 DEF Continues
<1>3. v \in Seq(Line) /\ InLine(v, p, n)
  BY InLineCut, CutOff DEF Continues
<1>4. Eof \in Line /\ Eof.kind # "login_event"
  BY WrittenLines DEF Eof
<1> HIDE DEF v
<1>5. InLine(Append(v, Eof), p, n)
  BY <1>1, <1>3, <1>4, InLineAppended
<1> QED BY <1>2, <1>5 DEF Continues, v

-----------------------------------------------------------------------------
(* What is shown stays right when nothing happens to it but that more is   *)
(* written behind.                                                         *)
LEMMA ShownKept ==
  ASSUME NEW w \in Seq(Line), NEW d, NEW load \in Call, NEW h, NEW s \in Nat,
         NEW w2 \in Seq(Line), NEW d2, NEW load2, NEW s2 \in Nat,
         Shown(w, d, load, h, s),
         s2 > 3 => s > 3,
         HistoryInHand(load2) => load2 = load,
         \A p \in 0 .. Len(w), n \in 0 .. MaxLogins :
            Continues(w, d, p, n) => Continues(w2, d2, p, n),
         \A p \in DOMAIN w2 : HistoryAnswer(w2[p]) =>
            \/ p \in DOMAIN w /\ w2[p] = w[p]
            \/ Continues(w2, d2, p, w2[p].data)
  PROVE  Shown(w2, d2, load2, h, s2)
<1>1. Len(w) \in Nat /\ DOMAIN w = 1 .. Len(w) /\ \A p \in DOMAIN w : w[p] \in Line
  BY WireIndex
<1>2. 0 \in 0 .. Len(w) /\ \A p \in DOMAIN w : p \in 0 .. Len(w)
  BY <1>1
<1>3. ASSUME NEW p \in DOMAIN w2, HistoryAnswer(w2[p])
      PROVE  Continues(w2, d2, p, w2[p].data)
  <2>1. CASE p \in DOMAIN w /\ w2[p] = w[p]
    <3>1. w[p].data \in 0 .. MaxLogins
      BY <1>1, <1>3, <2>1, ReadLines DEF HistoryAnswer
    <3>2. Continues(w, d, p, w[p].data)
      BY <1>3, <2>1 DEF Shown
    <3>3. p \in 0 .. Len(w)
      BY <1>2, <2>1
    <3> QED BY <2>1, <3>1, <3>2, <3>3
  <2> QED BY <1>3, <2>1
<1>4. ASSUME HistoryInHand(load2)
      PROVE  Continues(w2, d2, 0, load2.data)
  <2>1. load2 = load
    BY <1>4
  <2>2. load.data \in 0 .. MaxLogins
    BY <1>4, <2>1 DEF HistoryInHand, Call, NoCall, Failed
  <2> QED BY <1>2, <1>4, <2>1, <2>2 DEF Shown
<1>5. ASSUME s2 > 3
      PROVE  \E n \in 0 .. MaxLogins : h = Newest(n) /\ Continues(w2, d2, 0, n)
  BY <1>2, <1>5 DEF Shown
<1> QED BY <1>3, <1>4, <1>5 DEF Shown

(* The connection stays as it was linked.                                  *)
LEMMA LinkKept ==
  ASSUME NEW q, NEW w, NEW d, NEW load, NEW c, NEW s,
         NEW q2, NEW w2, NEW d2, NEW load2,
         Linked(q, w, d, load, c, s),
         c = "down" => w2 = <<>> /\ q2 = <<>> /\ d2.client = "none",
         load2 = load \/ ~(load2.st \in {"waiting", "answered"}),
         \A r \in Lines(q2) :
            r \in Lines(q) \/ ~(r.cmd \in {"subscribe", "get_login_history"}),
         \A m \in Lines(w2) :
            \/ m \in Lines(w) \/ m.kind # "answer"
            \/ \E r \in Lines(q) :
                  /\ r.cmd = m.cmd
                  /\ r.cmd = "subscribe" =>
                        \A r2 \in Lines(q2) : r2.cmd # "subscribe",
         \A i \in DOMAIN q2 : q2[i].cmd = "subscribe" => i = 1
  PROVE  Linked(q2, w2, d2, load2, c, s)
<1>1. load2.st \in {"waiting", "answered"} => load2.cmd = LoadSteps[s]
  BY DEF Linked
<1>2. \A r \in Lines(q2) : r.cmd = "get_login_history" => s >= 3
  BY DEF Linked
<1>3. \A m \in Lines(w2) : m.kind = "answer" /\ m.cmd = "get_login_history" => s >= 3
  BY DEF Linked
<1>4. ASSUME NEW r \in Lines(q2), r.cmd = "subscribe"
      PROVE  /\ s = 1 /\ load2.st # "answered"
             /\ \A m \in Lines(w2) : ~(m.kind = "answer" /\ m.cmd = "subscribe")
  <2>1. r \in Lines(q)
    BY <1>4
  <2>2. /\ s = 1 /\ load.st # "answered"
        /\ \A m \in Lines(w) : ~(m.kind = "answer" /\ m.cmd = "subscribe")
    BY <1>4, <2>1 DEF Linked
  <2>3. load2.st # "answered"
    BY <2>2
  <2>4. ASSUME NEW m \in Lines(w2), m.kind = "answer", m.cmd = "subscribe"
        PROVE  FALSE
    <3>1. m \in Lines(w)
      BY <1>4, <2>4
    <3> QED BY <2>2, <2>4, <3>1
  <2> QED BY <2>2, <2>3, <2>4
<1> QED BY <1>1, <1>2, <1>3, <1>4 DEF Linked

(* The requests: none, one less, one more that does not subscribe.         *)
LEMMA SubscribesFirst ==
  ASSUME NEW q \in Seq(Request), \A i \in DOMAIN q : q[i].cmd = "subscribe" => i = 1
  PROVE  /\ \A i \in DOMAIN <<>> : <<>>[i].cmd = "subscribe" => i = 1
         /\ q # <<>> => /\ \A i \in DOMAIN Tail(q) : Tail(q)[i].cmd # "subscribe"
                        /\ \A r \in Lines(Tail(q)) : r.cmd # "subscribe"
         /\ \A r \in Request : r.cmd # "subscribe" =>
               \A i \in DOMAIN Append(q, r) : Append(q, r)[i].cmd = "subscribe" => i = 1
<1>1. DOMAIN <<>> = {}
  OBVIOUS
<1>2. ASSUME q # <<>>
      PROVE  /\ \A i \in DOMAIN Tail(q) : Tail(q)[i].cmd # "subscribe"
             /\ \A r \in Lines(Tail(q)) : r.cmd # "subscribe"
  <2>1. /\ Len(q) \in Nat /\ DOMAIN q = 1 .. Len(q)
        /\ DOMAIN Tail(q) = 1 .. Len(q) - 1
        /\ \A i \in 1 .. Len(q) - 1 : Tail(q)[i] = q[i + 1]
    BY <1>2
  <2>2. \A i \in 1 .. Len(q) - 1 : i + 1 \in 1 .. Len(q) /\ i + 1 # 1
    BY <2>1
  <2> DEFINE v == Tail(q)
  <2> HIDE DEF v
  <2>3. \A i \in DOMAIN v : v[i].cmd # "subscribe"
    BY <2>1, <2>2 DEF v
  <2>4. \A r \in Lines(v) : r.cmd # "subscribe"
    BY <2>3, Zenon DEF Lines
  <2> QED BY <2>3, <2>4 DEF v
<1>3. ASSUME NEW r \in Request, r.cmd # "subscribe", NEW i \in DOMAIN Append(q, r),
             Append(q, r)[i].cmd = "subscribe"
      PROVE  i = 1
  <2> DEFINE v == Append(q, r)
  <2>1. /\ Len(q) \in Nat /\ DOMAIN q = 1 .. Len(q)
        /\ DOMAIN v = 1 .. Len(q) + 1
        /\ \A j \in 1 .. Len(q) : v[j] = q[j]
        /\ v[Len(q) + 1] = r
    OBVIOUS
  <2>2. i \in DOMAIN v /\ v[i].cmd = "subscribe"
    BY <1>3
  <2> HIDE DEF v
  <2>3. i \in 1 .. Len(q) \/ i = Len(q) + 1
    BY <2>1, <2>2
  <2>4. i # Len(q) + 1
    BY <1>3, <2>1, <2>2
  <2> QED BY <2>1, <2>2, <2>3, <2>4
<1> QED BY <1>1, <1>2, <1>3

-----------------------------------------------------------------------------
(* The steps that leave alone what the client is sent and what it shows.   *)
Quiet ==
    \/ Login \/ ScheduledTest \/ DaemonStarts \/ TestResultLost
    \/ (Push \/ TestEnds) /\ daemon.client # "subscribed"
    \/ \E t \in Tasks : TimesOutEarly(t) \/ TimesOut(t)
    \/ Tick \/ IdleTick \/ SessionsRefreshed \/ StartSpeedTest \/ SpeedTestAsked
    \/ UNCHANGED vars

LEMMA QuietDaemon ==
  ASSUME TypeOK, Quiet
  PROVE  /\ UNCHANGED <<toClient, history, conn, step, raced>>
         /\ daemon'.client = daemon.client
         /\ daemon'.pushed >= daemon.pushed
         /\ daemon.client = "subscribed" => daemon'.pushed = daemon.pushed
         /\ daemon.pushed <= daemon.rows => daemon'.pushed <= daemon'.rows
<1>1. daemon \in DaemonRecord /\ daemon.pushed \in Nat /\ daemon.rows \in Nat
  BY DaemonIsRecord, LimitAssumption DEF DaemonRecord
<1>2. CASE Login
  BY <1>1, <1>2 DEF Login, DaemonRecord, wires, link, screen, notes
<1>3. CASE ScheduledTest
  BY <1>1, <1>3 DEF ScheduledTest, DaemonRecord, wires, link, screen, notes
<1>4. CASE DaemonStarts
  BY <1>1, <1>4 DEF DaemonStarts, DaemonRecord, wires, link, screen, notes
<1>5. CASE TestResultLost
  BY <1>1, <1>5 DEF TestResultLost, DaemonRecord, wires, link, screen
<1>6. CASE Push /\ daemon.client # "subscribed"
  BY <1>1, <1>6 DEF Push, Deliver, DaemonRecord, link, screen, notes
<1>7. CASE TestEnds /\ daemon.client # "subscribed"
  BY <1>1, <1>7 DEF TestEnds, Deliver, DaemonRecord, link, screen
<1>8. CASE \E t \in Tasks : TimesOutEarly(t) \/ TimesOut(t)
  BY <1>1, <1>8 DEF TimesOutEarly, TimesOut, TimeOut, wires, link, screen, notes
<1>9. CASE Tick
  BY <1>1, <1>9 DEF Tick, link, screen, notes
<1>10. CASE IdleTick \/ UNCHANGED vars
  BY <1>1, <1>10 DEF IdleTick, vars, backend, wires, link, screen, notes
<1>11. CASE SessionsRefreshed
  BY <1>1, <1>11 DEF SessionsRefreshed, wires, link, screen, notes
<1>12. CASE StartSpeedTest
  BY <1>1, <1>12 DEF StartSpeedTest, link
<1>13. CASE SpeedTestAsked
  BY <1>1, <1>13 DEF SpeedTestAsked, wires, link, notes
<1> QED BY <1>2, <1>3, <1>4, <1>5, <1>6, <1>7, <1>8, <1>9, <1>10, <1>11, <1>12,
           <1>13 DEF Quiet

LEMMA QuietClient ==
  ASSUME TypeOK, Quiet
  PROVE  /\ calls'["load"] \in {calls["load"], Failed}
         /\ \/ toDaemon' = toDaemon
            \/ /\ conn = "up"
               /\ \E r \in Request : /\ r.cmd \in {"get_snapshot", "run_speedtest"}
                                     /\ toDaemon' = Append(toDaemon, r)
<1>1. calls \in [Tasks -> Call]
      /\ "load" \in Tasks /\ "sessions" \in Tasks /\ "speedtest" \in Tasks
      /\ "load" # "sessions" /\ "load" # "speedtest"
  BY DEF TypeOK, Tasks
<1>2. ASSUME NEW t \in Tasks, t # "load", NEW cmd \in {"get_snapshot", "run_speedtest"},
             Ask(t, cmd)
      PROVE  /\ calls'["load"] = calls["load"]
             /\ \/ toDaemon' = toDaemon
                \/ /\ conn = "up"
                   /\ \E r \in Request : /\ r.cmd \in {"get_snapshot", "run_speedtest"}
                                         /\ toDaemon' = Append(toDaemon, r)
  <2>1. cmd \in Commands
    <3>1. LoadSteps[2] = "get_snapshot" /\ 2 \in DOMAIN LoadSteps
      BY DEF LoadSteps
    <3> QED BY <3>1 DEF Commands
  <2>2. calls'["load"] = calls["load"]
    BY <1>1, <1>2, <2>1, Asking
  <2> DEFINE r == [id |-> FreshId, cmd |-> cmd]
  <2>3. r \in Request /\ r.cmd = cmd
    BY <2>1, NobodyHasIt DEF Request
  <2>4. toDaemon' = toDaemon \/ (conn = "up" /\ toDaemon' = Append(toDaemon, r))
    BY <1>2, Zenon DEF Ask, Sent
  <2> HIDE DEF r
  <2> QED BY <2>2, <2>3, <2>4
<1>3. CASE Tick
  BY <1>1, <1>2, <1>3 DEF Tick
<1>4. CASE StartSpeedTest
  BY <1>1, <1>2, <1>4 DEF StartSpeedTest
<1>5. CASE SessionsRefreshed \/ SpeedTestAsked
  BY <1>1, <1>5 DEF SessionsRefreshed, SpeedTestAsked, wires
<1>6. CASE \E t \in Tasks : TimesOutEarly(t) \/ TimesOut(t)
  BY <1>1, <1>6 DEF TimesOutEarly, TimesOut, TimeOut, wires
<1>7. CASE \/ Login \/ ScheduledTest \/ DaemonStarts \/ TestResultLost \/ Push \/ TestEnds
           \/ IdleTick \/ UNCHANGED vars
  BY <1>7 DEF Login, ScheduledTest, DaemonStarts, TestResultLost, Push, TestEnds,
              IdleTick, vars, backend, wires
<1> QED BY <1>3, <1>4, <1>5, <1>6, <1>7 DEF Quiet

LEMMA QuietHistory ==
  ASSUME TypeOK, TypeOK', HistoryInv, Quiet
  PROVE  HistoryInv'
<1>1. /\ UNCHANGED <<toClient, history, conn, step, raced>>
      /\ daemon'.client = daemon.client
      /\ daemon'.pushed >= daemon.pushed
      /\ daemon.client = "subscribed" => daemon'.pushed = daemon.pushed
      /\ daemon.pushed <= daemon.rows => daemon'.pushed <= daemon'.rows
  BY QuietDaemon
<1>2. daemon \in DaemonRecord /\ daemon' \in DaemonRecord
  BY DaemonIsRecord DEF TypeOK, DaemonRecord
<1>3. /\ toClient \in Seq(Line) /\ toDaemon \in Seq(Request)
      /\ calls["load"] \in Call /\ step \in Nat
  BY SevenSteps DEF TypeOK, Tasks
<1>4. Linked(toDaemon', toClient', daemon', calls'["load"], conn', step')
  <2>1. Linked(toDaemon, toClient, daemon, calls["load"], conn, step)
    BY DEF HistoryInv
  <2>2. calls'["load"] = calls["load"] \/ ~(calls'["load"].st \in {"waiting", "answered"})
    BY QuietClient DEF Failed
  <2>3. \A i \in DOMAIN toDaemon : toDaemon[i].cmd = "subscribe" => i = 1
    BY <2>1 DEF Linked
  <2>4. conn = "down" => /\ toClient = <<>> /\ toDaemon = <<>>
                         /\ daemon.client = "none"
    BY <2>1 DEF Linked
  <2>5. CASE toDaemon' = toDaemon
    BY <1>1, <2>1, <2>2, <2>3, <2>4, <2>5, LinkKept
  <2>6. ASSUME conn = "up", NEW r \in Request,
               r.cmd \in {"get_snapshot", "run_speedtest"},
               toDaemon' = Append(toDaemon, r)
        PROVE  Linked(toDaemon', toClient', daemon', calls'["load"], conn', step')
    <3>1. Lines(Append(toDaemon, r)) = Lines(toDaemon) \cup {r}
      BY <1>3, Appended
    <3>2. r.cmd # "subscribe" /\ r.cmd # "get_login_history"
      BY <2>6
    <3>3. \A x \in Lines(toDaemon') :
             \/ x \in Lines(toDaemon)
             \/ ~(x.cmd \in {"subscribe", "get_login_history"})
      BY <2>6, <3>1, <3>2
    <3>4. \A i \in DOMAIN toDaemon' : toDaemon'[i].cmd = "subscribe" => i = 1
      BY <1>3, <2>3, <2>6, <3>2, SubscribesFirst
    <3>5. \A m \in Lines(toClient') : m \in Lines(toClient)
      BY <1>1
    <3>6. conn # "down"
      BY <2>6
    <3> QED BY <1>1, <2>1, <2>2, <3>3, <3>4, <3>5, <3>6, LinkKept, Zenon
  <2> QED BY <2>5, <2>6, QuietClient
<1>5. Pushed(toClient', daemon')
  <2>1. \A m \in Lines(toClient) : m.kind = "login_event" => m.row \in Nat
    BY <1>3, WireOps, LoginLines
  <2>2. daemon.pushed \in Nat /\ daemon'.pushed \in Nat
    BY <1>2, LimitAssumption DEF DaemonRecord
  <2> QED BY <1>1, <2>1, <2>2 DEF HistoryInv, Pushed
<1>6. ~raced' => Shown(toClient', daemon', calls'["load"], history', step')
  <2> SUFFICES ASSUME ~raced'
               PROVE  Shown(toClient, daemon', calls'["load"], history, step)
    BY <1>1
  <2>1. Shown(toClient, daemon, calls["load"], history, step)
    BY <1>1 DEF HistoryInv
  <2>2. HistoryInHand(calls'["load"]) => calls'["load"] = calls["load"]
    BY QuietClient DEF HistoryInHand, Failed
  <2>3. \A p \in 0 .. Len(toClient), n \in 0 .. MaxLogins :
           Continues(toClient, daemon, p, n) => Continues(toClient, daemon', p, n)
    <3>1. \A p \in 0 .. Len(toClient) : p \in Nat
      BY <1>3
    <3>2. \A n \in 0 .. MaxLogins : n \in Nat
      BY LimitAssumption
    <3> QED BY <1>1, <1>2, <1>3, <3>1, <3>2, ContinuesKept
  <2> QED BY <1>3, <2>1, <2>2, <2>3, ShownKept
<1> QED BY <1>4, <1>5, <1>6, HistoryPrimed

(* A subscriber is sent a login, or the result of a test.                  *)
LEMMA DeliveredHistory ==
  ASSUME TypeOK, TypeOK', HistoryInv, Push \/ TestEnds, daemon.client = "subscribed"
  PROVE  HistoryInv'
<1> DEFINE x == IF Push THEN LoginEvent(daemon.pushed + 1) ELSE SpeedtestResult
<1>1. daemon \in DaemonRecord /\ daemon' \in DaemonRecord
  BY DaemonIsRecord DEF TypeOK, DaemonRecord
<1>2. /\ toClient \in Seq(Line) /\ toClient' \in Seq(Line) /\ toDaemon \in Seq(Request)
      /\ calls["load"] \in Call /\ step \in Nat
  BY SevenSteps DEF TypeOK, Tasks
<1>3. daemon.pushed \in Nat /\ daemon.rows \in Nat
  BY <1>1, LimitAssumption DEF DaemonRecord
<1>4. /\ UNCHANGED <<toDaemon, history, calls, conn, step, raced>>
      /\ daemon'.client = "subscribed" /\ daemon'.rows = daemon.rows
  BY <1>1 DEF Push, TestEnds, DaemonRecord, link, screen, notes
<1>5. /\ x \in Line /\ x.kind # "answer"
      /\ toClient' = Append(toClient, x)
      /\ \/ /\ x = LoginEvent(daemon.pushed + 1)
            /\ daemon'.pushed = daemon.pushed + 1
            /\ daemon.pushed < daemon.rows
         \/ x.kind # "login_event" /\ daemon'.pushed = daemon.pushed
  <2>1. CASE Push
    <3>1. x = LoginEvent(daemon.pushed + 1)
      BY <2>1
    <3>2. daemon.pushed < daemon.rows /\ daemon'.pushed = daemon.pushed + 1
      BY <1>1, <2>1 DEF Push, DaemonRecord
    <3>3. daemon.pushed + 1 \in 1 .. MaxLogins
      BY <1>1, <3>2, LimitAssumption DEF DaemonRecord
    <3>4. toClient' = toClient \o <<x>>
      BY <2>1, <3>1 DEF Push, Deliver
    <3>5. x \in Line /\ x.kind # "answer"
      BY <3>1, <3>3, WrittenLines DEF LoginEvent
    <3> HIDE DEF x
    <3>6. toClient' = Append(toClient, x)
      BY <1>2, <3>4, <3>5
    <3> QED BY <3>1, <3>2, <3>5, <3>6
  <2>2. CASE ~Push /\ TestEnds
    <3>1. x = SpeedtestResult
      BY <2>2
    <3>2. daemon'.pushed = daemon.pushed
      BY <1>1, <2>2 DEF TestEnds, DaemonRecord
    <3>3. toClient' = toClient \o <<x>>
      BY <2>2, <3>1 DEF TestEnds, Deliver
    <3>4. x \in Line /\ x.kind # "answer" /\ x.kind # "login_event"
      BY <3>1, WrittenLines DEF SpeedtestResult
    <3> HIDE DEF x
    <3>5. toClient' = Append(toClient, x)
      BY <1>2, <3>3, <3>4
    <3> QED BY <3>2, <3>4, <3>5
  <2> QED BY <2>1, <2>2
<1> HIDE DEF x
<1>6. Lines(toClient') = Lines(toClient) \cup {x}
  BY <1>2, <1>5, Appended
<1>7. Linked(toDaemon', toClient', daemon', calls'["load"], conn', step')
  <2>1. Linked(toDaemon, toClient, daemon, calls["load"], conn, step)
    BY DEF HistoryInv
  <2>2. conn # "down"
    BY <2>1 DEF Linked
  <2>3. \A i \in DOMAIN toDaemon : toDaemon[i].cmd = "subscribe" => i = 1
    BY <2>1 DEF Linked
  <2>4. \A m \in Lines(toClient') : m \in Lines(toClient) \/ m.kind # "answer"
    BY <1>5, <1>6
  <2> QED BY <1>4, <2>1, <2>2, <2>3, <2>4, LinkKept, Zenon
<1>8. Pushed(toClient', daemon')
  <2>1. Pushed(toClient, daemon)
    BY DEF HistoryInv
  <2>2. \A m \in Lines(toClient) : m.kind = "login_event" => m.row \in Nat
    BY <1>2, WireOps, LoginLines
  <2>3. x.kind = "login_event" => x.row = daemon.pushed + 1
                                  /\ daemon'.pushed = daemon.pushed + 1
    BY <1>5, LoginLines
  <2>4. daemon'.pushed <= daemon'.rows /\ daemon'.pushed >= daemon.pushed
        /\ daemon'.pushed \in Nat
    BY <1>3, <1>4, <1>5, <2>1 DEF Pushed
  <2> QED BY <1>3, <1>6, <2>1, <2>2, <2>3, <2>4 DEF Pushed
<1>9. ~raced' => Shown(toClient', daemon', calls'["load"], history', step')
  <2> SUFFICES ASSUME ~raced
               PROVE  Shown(toClient', daemon', calls["load"], history, step)
    BY <1>4
  <2>1. Shown(toClient, daemon, calls["load"], history, step) /\ Pushed(toClient, daemon)
    BY DEF HistoryInv
  <2>2. ASSUME NEW p \in 0 .. Len(toClient), NEW n \in 0 .. MaxLogins,
               Continues(toClient, daemon, p, n)
        PROVE  Continues(toClient', daemon', p, n)
    <3>1. p \in Nat /\ n \in Nat
      BY <1>2, LimitAssumption
    <3>2. CASE x.kind # "login_event" /\ daemon'.pushed = daemon.pushed
      <4>1. daemon'.pushed >= daemon.pushed
        BY <1>3, <3>2
      <4>2. Continues(Append(toClient, x), daemon', p, n)
        BY <1>1, <1>2, <1>5, <2>2, <3>1, <3>2, <4>1, ContinuesKept
      <4> QED BY <1>5, <4>2
    <3>3. CASE x = LoginEvent(daemon.pushed + 1) /\ daemon'.pushed = daemon.pushed + 1
      BY <1>1, <1>2, <1>5, <2>1, <2>2, <3>1, <3>3, ContinuesPushed
    <3> QED BY <1>5, <3>2, <3>3
  <2>3. \A p \in DOMAIN toClient' : HistoryAnswer(toClient'[p]) =>
           p \in DOMAIN toClient /\ toClient'[p] = toClient[p]
    <3>1. /\ Len(toClient) \in Nat /\ DOMAIN toClient = 1 .. Len(toClient)
          /\ DOMAIN toClient' = 1 .. Len(toClient) + 1
          /\ \A i \in 1 .. Len(toClient) : toClient'[i] = toClient[i]
          /\ toClient'[Len(toClient) + 1] = x
      BY <1>2, <1>5, WireIndex
    <3> QED BY <1>5, <3>1 DEF HistoryAnswer
  <2> QED BY <1>2, <2>1, <2>2, <2>3, ShownKept
<1> QED BY <1>7, <1>8, <1>9, HistoryPrimed

(* A request is served, or fails.                                          *)
LEMMA AnsweredHistory ==
  ASSUME TypeOK, TypeOK', HistoryInv, Serve \/ ServeFails
  PROVE  HistoryInv'
<1> DEFINE r == Head(toDaemon)
           answer(ok, d) == [kind |-> "answer", id |-> r.id, cmd |-> r.cmd,
                             ok |-> ok, data |-> d]
<1>1. daemon \in DaemonRecord /\ daemon' \in DaemonRecord
  BY DaemonIsRecord DEF TypeOK, DaemonRecord
<1>2. /\ toClient \in Seq(Line) /\ toClient' \in Seq(Line) /\ toDaemon \in Seq(Request)
      /\ calls["load"] \in Call /\ step \in Nat
  BY SevenSteps DEF TypeOK, Tasks
<1>3. daemon.pushed \in Nat /\ daemon.rows \in Nat
  BY <1>1, LimitAssumption DEF DaemonRecord
<1>4. /\ UNCHANGED <<history, calls, conn, step>>
      /\ daemon'.rows = daemon.rows /\ daemon'.pushed = daemon.pushed
      /\ toDaemon # <<>> /\ toDaemon' = Tail(toDaemon)
  <2>1. CASE Serve
    BY <1>1, <2>1 DEF Serve, DaemonRecord, link, screen
  <2>2. CASE ServeFails
    BY <1>1, <2>2 DEF ServeFails, DaemonRecord, link, screen, notes
  <2> QED BY <2>1, <2>2
<1>5. /\ r \in Request /\ r \in Lines(toDaemon)
      /\ Lines(toDaemon') \subseteq Lines(toDaemon)
  BY <1>2, <1>4, WireOps
<1>6. PICK ok \in BOOLEAN, d \in 0 .. MaxLogins :
         /\ toClient' = Append(toClient, answer(ok, d))
         /\ ok /\ r.cmd = "get_login_history" =>
               d = daemon.rows /\ (~raced' => ~(daemon.pushed < daemon.rows))
  <2>1. daemon.rows \in 0 .. MaxLogins /\ 0 \in 0 .. MaxLogins
    BY <1>1, LimitAssumption DEF DaemonRecord
  <2>2. CASE Serve
    <3> DEFINE d == IF r.cmd = "get_login_history" THEN daemon.rows ELSE 0
    <3>1. toClient' = Append(toClient, answer(TRUE, d)) /\ d \in 0 .. MaxLogins
      BY <2>1, <2>2 DEF Serve
    <3>2. r.cmd = "get_login_history" =>
             d = daemon.rows /\ (~raced' => ~(daemon.pushed < daemon.rows))
      BY <2>2, Zenon DEF Serve
    <3> QED BY <3>1, <3>2, Zenon
  <2>3. CASE ServeFails
    <3>1. toClient' = Append(toClient, answer(FALSE, 0))
      BY <2>3 DEF ServeFails
    <3> QED BY <2>1, <3>1, Zenon
  <2> QED BY <2>2, <2>3
<1> DEFINE m == answer(ok, d)
<1>7. /\ m \in Line /\ m.kind = "answer" /\ m.cmd = r.cmd /\ m.ok = ok /\ m.data = d
      /\ toClient' = Append(toClient, m)
  <2>1. m.kind = "answer" /\ m.cmd = r.cmd /\ m.ok = ok /\ m.data = d
    OBVIOUS
  <2> QED BY <1>5, <1>6, <2>1, WrittenLines DEF Request
<1> HIDE DEF m
<1>8. Lines(toClient') = Lines(toClient) \cup {m}
  BY <1>2, <1>7, Appended
<1>9. Linked(toDaemon, toClient, daemon, calls["load"], conn, step)
  BY DEF HistoryInv
<1>10. /\ \A i \in DOMAIN toDaemon : toDaemon[i].cmd = "subscribe" => i = 1
       /\ conn # "down"
  BY <1>4, <1>9 DEF Linked
<1>11. /\ \A i \in DOMAIN toDaemon' : toDaemon'[i].cmd = "subscribe" => i = 1
       /\ \A r2 \in Lines(toDaemon') : r2.cmd # "subscribe"
  BY <1>2, <1>4, <1>10, SubscribesFirst
<1>12. Linked(toDaemon', toClient', daemon', calls'["load"], conn', step')
  <2>1. \A l \in Lines(toClient') :
           \/ l \in Lines(toClient) \/ l.kind # "answer"
           \/ \E q \in Lines(toDaemon) :
                 /\ q.cmd = l.cmd
                 /\ q.cmd = "subscribe" =>
                       \A r2 \in Lines(toDaemon') : r2.cmd # "subscribe"
    BY <1>5, <1>7, <1>8, <1>11
  <2>2. \A q \in Lines(toDaemon') : q \in Lines(toDaemon)
    BY <1>5
  <2>3. calls'["load"] = calls["load"] /\ conn' = conn /\ step' = step
    BY <1>4
  <2> QED BY <1>9, <1>10, <1>11, <2>1, <2>2, <2>3, LinkKept, SMT
<1>13. Pushed(toClient', daemon')
  <2>1. m.kind # "login_event"
    BY <1>7
  <2> QED BY <1>4, <1>8, <2>1 DEF HistoryInv, Pushed
<1>14. ASSUME ~raced'
       PROVE  Shown(toClient', daemon', calls["load"], history, step)
  <2>1. Shown(toClient, daemon, calls["load"], history, step)
    <3>1. ~raced
      BY <1>14, Zenon DEF Serve, ServeFails, notes
    <3> QED BY <3>1, Zenon DEF HistoryInv
  <2>2. /\ Len(toClient) \in Nat /\ DOMAIN toClient = 1 .. Len(toClient)
        /\ DOMAIN toClient' = 1 .. Len(toClient) + 1
        /\ \A i \in 1 .. Len(toClient) : toClient'[i] = toClient[i]
        /\ toClient'[Len(toClient) + 1] = m
    BY <1>2, <1>7, WireIndex
  <2>3. CASE r.cmd = "subscribe"
    <3>1. /\ step = 1 /\ calls["load"].st # "answered"
      BY <1>5, <1>9, <2>3 DEF Linked
    <3>2. ~HistoryAnswer(m)
      BY <1>7, <2>3 DEF HistoryAnswer
    <3>3. \A l \in Lines(toClient) : ~HistoryAnswer(l)
      BY <1>9, <3>1 DEF Linked, HistoryAnswer
    <3>4. \A p \in DOMAIN toClient' : ~HistoryAnswer(toClient'[p])
      BY <1>8, <3>2, <3>3, Zenon DEF Lines
    <3> QED BY <3>1, <3>4 DEF Shown, HistoryInHand
  <2>4. CASE r.cmd # "subscribe"
    <3>1. daemon'.client = daemon.client
      <4>1. CASE Serve
        BY <1>1, <2>4, <4>1 DEF Serve, DaemonRecord
      <4>2. CASE ServeFails
        BY <4>2 DEF ServeFails
      <4> QED BY <4>1, <4>2
    <3>2. daemon'.pushed >= daemon.pushed /\ m.kind # "login_event"
      BY <1>3, <1>4, <1>7
    <3>3. ASSUME NEW p \in 0 .. Len(toClient), NEW n \in 0 .. MaxLogins,
                 Continues(toClient, daemon, p, n)
          PROVE  Continues(toClient', daemon', p, n)
      <4>1. p \in Nat /\ n \in Nat
        BY <1>2, LimitAssumption
      <4> QED BY <1>1, <1>2, <1>4, <1>7, <3>1, <3>2, <3>3, <4>1, ContinuesKept
    <3>4. ASSUME NEW p \in DOMAIN toClient', HistoryAnswer(toClient'[p])
          PROVE  \/ p \in DOMAIN toClient /\ toClient'[p] = toClient[p]
                 \/ Continues(toClient', daemon', p, toClient'[p].data)
      <4>1. CASE p = Len(toClient) + 1
        <5>1. toClient'[p] = m /\ HistoryAnswer(m)
          BY <2>2, <3>4, <4>1
        <5>2. d = daemon.pushed
          <6>1. d = daemon.rows /\ ~(daemon.pushed < daemon.rows)
            BY <1>6, <1>7, <1>14, <5>1 DEF HistoryAnswer
          <6> QED BY <1>3, <6>1 DEF HistoryInv, Pushed
        <5>3. InLine(toClient', p, d)
          BY <2>2, <4>1 DEF InLine
        <5>4. Brings(toClient', p, d, daemon'.pushed)
          BY <1>3, <1>4, <5>2 DEF Brings
        <5> QED BY <1>3, <1>4, <1>7, <5>1, <5>2, <5>3, <5>4 DEF Continues
      <4>2. CASE p # Len(toClient) + 1
        BY <2>2, <3>4, <4>2
      <4> QED BY <4>1, <4>2
    <3> QED BY <1>2, <2>1, <3>3, <3>4, ShownKept
  <2> QED BY <2>3, <2>4
<1>15. ~raced' => Shown(toClient', daemon', calls'["load"], history', step')
  <2>1. calls'["load"] = calls["load"] /\ history' = history /\ step' = step
    BY <1>4
  <2> QED BY <1>14, <2>1, Zenon
<1> QED BY <1>12, <1>13, <1>15, HistoryPrimed

(* The daemon dies.                                                        *)
LEMMA DeathHistory ==
  ASSUME TypeOK, TypeOK', HistoryInv, DaemonDies
  PROVE  HistoryInv'
<1>1. daemon \in DaemonRecord /\ daemon' \in DaemonRecord
  BY DaemonIsRecord DEF TypeOK, DaemonRecord
<1>2. /\ toClient \in Seq(Line) /\ toClient' \in Seq(Line) /\ toDaemon \in Seq(Request)
      /\ calls["load"] \in Call /\ step \in Nat
  BY SevenSteps DEF TypeOK, Tasks
<1>3. daemon.pushed \in Nat /\ daemon.rows \in Nat
  BY <1>1, LimitAssumption DEF DaemonRecord
<1>4. UNCHANGED <<history, calls, conn, step, raced>> /\ toDaemon' = <<>>
  BY DEF DaemonDies, link, screen
<1>5. /\ daemon'.rows = daemon.rows /\ daemon'.pushed = daemon.rows
      /\ daemon'.client = "none"
  BY <1>1 DEF DaemonDies, DaemonRecord
<1>6. \/ toClient' = toClient /\ daemon.client = "none"
      \/ /\ daemon.client # "none"
         /\ \E k \in 0 .. Len(toClient) :
               toClient' = Append(SubSeq(toClient, 1, k), Eof)
  BY Zenon DEF DaemonDies
<1>7. Linked(toDaemon, toClient, daemon, calls["load"], conn, step)
      /\ Pushed(toClient, daemon)
  BY DEF HistoryInv
<1>8. Eof \in Line /\ Eof.kind # "answer" /\ Eof.kind # "login_event"
  BY WrittenLines DEF Eof
<1>9. \A m \in Lines(toClient') : m \in Lines(toClient) \/ m = Eof
  <2>1. ASSUME NEW k \in 0 .. Len(toClient),
               toClient' = Append(SubSeq(toClient, 1, k), Eof)
        PROVE  Lines(toClient') \subseteq Lines(toClient) \cup {Eof}
    <3> DEFINE left == SubSeq(toClient, 1, k)
    <3>1. left \in Seq(Line) /\ Lines(left) \subseteq Lines(toClient)
      BY <1>2, CutOff
    <3>2. toClient' = Append(left, Eof)
      BY <2>1
    <3> HIDE DEF left
    <3>3. Lines(toClient') = Lines(left) \cup {Eof}
      BY <1>8, <3>1, <3>2, Appended
    <3> QED BY <3>1, <3>3
  <2>2. CASE toClient' = toClient
    BY <2>2
  <2> QED BY <1>6, <2>1, <2>2
<1>10. Linked(toDaemon', toClient', daemon', calls'["load"], conn', step')
  <2>1. conn = "down" => toClient' = <<>> /\ toDaemon' = <<>> /\ daemon'.client = "none"
    BY <1>4, <1>5, <1>6, <1>7 DEF Linked
  <2>2. \A m \in Lines(toClient') : m \in Lines(toClient) \/ m.kind # "answer"
    BY <1>8, <1>9
  <2>3. /\ \A r \in Lines(toDaemon') : r \in Lines(toDaemon)
        /\ \A i \in DOMAIN toDaemon' : toDaemon'[i].cmd = "subscribe" => i = 1
    BY <1>4 DEF Lines
  <2>4. calls'["load"] = calls["load"] /\ conn' = conn /\ step' = step
    BY <1>4
  <2> QED BY <1>7, <2>1, <2>2, <2>3, <2>4, LinkKept, SMT
<1>11. Pushed(toClient', daemon')
  <2>1. \A m \in Lines(toClient) : m.kind = "login_event" => m.row \in Nat
    BY <1>2, WireOps, LoginLines
  <2> QED BY <1>3, <1>5, <1>7, <1>8, <1>9, <2>1 DEF Pushed
<1>12. ~raced' => Shown(toClient', daemon', calls'["load"], history', step')
  <2> SUFFICES ASSUME ~raced
               PROVE  Shown(toClient', daemon', calls["load"], history, step)
    BY <1>4
  <2>1. Shown(toClient, daemon, calls["load"], history, step)
    BY DEF HistoryInv
  <2>2. daemon'.pushed >= daemon.pushed /\ daemon'.client # "subscribed"
    BY <1>3, <1>5, <1>7 DEF Pushed
  <2>3. /\ \A p \in 0 .. Len(toClient) : p \in Nat
        /\ \A n \in 0 .. MaxLogins : n \in Nat
    BY <1>2, LimitAssumption
  <2>4. CASE toClient' = toClient
    <3>1. \A p \in 0 .. Len(toClient), n \in 0 .. MaxLogins :
             Continues(toClient, daemon, p, n) => Continues(toClient', daemon', p, n)
      BY <1>1, <1>2, <2>2, <2>3, <2>4, ContinuesKept
    <3> QED BY <1>2, <2>1, <2>4, <3>1, ShownKept
  <2>5. ASSUME NEW k \in 0 .. Len(toClient),
               toClient' = Append(SubSeq(toClient, 1, k), Eof)
        PROVE  Shown(toClient', daemon', calls["load"], history, step)
    <3>1. \A p \in 0 .. Len(toClient), n \in 0 .. MaxLogins :
             Continues(toClient, daemon, p, n) => Continues(toClient', daemon', p, n)
      BY <1>1, <1>2, <2>2, <2>3, <2>5, ContinuesCut
    <3>2. ASSUME NEW p \in DOMAIN toClient', HistoryAnswer(toClient'[p])
          PROVE  p \in DOMAIN toClient /\ toClient'[p] = toClient[p]
      <4> DEFINE left == SubSeq(toClient, 1, k)
      <4>1. /\ left \in Seq(Line) /\ Len(left) = k /\ k \in Nat
            /\ \A i \in 1 .. k : i \in DOMAIN toClient /\ left[i] = toClient[i]
        BY <1>2
      <4>2. toClient' = Append(left, Eof)
        BY <2>5
      <4> HIDE DEF left
      <4>3. /\ DOMAIN toClient' = 1 .. k + 1
            /\ \A i \in 1 .. k : toClient'[i] = left[i]
            /\ toClient'[k + 1] = Eof
        BY <1>8, <4>1, <4>2, WireIndex
      <4>4. p # k + 1
        BY <1>8, <3>2, <4>3 DEF HistoryAnswer
      <4>5. p \in 1 .. k
        BY <4>1, <4>3, <4>4
      <4> QED BY <4>1, <4>3, <4>5
    <3> QED BY <1>2, <2>1, <3>1, <3>2, ShownKept
  <2> QED BY <1>6, <2>4, <2>5
<1> QED BY <1>10, <1>11, <1>12, HistoryPrimed

(* A connection is made, or given up: nothing is under way on it.          *)
LEMMA LinkHistory ==
  ASSUME TypeOK, TypeOK', HistoryInv, Connect \/ TearDown
  PROVE  HistoryInv'
<1>1. daemon \in DaemonRecord /\ daemon' \in DaemonRecord
  BY DaemonIsRecord DEF TypeOK, DaemonRecord
<1>2. Linked(toDaemon, toClient, daemon, calls["load"], conn, step)
      /\ Pushed(toClient, daemon)
  BY DEF HistoryInv
<1>3. toClient' = <<>> /\ daemon'.rows = daemon.rows /\ daemon'.pushed = daemon.pushed
  <2>1. CASE Connect
    BY <1>1, <1>2, <2>1 DEF Connect, Linked, DaemonRecord
  <2>2. CASE TearDown
    BY <1>1, <2>2 DEF TearDown, DaemonRecord
  <2> QED BY <2>1, <2>2
<1>4. Lines(toClient') = {} /\ DOMAIN toClient' = {}
  BY <1>3 DEF Lines
<1>5. /\ Linked(toDaemon', toClient', daemon', calls'["load"], conn', step')
      /\ step' \in Nat /\ ~(step' > 3) /\ ~HistoryInHand(calls'["load"])
  <2>1. CASE Connect
    <3> DEFINE r == [id |-> FreshId, cmd |-> "subscribe"]
    <3>1. LoadSteps[1] = "subscribe"
      BY DEF LoadSteps
    <3>2. conn' = "up" /\ step' = 1 /\ calls'["load"].st = "waiting"
          /\ calls'["load"].cmd = LoadSteps[1]
      BY <2>1 DEF Connect, Waiting, TypeOK, Tasks
    <3>3. toDaemon' = <<r>>
      <4>1. toDaemon = <<>> /\ toDaemon' = Append(toDaemon, r)
        BY <1>2, <2>1, <3>1 DEF Connect, Sent, Linked
      <4> QED BY <4>1
    <3>4. DOMAIN toDaemon' = {1} /\ toDaemon'[1].cmd = "subscribe"
      BY <3>3
    <3>5. \A q \in Lines(toDaemon') : q.cmd = "subscribe"
      BY <3>4 DEF Lines
    <3> QED BY <1>4, <3>2, <3>4, <3>5 DEF Linked, HistoryInHand
  <2>2. CASE TearDown
    <3>1. /\ conn' = "down" /\ step' = 0 /\ toDaemon' = <<>>
          /\ daemon'.client = "none" /\ calls'["load"].st = "none"
      BY <1>1, <2>2 DEF TearDown, DaemonRecord, Tasks, NoCall
    <3>2. Lines(toDaemon') = {} /\ DOMAIN toDaemon' = {}
      BY <3>1 DEF Lines
    <3> QED BY <1>3, <1>4, <3>1, <3>2 DEF Linked, HistoryInHand
  <2> QED BY <2>1, <2>2
<1>6. Pushed(toClient', daemon')
  BY <1>2, <1>3, <1>4 DEF Pushed
<1>7. Shown(toClient', daemon', calls'["load"], history', step')
  BY <1>4, <1>5 DEF Shown
<1> QED BY <1>5, <1>6, <1>7, HistoryPrimed

(* The load goes on: with the history's answer in hand it shows that.      *)
LEMMA LoadHistory ==
  ASSUME TypeOK, TypeOK', LoadInv, HistoryInv, LoadGoesOn
  PROVE  HistoryInv'
<1>1. /\ conn = "up" /\ step \in 1 .. 7 /\ step' = step + 1
      /\ calls["load"] \in Call /\ calls["load"].st = "answered"
      /\ calls["load"].data \in 0 .. MaxLogins
  <2>1. calls["load"] \in Call /\ calls["load"].st = "answered"
    BY DEF LoadGoesOn, TypeOK, Tasks
  <2> QED BY <2>1, SevenSteps DEF LoadInv, LoadGoesOn, Call, NoCall, Failed
<1>2. UNCHANGED <<daemon, toClient, conn, raced>>
  BY DEF LoadGoesOn, notes
<1>3. /\ Linked(toDaemon, toClient, daemon, calls["load"], conn, step)
      /\ Pushed(toClient, daemon)
  BY DEF HistoryInv
<1>4. calls["load"].cmd = LoadSteps[step]
  BY <1>1, <1>3 DEF Linked
<1>5. \A i \in 1 .. 7 : /\ LoadSteps[i] = "get_login_history" <=> i = 3
                        /\ LoadSteps[i] = "subscribe" <=> i = 1
  BY DEF LoadSteps
<1>6. /\ ~HistoryInHand(calls'["load"])
      /\ calls'["load"].st # "answered"
      /\ calls'["load"].st = "waiting" => calls'["load"].cmd = LoadSteps[step']
  <2>1. CASE step < 7
    <3>1. Ask("load", LoadSteps[step + 1])
      BY <2>1, SevenSteps DEF LoadGoesOn
    <3>2. LoadSteps[step + 1] \in Commands /\ "load" \in Tasks
      <4>1. step + 1 \in 1 .. 7
        BY <1>1, <2>1
      <4> QED BY <4>1, SevenSteps DEF Tasks
    <3>3. \/ calls'["load"] = Failed
          \/ calls'["load"] =
                [st |-> "waiting", id |-> FreshId, cmd |-> LoadSteps[step + 1]]
      BY <3>1, <3>2, Asking
    <3>4. \/ calls'["load"].st = "failed"
          \/ /\ calls'["load"].st = "waiting"
             /\ calls'["load"].cmd = LoadSteps[step + 1]
      BY <3>3 DEF Failed
    <3> QED BY <1>1, <3>4 DEF HistoryInHand
  <2>2. CASE ~(step < 7)
    <3>1. calls' = [calls EXCEPT !["load"] = NoCall]
      BY <2>2, SevenSteps DEF LoadGoesOn
    <3>2. calls'["load"].st = "none"
      BY <3>1 DEF NoCall, TypeOK, Tasks
    <3> QED BY <3>2 DEF HistoryInHand
  <2> QED BY <2>1, <2>2
<1>7. \/ toDaemon' = toDaemon
      \/ /\ step < 7
         /\ \E r \in Request : r.cmd = LoadSteps[step + 1] /\ toDaemon' = Append(toDaemon, r)
  <2>1. CASE step < 7
    <3> DEFINE r == [id |-> FreshId, cmd |-> LoadSteps[step + 1]]
    <3>1. step + 1 \in 1 .. 7
      BY <1>1, <2>1
    <3>2. LoadSteps[step + 1] \in Commands
      BY <3>1, SevenSteps
    <3>3. r \in Request /\ r.cmd = LoadSteps[step + 1]
      BY <3>2, NobodyHasIt DEF Request
    <3>4. Ask("load", LoadSteps[step + 1])
      BY <2>1, SevenSteps DEF LoadGoesOn
    <3>5. toDaemon' = toDaemon \/ toDaemon' = Append(toDaemon, r)
      BY <3>4, Zenon DEF Ask, Sent
    <3> HIDE DEF r
    <3> QED BY <2>1, <3>3, <3>5, Zenon
  <2>2. CASE ~(step < 7)
    BY <2>2, SevenSteps DEF LoadGoesOn
  <2> QED BY <2>1, <2>2
<1>8. \A r \in Lines(toDaemon) : r.cmd # "subscribe"
  BY <1>1, <1>3 DEF Linked
<1>9. \A r \in Lines(toDaemon') :
         \/ r \in Lines(toDaemon)
         \/ step < 7 /\ r.cmd = LoadSteps[step + 1]
  <2>1. ASSUME NEW x \in Request, x.cmd = LoadSteps[step + 1], step < 7,
               toDaemon' = Append(toDaemon, x)
        PROVE  \A r \in Lines(toDaemon') : r \in Lines(toDaemon) \/ r = x
    <3>1. toDaemon \in Seq(Request)
      BY DEF TypeOK
    <3>2. Lines(Append(toDaemon, x)) = Lines(toDaemon) \cup {x}
      BY <3>1, Appended
    <3> QED BY <2>1, <3>2
  <2>2. CASE toDaemon' = toDaemon
    BY <2>2
  <2> QED BY <1>7, <2>1, <2>2
<1>10. \A r \in Lines(toDaemon') : r.cmd # "subscribe"
  <2>1. step < 7 => LoadSteps[step + 1] # "subscribe"
    <3>1. step < 7 => step + 1 \in 1 .. 7 /\ step + 1 # 1
      BY <1>1
    <3> QED BY <1>5, <3>1
  <2> QED BY <1>8, <1>9, <2>1
<1>11. Linked(toDaemon', toClient', daemon', calls'["load"], conn', step')
  <2>1. \A r \in Lines(toDaemon') : r.cmd = "get_login_history" => step' >= 3
    <3>1. step < 7 /\ LoadSteps[step + 1] = "get_login_history" => step' >= 3
      <4>1. step < 7 => step + 1 \in 1 .. 7
        BY <1>1
      <4> QED BY <1>1, <1>5, <4>1
    <3>2. step >= 3 => step' >= 3
      BY <1>1
    <3> QED BY <1>3, <1>9, <3>1, <3>2 DEF Linked
  <2>2. \A m \in Lines(toClient') :
           m.kind = "answer" /\ m.cmd = "get_login_history" => step' >= 3
    BY <1>1, <1>2, <1>3 DEF Linked
  <2>3. \A i \in DOMAIN toDaemon' : toDaemon'[i].cmd # "subscribe"
    BY <1>10, Zenon DEF Lines
  <2>4. conn' # "down"
    BY <1>1, <1>2
  <2> QED BY <1>6, <1>10, <2>1, <2>2, <2>3, <2>4 DEF Linked
<1>12. Pushed(toClient', daemon')
  BY <1>2, <1>3
<1>13. ~raced' => Shown(toClient', daemon', calls'["load"], history', step')
  <2> SUFFICES ASSUME ~raced
               PROVE  Shown(toClient, daemon, calls'["load"], history', step')
    BY <1>2
  <2>1. Shown(toClient, daemon, calls["load"], history, step)
    BY DEF HistoryInv
  <2>2. ASSUME step' > 3
        PROVE  \E n \in 0 .. MaxLogins :
                  history' = Newest(n) /\ Continues(toClient, daemon, 0, n)
    <3>1. CASE step = 3
      <4>1. HistoryInHand(calls["load"]) /\ LoadSteps[step] = "get_login_history"
        BY <1>1, <1>4, <1>5, <3>1 DEF HistoryInHand
      <4>2. history' = Newest(calls["load"].data)
        BY <4>1 DEF LoadGoesOn
      <4> QED BY <1>1, <2>1, <4>1, <4>2 DEF Shown
    <3>2. CASE step # 3
      <4>1. step > 3 /\ LoadSteps[step] # "get_login_history"
        BY <1>1, <1>5, <2>2, <3>2
      <4>2. history' = history
        BY <4>1 DEF LoadGoesOn
      <4> QED BY <2>1, <4>1, <4>2 DEF Shown
    <3> QED BY <3>1, <3>2
  <2> QED BY <1>6, <2>1, <2>2 DEF Shown
<1> QED BY <1>11, <1>12, <1>13, HistoryPrimed

(* A line is read.                                                         *)
LEMMA ContinuesRead ==
  ASSUME NEW w \in Seq(Line), w # <<>>, NEW d \in DaemonRecord, NEW n \in Nat
  PROVE  /\ \A p \in Nat : Continues(w, d, p + 1, n) => Continues(Tail(w), d, p, n)
         /\ Head(w).kind # "login_event" /\ Continues(w, d, 0, n) =>
               Continues(Tail(w), d, 0, n)
         /\ Head(w).kind = "login_event" /\ Pushed(w, d) /\ Continues(w, d, 0, n) =>
               /\ Head(w) = LoginEvent(n + 1) /\ n + 1 \in 0 .. MaxLogins
               /\ Continues(Tail(w), d, 0, n + 1)
<1>1. d.pushed \in Nat /\ d.pushed <= MaxLogins /\ MaxLogins \in Nat
  BY LimitAssumption DEF DaemonRecord
<1>2. ASSUME NEW p \in Nat, Continues(w, d, p + 1, n)
      PROVE  Continues(Tail(w), d, p, n)
  <2>1. p + 1 \in Nat \ {0} /\ (p + 1) - 1 = p
    OBVIOUS
  <2>2. InLine(w, p + 1, n) /\ n <= d.pushed
    BY <1>2 DEF Continues
  <2>3. d.client = "subscribed" => Brings(w, p + 1, n, d.pushed)
    BY <1>2 DEF Continues
  <2>4. /\ InLine(w, p + 1, n) => InLine(Tail(w), (p + 1) - 1, n)
        /\ Brings(w, p + 1, n, d.pushed) => Brings(Tail(w), (p + 1) - 1, n, d.pushed)
    BY <1>1, <2>1, FirstRead
  <2> QED BY <2>1, <2>2, <2>3, <2>4 DEF Continues
<1>3. ASSUME Head(w).kind # "login_event", Continues(w, d, 0, n)
      PROVE  Continues(Tail(w), d, 0, n)
  BY <1>1, <1>3, OtherRead DEF Continues
<1>4. ASSUME Head(w).kind = "login_event", Pushed(w, d), Continues(w, d, 0, n)
      PROVE  /\ Head(w) = LoginEvent(n + 1) /\ n + 1 \in 0 .. MaxLogins
             /\ Continues(Tail(w), d, 0, n + 1)
  <2>1. InLine(w, 0, n) /\ (d.client = "subscribed" => Brings(w, 0, n, d.pushed))
    BY <1>4 DEF Continues
  <2>2. /\ Head(w) = LoginEvent(n + 1)
        /\ InLine(Tail(w), 0, n + 1)
        /\ Brings(w, 0, n, d.pushed) => Brings(Tail(w), 0, n + 1, d.pushed)
    BY <1>1, <1>4, <2>1, LoginRead
  <2>3. Head(w) \in Lines(w)
    BY WireOps
  <2>4. n + 1 <= d.pushed
    <3>1. Head(w).row <= d.pushed
      BY <1>4, <2>3 DEF Pushed
    <3> QED BY <2>2, <3>1, LoginLines
  <2>5. n + 1 \in 0 .. MaxLogins
    BY <1>1, <2>4
  <2> QED BY <2>1, <2>2, <2>4, <2>5 DEF Continues
<1> QED BY <1>2, <1>3, <1>4

(* The read task: what was in front is shown, in hand, or dropped.         *)
LEMMA ReadHistory ==
  ASSUME TypeOK, TypeOK', OwnInv, HistoryInv, Read
  PROVE  HistoryInv'
<1> DEFINE m == Head(toClient)
<1>1. daemon \in DaemonRecord
  BY DaemonIsRecord
<1>2. /\ toClient \in Seq(Line) /\ toDaemon \in Seq(Request)
      /\ calls["load"] \in Call /\ step \in Nat /\ "load" \in Tasks
  BY SevenSteps DEF TypeOK, Tasks
<1>3. /\ toClient # <<>> /\ toClient' = Tail(toClient)
      /\ UNCHANGED <<daemon, toDaemon, conn, step>>
  BY DEF Read, ReadEnds, ReadAnswer, ReadLoginEvent, ReadSpeedtestResult, link
<1>4. /\ m \in Lines(toClient) /\ m = toClient[1] /\ m \in Line /\ 1 \in DOMAIN toClient
      /\ Lines(toClient') \subseteq Lines(toClient)
      /\ \A p \in DOMAIN toClient' :
            p \in Nat /\ p + 1 \in DOMAIN toClient /\ toClient'[p] = toClient[p + 1]
  <2>1. m \in Lines(toClient) /\ m \in Line /\ Lines(Tail(toClient)) \subseteq Lines(toClient)
    BY <1>2, <1>3, WireOps
  <2> QED BY <1>2, <1>3, <2>1, WireIndex
<1>5. \/ calls'["load"] = calls["load"]
      \/ calls'["load"].st = "failed"
      \/ /\ calls["load"].st = "waiting" /\ m.kind = "answer" /\ m.ok
         /\ calls'["load"].st = "answered" /\ calls'["load"].data = m.data
         /\ calls'["load"].cmd = calls["load"].cmd /\ m.cmd = calls["load"].cmd
  <2>1. CASE ReadAnswer
    <3>1. CASE "load" \in Waiter(m)
      <4>1. Waits("load") /\ calls["load"].id = m.id /\ m.kind = "answer"
        BY <2>1, <3>1 DEF Waiter, ReadAnswer
      <4>2. m.cmd = calls["load"].cmd
        BY <1>2, <1>4, <4>1 DEF OwnInv
      <4>3. calls'["load"] =
               [st |-> IF m.ok THEN "answered" ELSE "failed",
                cmd |-> calls["load"].cmd, data |-> m.data,
                mine |-> m.id = calls["load"].id /\ m.cmd = calls["load"].cmd]
        BY <1>2, <2>1, <3>1 DEF ReadAnswer
      <4> QED BY <4>1, <4>2, <4>3 DEF Waits
    <3>2. CASE "load" \notin Waiter(m)
      BY <1>2, <2>1, <3>2 DEF ReadAnswer
    <3> QED BY <3>1, <3>2
  <2>2. CASE ReadEnds \/ ReadLoginEvent \/ ReadSpeedtestResult
    BY <2>2 DEF ReadEnds, ReadLoginEvent, ReadSpeedtestResult
  <2> QED BY <2>1, <2>2 DEF Read
<1>6. \/ /\ m.kind = "login_event" /\ history' = WithLogin(m.row)
         /\ ~raced' => ~raced /\ ~HistoryInHand(calls'["load"])
      \/ m.kind # "login_event" /\ UNCHANGED <<history, raced>>
  <2>1. CASE ReadLoginEvent
    <3>1. UNCHANGED calls /\ m.kind = "login_event" /\ history' = WithLogin(m.row)
      BY <2>1 DEF ReadLoginEvent
    <3>2. ~raced' => ~raced /\ ~HistoryInHand(calls["load"])
      BY <2>1, Zenon DEF ReadLoginEvent, HistoryInHand
    <3> QED BY <3>1, <3>2
  <2>2. CASE ReadAnswer \/ ReadEnds \/ ReadSpeedtestResult
    BY <2>2 DEF ReadAnswer, ReadEnds, ReadSpeedtestResult, TooLong, Eof,
                SpeedtestResult, screen, notes
  <2> QED BY <2>1, <2>2 DEF Read
<1> HIDE DEF m
<1>7. /\ Linked(toDaemon, toClient, daemon, calls["load"], conn, step)
      /\ Pushed(toClient, daemon)
  BY DEF HistoryInv
<1>8. Linked(toDaemon', toClient', daemon', calls'["load"], conn', step')
  <2>1. conn # "down"
    BY <1>3, <1>7 DEF Linked
  <2>2. \A i \in DOMAIN toDaemon' : toDaemon'[i].cmd = "subscribe" => i = 1
    BY <1>3, <1>7 DEF Linked
  <2>3. Linked(toDaemon', toClient', daemon', calls["load"], conn', step')
    <3>1. \A l \in Lines(toClient') : l \in Lines(toClient)
      BY <1>4
    <3>2. /\ \A r \in Lines(toDaemon') : r \in Lines(toDaemon)
          /\ conn' = conn /\ step' = step
      BY <1>3
    <3> QED BY <1>7, <2>1, <2>2, <3>1, <3>2, LinkKept, Zenon
  <2>4. CASE calls'["load"] = calls["load"]
    BY <2>3, <2>4
  <2>5. CASE calls'["load"].st = "failed"
    BY <2>3, <2>5 DEF Linked
  <2>6. CASE /\ calls["load"].st = "waiting" /\ m.kind = "answer"
             /\ calls'["load"].cmd = calls["load"].cmd /\ m.cmd = calls["load"].cmd
    <3>1. calls["load"].cmd = LoadSteps[step]
      BY <1>7, <2>6 DEF Linked
    <3>2. \A r \in Lines(toDaemon) : r.cmd # "subscribe"
      <4> SUFFICES ASSUME NEW r \in Lines(toDaemon), r.cmd = "subscribe" PROVE FALSE
        OBVIOUS
      <4>1. /\ step = 1
            /\ \A l \in Lines(toClient) : ~(l.kind = "answer" /\ l.cmd = "subscribe")
        BY <1>7 DEF Linked
      <4>2. m.cmd = "subscribe"
        BY <2>6, <3>1, <4>1 DEF LoadSteps
      <4> QED BY <1>4, <2>6, <4>1, <4>2
    <3>3. calls'["load"].cmd = LoadSteps[step']
      BY <1>3, <2>6, <3>1
    <3> QED BY <1>3, <2>3, <3>2, <3>3 DEF Linked
  <2> QED BY <1>5, <2>4, <2>5, <2>6
<1>9. Pushed(toClient', daemon')
  BY <1>3, <1>4, <1>7 DEF Pushed
<1>10. ASSUME ~raced'
       PROVE  Shown(toClient', daemon, calls'["load"], history', step)
  <2>1. Shown(toClient, daemon, calls["load"], history, step)
    BY <1>6, <1>10, Zenon DEF HistoryInv
  <2>2. \A n \in 0 .. MaxLogins : n \in Nat
    BY LimitAssumption
  <2>3. ASSUME NEW p \in DOMAIN toClient', HistoryAnswer(toClient'[p])
        PROVE  Continues(toClient', daemon, p, toClient'[p].data)
    <3>1. /\ p \in Nat /\ p + 1 \in DOMAIN toClient
          /\ toClient'[p] = toClient[p + 1] /\ toClient[p + 1] \in Line
      BY <1>2, <1>4
    <3>2. Continues(toClient, daemon, p + 1, toClient'[p].data)
      BY <2>1, <2>3, <3>1 DEF Shown
    <3>3. toClient'[p].data \in Nat
      BY <2>2, <2>3, <3>1, ReadLines DEF HistoryAnswer
    <3> QED BY <1>1, <1>2, <1>3, <3>1, <3>2, <3>3, ContinuesRead
  <2>4. ASSUME HistoryInHand(calls'["load"])
        PROVE  Continues(toClient', daemon, 0, calls'["load"].data)
    <3>1. m.kind # "login_event"
      BY <1>6, <1>10, <2>4
    <3>2. CASE calls'["load"] = calls["load"]
      <4>1. calls["load"].data \in Nat
        BY <1>2, <2>2, <2>4, <3>2 DEF HistoryInHand, Call, NoCall, Failed
      <4>2. Continues(toClient, daemon, 0, calls["load"].data)
        BY <2>1, <2>4, <3>2 DEF Shown
      <4> QED BY <1>1, <1>2, <1>3, <3>1, <3>2, <4>1, <4>2, ContinuesRead DEF m
    <3>3. CASE /\ m.kind = "answer" /\ m.ok /\ m.cmd = calls'["load"].cmd
               /\ calls'["load"].data = m.data
      <4>1. HistoryAnswer(m) /\ m.data \in Nat
        BY <1>4, <2>2, <2>4, <3>3, ReadLines DEF HistoryAnswer, HistoryInHand
      <4>2. Continues(toClient, daemon, 1, m.data)
        BY <1>4, <2>1, <4>1 DEF Shown
      <4>3. 0 \in Nat /\ 0 + 1 = 1
        OBVIOUS
      <4> QED BY <1>1, <1>2, <1>3, <3>3, <4>1, <4>2, <4>3, ContinuesRead
    <3> QED BY <1>5, <2>4, <3>2, <3>3 DEF HistoryInHand
  <2>5. ASSUME step > 3
        PROVE  \E n \in 0 .. MaxLogins :
                  history' = Newest(n) /\ Continues(toClient', daemon, 0, n)
    <3>1. PICK n \in 0 .. MaxLogins :
             history = Newest(n) /\ Continues(toClient, daemon, 0, n)
      BY <2>1, <2>5 DEF Shown
    <3>2. n \in Nat
      BY <2>2
    <3>3. CASE m.kind = "login_event" /\ history' = WithLogin(m.row)
      <4>1. /\ m = LoginEvent(n + 1) /\ n + 1 \in 0 .. MaxLogins
            /\ Continues(toClient', daemon, 0, n + 1)
        BY <1>1, <1>2, <1>3, <1>7, <3>1, <3>2, <3>3, ContinuesRead DEF m
      <4>2. history' = Newest(n + 1)
        BY <3>1, <3>2, <3>3, <4>1, LoginLines, NewestExtended
      <4> QED BY <4>1, <4>2
    <3>4. CASE m.kind # "login_event" /\ history' = history
      BY <1>1, <1>2, <1>3, <3>1, <3>2, <3>4, ContinuesRead DEF m
    <3> QED BY <1>6, <3>3, <3>4
  <2> QED BY <2>3, <2>4, <2>5 DEF Shown
<1>11. ~raced' => Shown(toClient', daemon', calls'["load"], history', step')
  <2>1. daemon' = daemon /\ step' = step
    BY <1>3
  <2> QED BY <1>10, <2>1
<1> QED BY <1>8, <1>9, <1>11, HistoryPrimed

-----------------------------------------------------------------------------
(* Every step keeps it.                                                    *)
LEMMA HistoryStep ==
  ASSUME TypeOK, TypeOK', LoadInv, OwnInv, HistoryInv, [Next]_vars
  PROVE  HistoryInv'
<1>1. CASE \/ Quiet \/ Push \/ TestEnds
  <2>1. Quiet \/ ((Push \/ TestEnds) /\ daemon.client = "subscribed")
    BY <1>1 DEF Quiet
  <2> QED BY <2>1, QuietHistory, DeliveredHistory
<1>2. \/ Quiet \/ Push \/ TestEnds
      \/ Serve \/ ServeFails \/ DaemonDies \/ Read \/ Connect \/ TearDown \/ LoadGoesOn
  BY Zenon DEF Next, BackendStep, AppTick, Quiet
<1> QED BY <1>1, <1>2, AnsweredHistory, DeathHistory, ReadHistory, LinkHistory,
           LoadHistory, Zenon

LEMMA HistoryInit == Init => HistoryInv
<1> SUFFICES ASSUME Init PROVE HistoryInv
  OBVIOUS
<1>1. PICK n \in 0 .. MaxLogins :
         daemon = [up |-> TRUE, rows |-> n, pushed |-> n, client |-> "none", tests |-> 0]
  BY DEF Init
<1>2. /\ toDaemon = <<>> /\ toClient = <<>> /\ step = 0
      /\ calls["load"].st = "none"
  BY DEF Init, NoCall, Tasks
<1>3. Lines(<<>>) = {} /\ DOMAIN <<>> = {}
  BY DEF Lines
<1>4. Linked(toDaemon, toClient, daemon, calls["load"], conn, step)
  BY <1>1, <1>2, <1>3 DEF Linked
<1>5. Pushed(toClient, daemon)
  BY <1>1, <1>2, <1>3, LimitAssumption DEF Pushed
<1>6. Shown(toClient, daemon, calls["load"], history, step)
  BY <1>2, <1>3 DEF Shown, HistoryInHand
<1> QED BY <1>4, <1>5, <1>6 DEF HistoryInv

(* After the load the screen shows the newest logins, each once and newest *)
(* first, up to those on their way: unless a push crossed the answer that  *)
(* brought them (_apply_login_history, _apply_new_login_event).            *)
THEOREM HistoryIsShown == Spec => []HistoryShown
<1>1. IInv /\ IInv' /\ HistoryInv /\ [Next]_vars => HistoryInv'
  BY HistoryStep DEF IInv
<1>2. IInv /\ HistoryInv => HistoryShown
  <2> SUFFICES ASSUME TypeOK, HistoryInv, step > 3, ~raced
               PROVE  /\ \E n \in 0 .. daemon.rows : history = Newest(n)
                      /\ daemon.client = "subscribed" =>
                            \A n \in 1 .. daemon.pushed :
                               \/ OnItsWay(n)
                               \/ history # <<>> /\ n <= history[1]
    BY DEF IInv, HistoryShown
  <2>1. PICK n \in 0 .. MaxLogins :
           history = Newest(n) /\ Continues(toClient, daemon, 0, n)
    BY DEF HistoryInv, Shown
  <2>2. daemon.pushed \in Nat /\ daemon.rows \in Nat /\ n \in Nat
    BY DaemonIsRecord, LimitAssumption DEF DaemonRecord
  <2>3. n <= daemon.pushed /\ daemon.pushed <= daemon.rows
    BY <2>1 DEF Continues, HistoryInv, Pushed
  <2>4. ASSUME daemon.client = "subscribed", NEW k \in 1 .. daemon.pushed
        PROVE  OnItsWay(k) \/ (history # <<>> /\ k <= history[1])
    <3>1. CASE k <= n
      <4>1. Atmost(n, HistoryLimit) \in Nat /\ Atmost(n, HistoryLimit) >= 1
        BY <2>2, <3>1, LimitAssumption DEF Atmost
      <4>2. 1 \in DOMAIN Newest(n) /\ Newest(n)[1] = n
        BY <2>2, <4>1 DEF Newest
      <4> QED BY <2>1, <3>1, <4>2
    <3>2. CASE ~(k <= n)
      <4>1. k \in n + 1 .. daemon.pushed
        BY <2>2, <3>2
      <4> QED BY <2>1, <2>4, <4>1, Zenon DEF Continues, Brings, OnItsWay
    <3> QED BY <3>1, <3>2
  <2>5. n \in 0 .. daemon.rows
    BY <2>2, <2>3
  <2> QED BY <2>1, <2>4, <2>5
<1> QED BY <1>1, <1>2, HistoryInit, Invariance, PTL DEF Spec

=============================================================================
