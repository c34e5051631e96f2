-------------------------- MODULE ServerTools_proofs --------------------------
(***************************************************************************)
(* The safety properties of the tools tab, for every set of units, of      *)
(* features and of configs, and for every bound.                           *)
(*                                                                         *)
(* Each invariant is proved over Shape, the type invariant but for the     *)
(* bounds of the two counters, which follow from the counting invariant.   *)
(***************************************************************************)
EXTENDS ServerTools, FiniteSetTheorems, SequenceTheorems, TLAPS

Request == [by : {Load, Orphan} \cup Actions, cmd : Commands,
            unit : Targets \cup {None}]
Reply == [by : {Load} \cup Actions, cmd : Commands, status : Statuses,
          danger : BOOLEAN]
TaskRecord == [what : Targets \cup {None}, st : {"none", "starting"} \cup Commands]

(* The shape of what is on the wires and of the tasks. *)
Shape ==
    /\ cache \in Statuses /\ shown \in Statuses
    /\ readings \in 0 .. MaxReadings
    /\ allow \in Configs
    /\ conn \in {"down", "up", "eof"}
    /\ wire \in Seq(Request)
    /\ answers \in Seq(Reply)
    /\ tasks \in [{Load} \cup Actions -> TaskRecord]
    /\ loaded \in BOOLEAN /\ ready \in BOOLEAN /\ enabled \in BOOLEAN
    /\ restarting \in Units \cup {None}
    /\ buttons \in BOOLEAN
    /\ selected \in Units \cup {None} /\ dialog \in Targets \cup {None}
    /\ troubles \in 0 .. MaxTroubles
    /\ confirmed \in [Targets -> Nat] /\ done \in [Targets -> Nat]
    /\ overlapped \in BOOLEAN

(* What a task does fits what it is about: the load only asks for the      *)
(* status, and only a unit is restarted.                                   *)
TaskInv ==
    /\ tasks[Load].st \in {"none", "get_extra_status"}
    /\ \A t \in Actions :
          /\ tasks[t].st \in {"starting", "restart_service", "reboot_system"}
                => tasks[t].what \in Targets
          /\ tasks[t].st = "restart_service" => tasks[t].what \in Units

(* A connection that is gone leaves no one to answer. *)
ConnInv ==
    /\ conn # "up" => \A i \in DOMAIN wire : wire[i].by = Orphan
    /\ conn = "down" => answers = <<>> /\ ~loaded

OneRefresh(status) ==
    \A s, u \in SectionNames :
        status[s] # 0 /\ status[u] # 0 => status[s] = status[u]

RefreshInv ==
    /\ OneRefresh(cache)
    /\ \A i \in DOMAIN answers : OneRefresh(answers[i].status)

EnabledInv ==
    conn = "up" =>
        \A i \in DOMAIN answers :
            answers[i].cmd = "get_extra_status"
                => answers[i].danger = (allow # {})

MarkInv ==
    /\ restarting # None => \E t \in UnderWay : tasks[t].what = restarting
    /\ ~overlapped => \A t \in UnderWay :
           /\ restarting = tasks[t].what
           /\ \A u \in UnderWay : u = t

TasksOf(w) == {t \in Actions : tasks[t].what = w}
Starting(w) == {t \in Actions : tasks[t].what = w /\ tasks[t].st = "starting"}

(* The requests on a wire to restart w. *)
AskedOn(v, w) ==
    {i \in DOMAIN v : v[i].unit = w /\ v[i].cmd # "get_extra_status"}

(* Who has said yes is a task, and what was done, is to be done and may    *)
(* still be asked for is no more than that.                                *)
CountInv ==
    \A w \in Targets :
        /\ confirmed[w] = Cardinality(TasksOf(w))
        /\ done[w] + Cardinality(Starting(w)) + Cardinality(AskedOn(wire, w))
              <= confirmed[w]

ToolsInv ==
    Shape /\ TaskInv /\ ConnInv /\ RefreshInv /\ ShownOfOneRefresh
    /\ EnabledInv /\ EnabledCurrent /\ MarkInv

-----------------------------------------------------------------------------
(* The tasks and who may ask. *)
LEMMA Names ==
    /\ Load \notin Actions /\ Orphan \notin Actions /\ Orphan # Load
    /\ Server \notin Units /\ None \notin Targets
    /\ \A w \in Targets : CommandOf(w) \in Commands \ {"get_extra_status"}
BY ToolsAssumption DEF Load, Actions, Orphan, Targets, CommandOf, Commands

(* The wire without one of its requests. *)
LEMMA WithoutOne ==
  ASSUME NEW S, NEW w \in Seq(S), NEW i \in DOMAIN w
  PROVE  LET v == SubSeq(w, 1, i - 1) \o SubSeq(w, i + 1, Len(w)) IN
         /\ v \in Seq(S)
         /\ Len(v) = Len(w) - 1 /\ Len(w) \in Nat \ {0} /\ i \in 1 .. Len(w)
         /\ \A j \in DOMAIN v : v[j] = IF j < i THEN w[j] ELSE w[j + 1]
<1> DEFINE a == SubSeq(w, 1, i - 1)
           b == SubSeq(w, i + 1, Len(w))
           v == a \o b
<1>1. i \in 1 .. Len(w) /\ Len(w) \in Nat \ {0}
  OBVIOUS
<1>2. /\ a \in Seq(S) /\ Len(a) = i - 1
      /\ \A j \in 1 .. i - 1 : a[j] = w[j]
  BY <1>1, SubSeqProperties
<1>3. /\ b \in Seq(S) /\ Len(b) = Len(w) - i
      /\ \A j \in 1 .. Len(w) - i : b[j] = w[j + i]
  BY <1>1, SubSeqProperties
<1> HIDE DEF a, b
<1>4. /\ v \in Seq(S) /\ Len(v) = Len(a) + Len(b)
      /\ \A j \in 1 .. Len(a) + Len(b) :
            v[j] = IF j <= Len(a) THEN a[j] ELSE b[j - Len(a)]
  BY <1>2, <1>3, ConcatProperties
<1> HIDE DEF v
<1>5. Len(v) = Len(w) - 1 /\ DOMAIN v = 1 .. Len(w) - 1
  BY <1>1, <1>2, <1>3, <1>4
<1>6. ASSUME NEW j \in 1 .. Len(w) - 1
      PROVE  v[j] = IF j < i THEN w[j] ELSE w[j + 1]
  <2>1. j \in Int /\ i \in Int /\ Len(a) = i - 1 /\ j \in 1 .. Len(a) + Len(b)
    BY <1>1, <1>2, <1>3
  <2>2. CASE j < i
    <3>1. j \in 1 .. i - 1 /\ j <= Len(a)
      BY <2>1, <2>2
    <3>2. v[j] = a[j]
      BY <1>4, <2>1, <3>1
    <3> QED BY <1>2, <2>2, <3>1, <3>2
  <2>3. CASE ~(j < i)
    <3>1. /\ j - (i - 1) \in 1 .. Len(w) - i /\ j - (i - 1) + i = j + 1
          /\ ~(j <= Len(a)) /\ j - Len(a) = j - (i - 1)
      BY <1>1, <2>1, <2>3
    <3>2. v[j] = b[j - (i - 1)]
      BY <1>4, <2>1, <3>1
    <3> QED BY <1>3, <2>3, <3>1, <3>2
  <2> QED BY <2>2, <2>3
<1> QED BY <1>1, <1>4, <1>5, <1>6 DEF v, a, b

(* A message that is read is gone from the front. *)
LEMMA Front ==
  ASSUME NEW S, NEW w \in Seq(S), w # <<>>
  PROVE  /\ 1 \in DOMAIN w /\ Head(w) = w[1] /\ Head(w) \in S
         /\ Tail(w) \in Seq(S)
         /\ \A i \in DOMAIN Tail(w) : i + 1 \in DOMAIN w /\ Tail(w)[i] = w[i + 1]
OBVIOUS

(* A message that is sent is at the end. *)
LEMMA Behind ==
  ASSUME NEW S, NEW w \in Seq(S), NEW x \in S
  PROVE  /\ Append(w, x) \in Seq(S)
         /\ \A i \in DOMAIN Append(w, x) :
               (i \in DOMAIN w /\ Append(w, x)[i] = w[i]) \/ Append(w, x)[i] = x
<1>1. Len(w) \in Nat /\ DOMAIN w = 1 .. Len(w)
  OBVIOUS
<1>2. /\ Append(w, x) \in Seq(S) /\ DOMAIN Append(w, x) = 1 .. Len(w) + 1
      /\ \A i \in 1 .. Len(w) : Append(w, x)[i] = w[i]
      /\ Append(w, x)[Len(w) + 1] = x
  OBVIOUS
<1> QED BY <1>1, <1>2

-----------------------------------------------------------------------------
(* What serving a request does, whichever handler it is. *)
LEMMA Serving ==
  ASSUME Shape, Serve
  PROVE  \E i \in DOMAIN wire : \E m \in Reply :
            /\ wire[i].by # Orphan => m.by = wire[i].by
            /\ m.cmd = wire[i].cmd
            /\ answers' = IF wire[i].by = Orphan THEN answers ELSE Append(answers, m)
            /\ m.status \in {cache, NoStatus}
            /\ m.cmd = "get_extra_status" => m.danger = (allow # {})
            /\ \/ done' = done
               \/ /\ wire[i].cmd \in {"restart_service", "reboot_system"}
                  /\ done' = [done EXCEPT ![wire[i].unit] = @ + 1]
            /\ wire' = Without(i)
<1>1. PICK i \in DOMAIN wire :
         /\ ServeStatus(i) \/ ServeAction(i) \/ Refuse(i)
         /\ wire' = Without(i)
  BY DEF Serve
<1>2. /\ wire[i] \in Request /\ wire[i].cmd \in Commands
      /\ wire[i].by # Orphan => wire[i].by \in {Load} \cup Actions
  <2>1. wire \in Seq(Request)
    BY DEF Shape
  <2>2. wire[i] \in Request
    BY <2>1
  <2> QED BY <2>2 DEF Request
<1>3. NoStatus \in Statuses /\ cache \in Statuses
  BY ToolsAssumption DEF NoStatus, Statuses, Shape
<1> DEFINE from == IF wire[i].by = Orphan THEN Load ELSE wire[i].by
<1>4. from \in {Load} \cup Actions
  BY <1>2
<1>5. CASE ServeStatus(i)
  <2> DEFINE m == [by |-> from, cmd |-> wire[i].cmd, status |-> cache,
                   danger |-> (allow # {})]
  <2>1. m \in Reply
    BY <1>2, <1>3, <1>4 DEF Reply
  <2> QED BY <1>1, <1>5, <2>1 DEF ServeStatus, Answer
<1>6. CASE ServeAction(i) \/ Refuse(i)
  <2> DEFINE m == [by |-> from, cmd |-> wire[i].cmd, status |-> NoStatus,
                   danger |-> FALSE]
  <2>1. m \in Reply
    BY <1>2, <1>3, <1>4 DEF Reply
  <2> QED BY <1>1, <1>6, <2>1 DEF ServeAction, Refuse, Answer
<1> QED BY <1>1, <1>5, <1>6

(* A request is sent on a connection that is up, and nowhere else. *)
LEMMA Sending ==
  ASSUME Shape, NEW t \in {Load} \cup Actions, NEW cmd \in Commands, Send(t, cmd)
  PROVE  /\ wire' \in Seq(Request)
         /\ \A i \in DOMAIN wire' :
               \/ i \in DOMAIN wire /\ wire'[i] = wire[i]
               \/ /\ conn = "up" /\ wire'[i].by = t /\ wire'[i].cmd = cmd
                  /\ wire'[i].unit = tasks[t].what
<1> DEFINE r == [by |-> t, cmd |-> cmd, unit |-> tasks[t].what]
<1>1. r \in Request
  BY DEF Shape, TaskRecord, Request
<1>2. wire \in Seq(Request) /\ wire' = IF conn = "up" THEN Append(wire, r) ELSE wire
  BY DEF Shape, Send
<1>3. r.by = t /\ r.cmd = cmd /\ r.unit = tasks[t].what
  OBVIOUS
<1> HIDE DEF r
<1> QED BY <1>1, <1>2, <1>3, Behind

(* A connection that is given up takes its requests and answers with it. *)
LEMMA TearingDown ==
  ASSUME Shape, TearDown
  PROVE  /\ wire' \in Seq(Request) /\ DOMAIN wire' = DOMAIN wire
         /\ \A i \in DOMAIN wire : /\ wire'[i].by = Orphan
                                   /\ wire'[i].cmd = wire[i].cmd
                                   /\ wire'[i].unit = wire[i].unit
         /\ answers' = <<>> /\ conn' = "down" /\ loaded' = FALSE
         /\ tasks' \in [{Load} \cup Actions -> TaskRecord]
         /\ \A t \in {Load} \cup Actions :
               /\ tasks'[t].what = tasks[t].what
               /\ tasks'[t].st = IF tasks[t].st \in {"none", "starting"}
                                   THEN tasks[t].st ELSE "none"
         /\ restarting' =
               IF \A t \in Actions \cup {Load} : tasks[t].st # "restart_service"
                 THEN restarting ELSE None
         /\ UNCHANGED <<ready, shown, enabled>>
<1>1. wire \in Seq(Request) /\ tasks \in [{Load} \cup Actions -> TaskRecord]
  BY DEF Shape
<1>2. /\ wire' = [i \in DOMAIN wire |-> [wire[i] EXCEPT !.by = Orphan]]
      /\ answers' = <<>> /\ conn' = "down" /\ loaded' = FALSE
      /\ UNCHANGED <<ready, shown, enabled>>
  BY DEF TearDown
<1>3. /\ DOMAIN wire = 1 .. Len(wire) /\ Len(wire) \in Nat
      /\ \A i \in DOMAIN wire : wire[i] \in Request
  BY <1>1
<1>4. \A i \in DOMAIN wire : /\ wire'[i] \in Request
                             /\ wire'[i].by = Orphan
                             /\ wire'[i].cmd = wire[i].cmd
                             /\ wire'[i].unit = wire[i].unit
  BY <1>2, <1>3 DEF Request
<1>5. wire' \in Seq(Request) /\ DOMAIN wire' = DOMAIN wire
  <2>1. wire' = [i \in 1 .. Len(wire) |-> wire'[i]]
    BY <1>2, <1>3
  <2> QED BY <1>3, <1>4, <2>1, IsASeq
<1> DEFINE failed == {t \in DOMAIN tasks : tasks[t].st \notin {"none", "starting"}}
<1>6. /\ tasks' = [t \in DOMAIN tasks |->
                      IF t \in failed THEN Task(tasks[t].what, "none") ELSE tasks[t]]
      /\ restarting' = IF {t \in failed : tasks[t].st = "restart_service"} = {}
                         THEN restarting ELSE None
  BY DEF TearDown, MarkAfter
<1>7. DOMAIN tasks = {Load} \cup Actions
  BY <1>1
<1>8. ASSUME NEW t \in {Load} \cup Actions
      PROVE  /\ tasks'[t] \in TaskRecord
             /\ tasks'[t].what = tasks[t].what
             /\ tasks'[t].st = IF tasks[t].st \in {"none", "starting"}
                                 THEN tasks[t].st ELSE "none"
  <2>1. tasks'[t] = IF tasks[t].st \in {"none", "starting"} THEN tasks[t]
                    ELSE [what |-> tasks[t].what, st |-> "none"]
    BY <1>6, <1>7 DEF Task
  <2>2. tasks[t] \in TaskRecord
    BY <1>1
  <2> QED BY <2>1, <2>2 DEF TaskRecord
<1>9. tasks' \in [{Load} \cup Actions -> TaskRecord]
  BY <1>6, <1>7, <1>8
<1>10. {t \in failed : tasks[t].st = "restart_service"} = {}
          <=> \A t \in Actions \cup {Load} : tasks[t].st # "restart_service"
  BY <1>7
<1> QED BY <1>2, <1>4, <1>5, <1>6, <1>8, <1>9, <1>10

(* What becomes of one task, answered or timed out; the other tasks stay   *)
(* as they are.                                                            *)
LEMMA Ending ==
  ASSUME Shape, NEW t \in {Load} \cup Actions, NEW st \in {"none"} \cup Commands,
         tasks' = [tasks EXCEPT ![t].st = st]
  PROVE  /\ tasks' \in [{Load} \cup Actions -> TaskRecord]
         /\ tasks'[t].st = st /\ tasks'[t].what = tasks[t].what
         /\ \A u \in {Load} \cup Actions : u # t => tasks'[u] = tasks[u]
<1>1. tasks \in [{Load} \cup Actions -> TaskRecord]
  BY DEF Shape
<1> QED BY <1>1 DEF TaskRecord

-----------------------------------------------------------------------------
(* Every step keeps the invariants of the tools tab: first the daemon's.   *)

LEMMA RefreshKeeps ==
  ASSUME ToolsInv, NEW through \in 0 .. Len(Sections), Refresh(through)
  PROVE  ToolsInv'
<1>1. /\ readings' \in 0 .. MaxReadings /\ 0 \in 0 .. MaxReadings
      /\ \A s \in SectionNames : cache'[s] \in {readings', 0}
      /\ cache' \in Statuses
  <2>1. /\ readings < MaxReadings /\ readings' = readings + 1
        /\ cache' = [s \in SectionNames |->
              IF \E i \in 1 .. through : Sections[i] = s THEN readings'
              ELSE BlankStatus[s]]
    BY DEF Refresh
  <2>2. readings' \in 0 .. MaxReadings /\ 0 \in 0 .. MaxReadings
    BY <2>1, ToolsAssumption DEF ToolsInv, Shape
  <2>3. \A s \in SectionNames : BlankStatus[s] = 0
    BY DEF BlankStatus, NoStatus
  <2> QED BY <2>1, <2>2, <2>3 DEF Statuses
<1>2. UNCHANGED <<allow, conn, wires, tasks, loads, backend, screen, troubles,
                  confirmed, done, overlapped>>
  BY DEF Refresh
<1> USE <1>2 DEF wires, loads, backend, screen, ToolsInv
<1>3. Shape'
  BY <1>1 DEF Shape
<1>4. RefreshInv'
  BY <1>1 DEF RefreshInv, OneRefresh
<1>5. TaskInv' /\ ConnInv' /\ ShownOfOneRefresh' /\ EnabledInv' /\ EnabledCurrent'
  BY DEF TaskInv, ConnInv, ShownOfOneRefresh, EnabledInv, EnabledCurrent
<1>6. MarkInv'
  BY DEF MarkInv, UnderWay
<1> QED BY <1>3, <1>4, <1>5, <1>6

LEMMA DaemonRestartsKeeps ==
  ASSUME ToolsInv, DaemonRestarts
  PROVE  ToolsInv'
<1>1. /\ cache' = NoStatus /\ allow' \in Configs /\ wire' = <<>>
      /\ conn' = IF conn = "up" THEN "eof" ELSE conn
      /\ UNCHANGED <<readings, answers, tasks, loads, backend, screen,
                     confirmed, done, overlapped>>
      /\ troubles < MaxTroubles /\ troubles' = troubles + 1
  BY DEF DaemonRestarts, Trouble
<1>2. NoStatus \in Statuses /\ OneRefresh(NoStatus)
  BY ToolsAssumption DEF NoStatus, Statuses, OneRefresh
<1>3. wire' \in Seq(Request) /\ DOMAIN wire' = {}
  BY <1>1
<1>4. conn' # "up" /\ (conn' = "down" => conn = "down")
      /\ conn' \in {"down", "up", "eof"}
  BY <1>1 DEF ToolsInv, Shape
<1> USE DEF loads, backend, screen, ToolsInv
<1>5. Shape'
  BY <1>1, <1>2, <1>3, <1>4, ToolsAssumption DEF Shape
<1>6. RefreshInv'
  BY <1>1, <1>2 DEF RefreshInv, OneRefresh
<1>7. TaskInv' /\ ConnInv' /\ ShownOfOneRefresh' /\ EnabledInv' /\ EnabledCurrent'
  BY <1>1, <1>3, <1>4
     DEF TaskInv, ConnInv, ShownOfOneRefresh, EnabledInv, EnabledCurrent
<1>8. MarkInv'
  BY <1>1 DEF MarkInv, UnderWay
<1> QED BY <1>5, <1>6, <1>7, <1>8

LEMMA ServeKeeps ==
  ASSUME ToolsInv, Serve
  PROVE  ToolsInv'
<1>1. PICK i \in DOMAIN wire, m \in Reply :
            /\ wire[i].by # Orphan => m.by = wire[i].by
            /\ m.cmd = wire[i].cmd
            /\ answers' = IF wire[i].by = Orphan THEN answers ELSE Append(answers, m)
            /\ m.status \in {cache, NoStatus}
            /\ m.cmd = "get_extra_status" => m.danger = (allow # {})
            /\ \/ done' = done
               \/ /\ wire[i].cmd \in {"restart_service", "reboot_system"}
                  /\ done' = [done EXCEPT ![wire[i].unit] = @ + 1]
            /\ wire' = Without(i)
  BY Serving DEF ToolsInv
<1>2. UNCHANGED <<daemonVars, conn, tasks, loads, backend, screen, troubles,
                  confirmed, overlapped>>
  BY DEF Serve
<1> USE DEF daemonVars, loads, backend, screen, ToolsInv
<1>3. wire \in Seq(Request) /\ answers \in Seq(Reply)
  BY DEF Shape
<1>4. /\ wire' \in Seq(Request)
      /\ \A j \in DOMAIN wire' : \E k \in DOMAIN wire : wire'[j] = wire[k]
  <2>1. /\ wire' \in Seq(Request) /\ Len(wire') = Len(wire) - 1 /\ Len(wire) \in Nat
        /\ \A j \in DOMAIN wire' : wire'[j] = IF j < i THEN wire[j] ELSE wire[j + 1]
    <3>1. i \in DOMAIN wire /\ wire' = SubSeq(wire, 1, i - 1)
                                           \o SubSeq(wire, i + 1, Len(wire))
      BY <1>1 DEF Without
    <3> HIDE DEF ToolsInv
    <3> QED BY <1>3, <3>1, WithoutOne
  <2>2. ASSUME NEW j \in DOMAIN wire' PROVE j \in DOMAIN wire /\ j + 1 \in DOMAIN wire
    BY <1>3, <2>1
  <2> QED BY <2>1, <2>2
<1>5. /\ answers' \in Seq(Reply)
      /\ wire[i].by = Orphan => answers' = answers
      /\ \A j \in DOMAIN answers' :
            (j \in DOMAIN answers /\ answers'[j] = answers[j]) \/ answers'[j] = m
  <2>1. CASE wire[i].by = Orphan
    BY <1>1, <1>3, <2>1
  <2>2. CASE wire[i].by # Orphan
    BY <1>1, <1>3, <2>2, Behind
  <2> QED BY <2>1, <2>2
<1>6. done' \in [Targets -> Nat]
  BY <1>1 DEF Shape
<1>7. Shape'
  BY <1>2, <1>4, <1>5, <1>6 DEF Shape
<1>8. TaskInv' /\ ShownOfOneRefresh' /\ EnabledCurrent'
  BY <1>2 DEF TaskInv, ShownOfOneRefresh, EnabledCurrent
<1>9. ConnInv'
  BY <1>2, <1>4, <1>5 DEF ConnInv
<1>10. RefreshInv'
  <2>1. OneRefresh(m.status)
    BY <1>1 DEF RefreshInv, OneRefresh, NoStatus
  <2> QED BY <1>2, <1>5, <2>1 DEF RefreshInv, OneRefresh
<1>11. EnabledInv'
  BY <1>1, <1>2, <1>5 DEF EnabledInv
<1>12. MarkInv'
  BY <1>2 DEF MarkInv, UnderWay
<1> QED BY <1>7, <1>8, <1>9, <1>10, <1>11, <1>12

-----------------------------------------------------------------------------
(* The backend's steps. *)

LEMMA ConnectKeeps ==
  ASSUME ToolsInv, Connect
  PROVE  ToolsInv'
<1> DEFINE r == [by |-> Load, cmd |-> "get_extra_status", unit |-> None]
<1>1. /\ conn = "down" /\ conn' = "up"
      /\ tasks' = [tasks EXCEPT ![Load].st = "get_extra_status"]
      /\ wire' = Append(wire, r)
      /\ UNCHANGED <<daemonVars, answers, loads, backend, screen, troubles,
                     confirmed, done, overlapped>>
  BY DEF Connect
<1>2. r \in Request
  BY DEF Request, Commands
<1>3. Load \in {Load} \cup Actions /\ "get_extra_status" \in {"none"} \cup Commands
  BY DEF Commands
<1> HIDE DEF r
<1>4. Shape
  BY DEF ToolsInv
<1>5. /\ tasks' \in [{Load} \cup Actions -> TaskRecord]
      /\ tasks'[Load].st = "get_extra_status"
      /\ \A u \in Actions : tasks'[u] = tasks[u]
  BY <1>1, <1>3, <1>4, Ending, Names
<1>6. wire' \in Seq(Request)
  BY <1>1, <1>2, <1>4, Behind DEF Shape
<1>7. answers = <<>> /\ ~loaded
  BY <1>1 DEF ToolsInv, ConnInv
<1> USE DEF daemonVars, loads, backend, screen, ToolsInv
<1>8. Shape'
  BY <1>1, <1>5, <1>6 DEF Shape
<1>9. TaskInv'
  BY <1>5 DEF TaskInv
<1>10. ConnInv' /\ RefreshInv' /\ ShownOfOneRefresh' /\ EnabledInv' /\ EnabledCurrent'
  BY <1>1, <1>7
     DEF ConnInv, RefreshInv, OneRefresh, ShownOfOneRefresh, EnabledInv, EnabledCurrent
<1>11. MarkInv'
  BY <1>1, <1>5 DEF MarkInv, UnderWay
<1> QED BY <1>8, <1>9, <1>10, <1>11

(* A task's request ends, and what that changes is the task, the backend   *)
(* and what is sent: the answers may only get fewer.                       *)
LEMMA TurnKeeps ==
  ASSUME ToolsInv, NEW t \in {Load} \cup Actions, NEW b \in BOOLEAN,
         UNCHANGED <<daemonVars, screen, confirmed, done, overlapped>>,
         troubles' \in 0 .. MaxTroubles,
         answers' \in Seq(Reply),
         \A j \in DOMAIN answers' : \E k \in DOMAIN answers : answers'[j] = answers[k],
         \/ RestartEnded(t, b)
         \/ RebootEnded(t)
         \/ \E k \in DOMAIN answers :
               /\ answers[k].cmd = "get_extra_status"
               /\ StatusCame(t, answers[k])
         \/ /\ tasks[t].st = "get_extra_status"
            /\ tasks' = [tasks EXCEPT ![t].st = "none"]
            /\ UNCHANGED <<conn, wire, loads, backend>>
  PROVE  ToolsInv'
<1>1. Shape /\ answers \in Seq(Reply)
  BY DEF ToolsInv, Shape
<1>2. /\ conn' = conn
      /\ conn = "down" => answers' = <<>>
  BY DEF RestartEnded, RebootEnded, StatusCame, ToolsInv, ConnInv
<1>3. /\ wire' \in Seq(Request)
      /\ \A i \in DOMAIN wire' :
            conn # "up" => i \in DOMAIN wire /\ wire'[i] = wire[i]
  <2>1. CASE RestartEnded(t, b)
    <3>1. Send(t, "get_extra_status") /\ "get_extra_status" \in Commands
      BY <2>1 DEF RestartEnded, Commands
    <3> QED BY <1>1, <3>1, Sending
  <2>2. CASE wire' = wire
    BY <1>1, <2>2 DEF Shape
  <2> QED BY <2>1, <2>2 DEF RebootEnded, StatusCame
<1>4. PICK st \in {"none", "get_extra_status"} :
         /\ tasks' = [tasks EXCEPT ![t].st = st]
         /\ tasks[t].st \in Commands
         /\ st = "get_extra_status" => tasks[t].st = "restart_service"
  BY DEF RestartEnded, RebootEnded, StatusCame, Commands
<1>5. /\ tasks' \in [{Load} \cup Actions -> TaskRecord]
      /\ tasks'[t].st = st /\ tasks'[t].what = tasks[t].what
      /\ \A u \in {Load} \cup Actions : u # t => tasks'[u] = tasks[u]
  BY <1>1, <1>4, Ending DEF Commands
<1>6. TaskInv'
  <2>1. tasks'[Load].st \in {"none", "get_extra_status"}
    BY <1>4, <1>5 DEF ToolsInv, TaskInv
  <2> QED BY <1>4, <1>5, <2>1 DEF ToolsInv, TaskInv
<1>7. MarkInv'
  <2>1. CASE RestartEnded(t, b)
    <3>1. restarting' = None /\ tasks[t].st = "restart_service"
      BY <2>1 DEF RestartEnded, MarkAfter
    <3>2. t \in UnderWay
      BY <3>1, Names DEF UnderWay, ToolsInv, TaskInv
    <3>3. UnderWay' = UnderWay \ {t}
      BY <1>4, <1>5 DEF UnderWay
    <3> QED BY <3>1, <3>2, <3>3, <1>5 DEF ToolsInv, MarkInv
  <2>2. CASE restarting' = restarting /\ tasks[t].st # "restart_service"
    <3>1. UnderWay' = UnderWay /\ \A u \in UnderWay : tasks'[u].what = tasks[u].what
      BY <1>4, <1>5, <2>2 DEF UnderWay, Commands
    <3> QED BY <2>2, <3>1 DEF ToolsInv, MarkInv
  <2> QED BY <2>1, <2>2 DEF RebootEnded, StatusCame, backend
<1>8. /\ shown' \in Statuses /\ ShownOfOneRefresh'
      /\ enabled' \in BOOLEAN /\ EnabledCurrent'
      /\ loaded' \in BOOLEAN /\ ready' \in BOOLEAN /\ (conn = "down" => ~loaded')
      /\ restarting' \in Units \cup {None}
  <2>1. CASE UNCHANGED <<shown, enabled, loads>>
    <3>1. restarting' \in {None, restarting}
      BY DEF RestartEnded, RebootEnded, StatusCame, MarkAfter, backend
    <3> QED BY <1>2, <2>1, <3>1
            DEF loads, daemonVars, ToolsInv, Shape, ShownOfOneRefresh,
                EnabledCurrent, ConnInv
  <2>2. ASSUME NEW k \in DOMAIN answers, answers[k].cmd = "get_extra_status",
               StatusCame(t, answers[k])
        PROVE  /\ shown' \in Statuses /\ ShownOfOneRefresh'
               /\ enabled' \in BOOLEAN /\ EnabledCurrent'
               /\ loaded' \in BOOLEAN /\ ready' \in BOOLEAN
               /\ (conn = "down" => ~loaded')
               /\ restarting' \in Units \cup {None}
    <3>1. /\ answers[k] \in Reply /\ conn # "down"
          /\ OneRefresh(answers[k].status)
          /\ conn = "up" => answers[k].danger = (allow # {})
      BY <1>1, <2>2 DEF ToolsInv, ConnInv, RefreshInv, EnabledInv
    <3>2. /\ answers[k].status \in Statuses /\ answers[k].danger \in BOOLEAN
      BY <3>1 DEF Reply
    <3>3. /\ shown' = ShownBy(answers[k].status) /\ enabled' = answers[k].danger
          /\ loaded' \in BOOLEAN /\ ready' \in BOOLEAN /\ restarting' = restarting
      BY <2>2 DEF StatusCame, EnabledBy
    <3>4. shown' \in Statuses /\ ShownOfOneRefresh'
      BY <3>1, <3>2, <3>3
         DEF ShownBy, Statuses, OneRefresh, ShownOfOneRefresh, ToolsInv, Shape
    <3> QED BY <1>2, <3>1, <3>2, <3>3, <3>4
            DEF EnabledCurrent, daemonVars, ToolsInv, Shape
  <2>3. \/ UNCHANGED <<shown, enabled, loads>>
        \/ \E k \in DOMAIN answers : /\ answers[k].cmd = "get_extra_status"
                                     /\ StatusCame(t, answers[k])
    BY DEF RestartEnded, RebootEnded, backend
  <2> QED BY <2>1, <2>2, <2>3
<1> USE DEF daemonVars, screen, ToolsInv
<1>9. Shape'
  BY <1>2, <1>3, <1>5, <1>8 DEF Shape
<1>10. ConnInv'
  BY <1>2, <1>3, <1>8 DEF ConnInv
<1>11. RefreshInv' /\ EnabledInv'
  BY <1>2 DEF RefreshInv, OneRefresh, EnabledInv
<1> QED BY <1>6, <1>7, <1>8, <1>9, <1>10, <1>11

LEMMA ReadAnswerKeeps ==
  ASSUME ToolsInv, ReadAnswer
  PROVE  ToolsInv'
<1> DEFINE m == Head(answers)
<1>1. /\ answers # <<>> /\ answers' = Tail(answers)
      /\ UNCHANGED <<daemonVars, screen, troubles, confirmed, done, overlapped>>
      /\ IF tasks[m.by].st = m.cmd
           THEN RestartEnded(m.by, TRUE) \/ RebootEnded(m.by) \/ StatusCame(m.by, m)
           ELSE UNCHANGED <<conn, wire, tasks, loads, backend>>
  BY DEF ReadAnswer
<1>2. /\ m \in Reply /\ 1 \in DOMAIN answers /\ m = answers[1]
      /\ answers' \in Seq(Reply)
      /\ \A j \in DOMAIN answers' : \E k \in DOMAIN answers : answers'[j] = answers[k]
  <2>1. answers \in Seq(Reply)
    BY DEF ToolsInv, Shape
  <2> QED BY <1>1, <2>1, Front
<1>3. m.by \in {Load} \cup Actions /\ troubles' \in 0 .. MaxTroubles
  BY <1>1, <1>2 DEF Reply, ToolsInv, Shape
<1>4. CASE tasks[m.by].st = m.cmd
  <2>1. \/ RestartEnded(m.by, TRUE) \/ RebootEnded(m.by)
        \/ \E k \in DOMAIN answers : /\ answers[k].cmd = "get_extra_status"
                                     /\ StatusCame(m.by, answers[k])
    <3>1. StatusCame(m.by, m) => m.cmd = "get_extra_status"
      BY <1>4 DEF StatusCame
    <3> QED BY <1>1, <1>2, <1>4, <3>1
  <2> HIDE DEF m
  <2> QED BY <1>1, <1>2, <1>3, <2>1, TurnKeeps
<1>5. CASE tasks[m.by].st # m.cmd
  <2>1. UNCHANGED <<conn, wire, tasks, loads, backend>>
    BY <1>1, <1>5
  <2>2. answers # <<>> /\ conn # "down"
    BY <1>1 DEF ToolsInv, ConnInv
  <2> USE <1>1, <1>2, <2>1, <2>2 DEF daemonVars, loads, backend, screen, ToolsInv
  <2> HIDE DEF m
  <2>3. Shape'
    BY DEF Shape
  <2>4. TaskInv' /\ ConnInv' /\ RefreshInv' /\ ShownOfOneRefresh' /\ EnabledInv'
        /\ EnabledCurrent'
    BY DEF TaskInv, ConnInv, RefreshInv, OneRefresh, ShownOfOneRefresh, EnabledInv,
           EnabledCurrent
  <2>5. MarkInv'
    BY DEF MarkInv, UnderWay
  <2> QED BY <2>3, <2>4, <2>5
<1> QED BY <1>4, <1>5

LEMMA TearDownKeeps ==
  ASSUME ToolsInv, TearDown, troubles' \in 0 .. MaxTroubles,
         UNCHANGED <<daemonVars, screen, confirmed, done, overlapped>>
  PROVE  ToolsInv'
<1>1. Shape
  BY DEF ToolsInv
<1>2. /\ wire' \in Seq(Request) /\ DOMAIN wire' = DOMAIN wire
      /\ \A i \in DOMAIN wire : wire'[i].by = Orphan
      /\ answers' = <<>> /\ conn' = "down" /\ loaded' = FALSE
      /\ tasks' \in [{Load} \cup Actions -> TaskRecord]
      /\ \A t \in {Load} \cup Actions :
            /\ tasks'[t].what = tasks[t].what
            /\ tasks'[t].st = IF tasks[t].st \in {"none", "starting"}
                                THEN tasks[t].st ELSE "none"
      /\ restarting' =
            IF \A t \in Actions \cup {Load} : tasks[t].st # "restart_service"
              THEN restarting ELSE None
      /\ UNCHANGED <<ready, shown, enabled>>
  BY <1>1, TearingDown
<1>3. answers' \in Seq(Reply) /\ DOMAIN answers' = {}
  BY <1>2
<1> USE DEF daemonVars, screen, ToolsInv
<1>4. Shape'
  BY <1>2, <1>3 DEF Shape
<1>5. TaskInv'
  BY <1>2 DEF TaskInv
<1>6. ConnInv' /\ RefreshInv' /\ ShownOfOneRefresh' /\ EnabledInv' /\ EnabledCurrent'
  BY <1>2, <1>3
     DEF ConnInv, RefreshInv, OneRefresh, ShownOfOneRefresh, EnabledInv, EnabledCurrent
<1>7. MarkInv'
  <2>1. UnderWay' = {t \in UnderWay : tasks[t].st = "starting"}
    BY <1>2 DEF UnderWay
  <2>2. \A t \in UnderWay' : tasks'[t].what = tasks[t].what
    BY <1>2, <2>1 DEF UnderWay
  <2>3. CASE \A t \in Actions \cup {Load} : tasks[t].st # "restart_service"
    <3>1. UnderWay' = UnderWay /\ restarting' = restarting
      BY <1>2, <2>1, <2>3 DEF UnderWay
    <3> QED BY <2>2, <3>1 DEF MarkInv
  <2>4. ASSUME NEW t \in Actions \cup {Load}, tasks[t].st = "restart_service"
        PROVE  MarkInv'
    <3>1. restarting' = None
      BY <1>2, <2>4
    <3>2. t \in UnderWay /\ t \notin UnderWay'
      BY <2>1, <2>4, Names DEF UnderWay, TaskInv
    <3> QED BY <2>1, <3>1, <3>2 DEF MarkInv
  <2> QED BY <2>3, <2>4
<1> QED BY <1>4, <1>5, <1>6, <1>7

LEMMA GivesUpKeeps ==
  ASSUME ToolsInv, NEW t \in DOMAIN tasks, TimesOut(t) \/ TimesOutEarly(t)
  PROVE  ToolsInv'
<1>1. /\ GivesUp(t) /\ t \in {Load} \cup Actions
      /\ troubles' \in 0 .. MaxTroubles
  BY ToolsAssumption DEF TimesOut, TimesOutEarly, Trouble, ToolsInv, Shape
<1>2. UNCHANGED <<daemonVars, screen, confirmed, done, overlapped>>
  BY <1>1 DEF GivesUp
<1>3. CASE TearDown
  BY <1>1, <1>2, <1>3, TearDownKeeps
<1>4. CASE ~TearDown
  <2>1. /\ UNCHANGED answers
        /\ \/ RestartEnded(t, FALSE)
           \/ RebootEnded(t)
           \/ /\ tasks[t].st = "get_extra_status"
              /\ tasks' = [tasks EXCEPT ![t].st = "none"]
              /\ UNCHANGED <<conn, wire, loads, backend>>
    BY <1>1, <1>4 DEF GivesUp, wires
  <2>2. answers' \in Seq(Reply)
    BY <2>1 DEF ToolsInv, Shape
  <2> QED BY <1>1, <1>2, <2>1, <2>2, TurnKeeps
<1> QED BY <1>3, <1>4

LEMMA TaskStartsKeeps ==
  ASSUME ToolsInv, NEW t \in Actions, TaskStarts(t)
  PROVE  ToolsInv'
<1>1. Shape /\ tasks[t].st = "starting" /\ tasks[t].what \in Targets
  BY DEF TaskStarts, Starts, ToolsInv, TaskInv
<1>2. UNCHANGED <<daemonVars, conn, answers, loads, shown, enabled, screen,
                  troubles, confirmed, done, overlapped>>
  BY DEF TaskStarts
<1> DEFINE cmd == CommandOf(tasks[t].what)
<1>3. /\ cmd \in Commands \ {"get_extra_status"}
      /\ cmd = "restart_service" <=> tasks[t].what \in Units
  BY <1>1, Names DEF CommandOf, Targets
<1>4. PICK st \in {"none", cmd} :
        /\ tasks' = [tasks EXCEPT ![t].st = st]
        /\ st = "none" => wire' = wire
        /\ st = "none" => restarting' = IF tasks[t].what \in Units THEN None
                                                                    ELSE restarting
        /\ st = cmd => Send(t, cmd) /\ restarting' = restarting
  BY <1>3 DEF TaskStarts, MarkAfter, Commands
<1> HIDE DEF cmd
<1>5. /\ tasks' \in [{Load} \cup Actions -> TaskRecord]
      /\ tasks'[t].st = st /\ tasks'[t].what = tasks[t].what
      /\ \A u \in {Load} \cup Actions : u # t => tasks'[u] = tasks[u]
  BY <1>1, <1>3, <1>4, Ending
<1>6. /\ wire' \in Seq(Request)
      /\ \A i \in DOMAIN wire' :
            conn # "up" => i \in DOMAIN wire /\ wire'[i] = wire[i]
  <2>1. CASE st = "none"
    BY <1>1, <1>4, <2>1 DEF Shape
  <2>2. CASE st = cmd
    BY <1>1, <1>3, <1>4, <2>2, Sending
  <2> QED BY <2>1, <2>2
<1> USE <1>2 DEF daemonVars, loads, screen, ToolsInv
<1>7. Shape'
  BY <1>4, <1>5, <1>6, <1>3 DEF Shape
<1>8. TaskInv'
  BY <1>1, <1>3, <1>5, Names DEF TaskInv
<1>9. ConnInv' /\ RefreshInv' /\ ShownOfOneRefresh' /\ EnabledInv' /\ EnabledCurrent'
  BY <1>6 DEF ConnInv, RefreshInv, OneRefresh, ShownOfOneRefresh, EnabledInv,
              EnabledCurrent
<1>10. MarkInv'
  <2>1. tasks[t].what \in Units => t \in UnderWay
    BY <1>1 DEF UnderWay
  <2>2. CASE tasks[t].what \in Units /\ st = "none"
    <3>1. UnderWay' = UnderWay \ {t} /\ restarting' = None
      BY <1>4, <1>5, <1>3, <2>2, Names DEF UnderWay, Commands
    <3> QED BY <1>5, <2>1, <2>2, <3>1 DEF MarkInv
  <2>3. CASE tasks[t].what \notin Units \/ st # "none"
    <3>1. /\ UnderWay' = UnderWay /\ restarting' = restarting
          /\ \A u \in UnderWay : tasks'[u].what = tasks[u].what
      BY <1>1, <1>3, <1>4, <1>5, <2>3 DEF UnderWay
    <3> QED BY <3>1 DEF MarkInv
  <2> QED BY <2>2, <2>3
<1> QED BY <1>7, <1>8, <1>9, <1>10

-----------------------------------------------------------------------------
(* The tools tab's steps. *)

LEMMA ScreenKeeps ==
  ASSUME ToolsInv,
         \/ \E u \in Units : Highlight(u)
         \/ RefreshData \/ Cancel
         \/ \E what \in Targets : Press(what)
         \/ UNCHANGED vars
  PROVE  ToolsInv'
<1>1. /\ UNCHANGED <<daemonVars, conn, wires, tasks, loads, backend, troubles,
                     confirmed, done, overlapped>>
      /\ buttons' \in BOOLEAN /\ selected' \in Units \cup {None}
      /\ dialog' \in Targets \cup {None}
  BY DEF Highlight, RefreshData, Cancel, Press, vars, screen, ToolsInv, Shape
<1> USE <1>1 DEF daemonVars, wires, loads, backend, ToolsInv
<1>2. Shape'
  BY DEF Shape
<1>3. TaskInv' /\ ConnInv' /\ RefreshInv' /\ ShownOfOneRefresh' /\ EnabledInv'
      /\ EnabledCurrent'
  BY DEF TaskInv, ConnInv, RefreshInv, OneRefresh, ShownOfOneRefresh, EnabledInv,
         EnabledCurrent
<1>4. MarkInv'
  BY DEF MarkInv, UnderWay
<1> QED BY <1>2, <1>3, <1>4

LEMMA ConfirmKeeps ==
  ASSUME ToolsInv, NEW t \in Actions, Confirm(t)
  PROVE  ToolsInv'
<1>1. /\ dialog \in Targets /\ tasks[t].what = None /\ dialog' = None
      /\ confirmed' = [confirmed EXCEPT ![dialog] = @ + 1]
      /\ tasks' = [tasks EXCEPT ![t] = [what |-> dialog, st |-> "starting"]]
      /\ restarting' = IF dialog \in Units THEN dialog ELSE restarting
      /\ overlapped' = (overlapped \/ (dialog \in Units /\ UnderWay # {}))
      /\ buttons' = enabled
      /\ UNCHANGED <<daemonVars, conn, wires, loads, shown, enabled, selected,
                     troubles, done>>
  BY DEF Confirm, Target, Mark, Task, ToolsInv, Shape
<1>2. tasks \in [{Load} \cup Actions -> TaskRecord]
  BY DEF ToolsInv, Shape
<1>3. [what |-> dialog, st |-> "starting"] \in TaskRecord
  BY <1>1 DEF TaskRecord
<1>4. /\ tasks' \in [{Load} \cup Actions -> TaskRecord]
      /\ tasks'[t].st = "starting" /\ tasks'[t].what = dialog
      /\ \A u \in {Load} \cup Actions : u # t => tasks'[u] = tasks[u]
  BY <1>1, <1>2, <1>3
<1> USE DEF daemonVars, wires, loads, ToolsInv
<1>5. confirmed' \in [Targets -> Nat] /\ overlapped' \in BOOLEAN
  BY <1>1 DEF Shape
<1>6. Shape'
  BY <1>1, <1>4, <1>5 DEF Shape
<1>7. TaskInv'
  BY <1>1, <1>4, Names DEF TaskInv
<1>8. ConnInv' /\ RefreshInv' /\ ShownOfOneRefresh' /\ EnabledInv' /\ EnabledCurrent'
  BY <1>1 DEF ConnInv, RefreshInv, OneRefresh, ShownOfOneRefresh, EnabledInv,
              EnabledCurrent
<1>9. MarkInv'
  <2>1. t \notin UnderWay
    BY <1>1, Names DEF UnderWay, Targets
  <2>2. CASE dialog \in Units
    <3>1. UnderWay' = UnderWay \cup {t} /\ restarting' = dialog
      BY <1>1, <1>4, <2>2 DEF UnderWay
    <3> QED BY <1>1, <1>4, <2>2, <3>1 DEF MarkInv
  <2>3. CASE dialog \notin Units
    <3>1. /\ UnderWay' = UnderWay /\ restarting' = restarting
          /\ overlapped' = overlapped
          /\ \A u \in UnderWay : tasks'[u].what = tasks[u].what
      <4>1. t \notin UnderWay'
        BY <1>4, <2>3 DEF UnderWay
      <4>2. UnderWay' = UnderWay
        BY <1>4, <2>1, <4>1 DEF UnderWay
      <4>3. \A u \in UnderWay : tasks'[u] = tasks[u]
        BY <1>4, <2>1 DEF UnderWay
      <4>4. overlapped \in BOOLEAN
        BY DEF Shape
      <4> QED BY <1>1, <2>3, <4>2, <4>3, <4>4
    <3> QED BY <3>1 DEF MarkInv
  <2> QED BY <2>2, <2>3
<1> QED BY <1>6, <1>7, <1>8, <1>9

-----------------------------------------------------------------------------
(* Counting requests and tasks. *)

LEMMA AskedFinite ==
  ASSUME NEW S, NEW v \in Seq(S), NEW w
  PROVE  IsFiniteSet(AskedOn(v, w)) /\ Cardinality(AskedOn(v, w)) \in Nat
<1>1. IsFiniteSet(DOMAIN v)
  <2>1. DOMAIN v = 1 .. Len(v) /\ Len(v) \in Nat
    OBVIOUS
  <2> QED BY <2>1, FS_Interval
<1>2. AskedOn(v, w) \subseteq DOMAIN v
  BY DEF AskedOn
<1> QED BY <1>1, <1>2, FS_Subset, FS_CardinalityType

LEMMA AskedBehind ==
  ASSUME NEW S, NEW v \in Seq(S), NEW r \in S, NEW w
  PROVE  Cardinality(AskedOn(Append(v, r), w)) =
            Cardinality(AskedOn(v, w))
              + (IF r.unit = w /\ r.cmd # "get_extra_status" THEN 1 ELSE 0)
<1> DEFINE u == Append(v, r)
           n == Len(v) + 1
<1>1. /\ n \notin DOMAIN v /\ DOMAIN u = DOMAIN v \cup {n} /\ u[n] = r
      /\ \A i \in DOMAIN v : u[i] = v[i]
  <2>1. /\ DOMAIN v = 1 .. Len(v) /\ Len(v) \in Nat /\ DOMAIN u = 1 .. Len(v) + 1
        /\ \A i \in 1 .. Len(v) : u[i] = v[i]
        /\ u[Len(v) + 1] = r
    OBVIOUS
  <2> QED BY <2>1
<1>2. IsFiniteSet(AskedOn(v, w)) /\ Cardinality(AskedOn(v, w)) \in Nat
  BY AskedFinite
<1> HIDE DEF u, n
<1>3. CASE r.unit = w /\ r.cmd # "get_extra_status"
  <2>1. AskedOn(u, w) = AskedOn(v, w) \cup {n} /\ n \notin AskedOn(v, w)
    BY <1>1, <1>3 DEF AskedOn
  <2> QED BY <1>2, <1>3, <2>1, FS_AddElement DEF u
<1>4. CASE ~(r.unit = w /\ r.cmd # "get_extra_status")
  <2>1. AskedOn(u, w) = AskedOn(v, w)
    BY <1>1, <1>4 DEF AskedOn
  <2> QED BY <1>2, <1>4, <2>1 DEF u
<1> QED BY <1>3, <1>4

LEMMA AskedWithout ==
  ASSUME NEW S, NEW v \in Seq(S), NEW i \in DOMAIN v, NEW w, NEW u \in Seq(S),
         Len(u) = Len(v) - 1,
         \A j \in DOMAIN u : u[j] = IF j < i THEN v[j] ELSE v[j + 1]
  PROVE  Cardinality(AskedOn(u, w)) =
            Cardinality(AskedOn(v, w))
              - (IF v[i].unit = w /\ v[i].cmd # "get_extra_status" THEN 1 ELSE 0)
<1> DEFINE A == AskedOn(u, w)
           B == AskedOn(v, w) \ {i}
           f == [j \in A |-> IF j < i THEN j ELSE j + 1]
<1>1. /\ DOMAIN u = 1 .. Len(v) - 1 /\ DOMAIN v = 1 .. Len(v)
      /\ Len(v) \in Nat /\ i \in 1 .. Len(v)
  OBVIOUS
<1>2. \A j \in A : j \in 1 .. Len(v) - 1 /\ f[j] \in B
  BY <1>1 DEF AskedOn
<1>3. \A j, k \in A : f[j] = f[k] => j = k
  BY <1>2
<1>4. \A k \in B : \E j \in A : f[j] = k
  <2> SUFFICES ASSUME NEW k \in B PROVE \E j \in A : f[j] = k
    OBVIOUS
  <2>0. k \in 1 .. Len(v) /\ k # i
    BY <1>1 DEF AskedOn
  <2>1. CASE k < i
    <3>1. k \in A
      BY <1>1, <2>0, <2>1 DEF AskedOn
    <3> QED BY <2>1, <3>1
  <2>2. CASE k > i
    <3>1. k - 1 \in DOMAIN u /\ u[k - 1] = v[k] /\ ~(k - 1 < i)
      BY <1>1, <2>0, <2>2
    <3>2. k - 1 \in A
      BY <3>1 DEF AskedOn
    <3> QED BY <1>1, <2>0, <3>1, <3>2
  <2> QED BY <1>1, <2>0, <2>1, <2>2
<1>5. f \in Bijection(A, B)
  <2>1. f \in [A -> B]
    BY <1>2
  <2> HIDE DEF f, A, B
  <2> QED BY <1>3, <1>4, <2>1 DEF Bijection, Injection, Surjection, IsInjective
<1>6. IsFiniteSet(A)
  BY AskedFinite
<1>7. Cardinality(A) = Cardinality(B)
  <2> HIDE DEF f, A, B
  <2> QED BY <1>5, <1>6, FS_Bijection DEF ExistsBijection
<1>8. IsFiniteSet(AskedOn(v, w)) /\ Cardinality(AskedOn(v, w)) \in Nat
  BY AskedFinite
<1>9. CASE i \in AskedOn(v, w)
  <2>1. Cardinality(B) = Cardinality(AskedOn(v, w)) - 1
    BY <1>8, <1>9, FS_RemoveElement
  <2> QED BY <1>7, <1>9, <2>1 DEF AskedOn
<1>10. CASE i \notin AskedOn(v, w)
  <2>1. B = AskedOn(v, w)
    BY <1>10
  <2>2. ~(v[i].unit = w /\ v[i].cmd # "get_extra_status")
    BY <1>10 DEF AskedOn
  <2> HIDE DEF A, B
  <2>3. Cardinality(AskedOn(u, w)) = Cardinality(AskedOn(v, w))
    BY <1>7, <2>1 DEF A
  <2> QED BY <1>8, <2>2, <2>3
<1> QED BY <1>9, <1>10

LEMMA TasksFinite ==
  ASSUME NEW T \in SUBSET Actions
  PROVE  IsFiniteSet(T) /\ Cardinality(T) \in 0 .. MaxActions
<1>1. IsFiniteSet(Actions) /\ Cardinality(Actions) = MaxActions
  BY ToolsAssumption, FS_Interval DEF Actions
<1>2. IsFiniteSet(T) /\ Cardinality(T) <= Cardinality(Actions)
  BY <1>1, FS_Subset
<1> QED BY <1>1, <1>2, FS_CardinalityType, ToolsAssumption

(* What the steps that send or serve nothing leave to count. *)
LEMMA CountSame ==
  ASSUME ToolsInv, CountInv, UNCHANGED <<confirmed, done>>,
         tasks' \in [{Load} \cup Actions -> TaskRecord],
         \A t \in Actions : /\ tasks'[t].what = tasks[t].what
                            /\ tasks'[t].st = "starting" <=> tasks[t].st = "starting",
         \A w \in Targets :
            Cardinality(AskedOn(wire', w)) <= Cardinality(AskedOn(wire, w)),
         wire' \in Seq(Request)
  PROVE  CountInv'
<1> SUFFICES ASSUME NEW w \in Targets
             PROVE  /\ confirmed[w] = Cardinality(TasksOf(w)')
                    /\ done[w] + Cardinality(Starting(w)')
                          + Cardinality(AskedOn(wire', w)) <= confirmed[w]
  BY DEF CountInv
<1>1. TasksOf(w)' = TasksOf(w) /\ Starting(w)' = Starting(w)
  BY DEF TasksOf, Starting
<1>2. /\ Cardinality(AskedOn(wire', w)) \in Nat
      /\ Cardinality(AskedOn(wire, w)) \in Nat
  BY AskedFinite DEF ToolsInv, Shape
<1>3. /\ done[w] \in Nat /\ confirmed[w] \in Nat
      /\ Cardinality(Starting(w)) \in Nat
  <2>1. Starting(w) \in SUBSET Actions
    BY DEF Starting
  <2> QED BY <2>1, TasksFinite DEF ToolsInv, Shape
<1>4. /\ confirmed[w] = Cardinality(TasksOf(w))
      /\ done[w] + Cardinality(Starting(w)) + Cardinality(AskedOn(wire, w))
            <= confirmed[w]
  BY DEF CountInv
<1>5. Cardinality(AskedOn(wire', w)) <= Cardinality(AskedOn(wire, w))
  OBVIOUS
<1> HIDE DEF ToolsInv
<1> QED BY <1>1, <1>2, <1>3, <1>4, <1>5

LEMMA CountServe ==
  ASSUME ToolsInv, CountInv, Serve
  PROVE  CountInv'
<1>1. PICK i \in DOMAIN wire :
            /\ \/ done' = done
               \/ /\ wire[i].cmd \in {"restart_service", "reboot_system"}
                  /\ done' = [done EXCEPT ![wire[i].unit] = @ + 1]
            /\ wire' = Without(i)
  BY Serving DEF ToolsInv
<1>2. UNCHANGED <<tasks, confirmed>>
  BY DEF Serve
<1>3. wire \in Seq(Request) /\ done \in [Targets -> Nat] /\ confirmed \in [Targets -> Nat]
  BY DEF ToolsInv, Shape
<1>4. /\ wire' \in Seq(Request) /\ Len(wire') = Len(wire) - 1
      /\ \A j \in DOMAIN wire' : wire'[j] = IF j < i THEN wire[j] ELSE wire[j + 1]
  <2>1. i \in DOMAIN wire /\ wire' = SubSeq(wire, 1, i - 1)
                                        \o SubSeq(wire, i + 1, Len(wire))
    BY <1>1 DEF Without
  <2> QED BY <1>3, <2>1, WithoutOne
<1> SUFFICES ASSUME NEW w \in Targets
             PROVE  /\ confirmed[w] = Cardinality(TasksOf(w)')
                    /\ done'[w] + Cardinality(Starting(w)')
                          + Cardinality(AskedOn(wire', w)) <= confirmed[w]
  BY <1>2 DEF CountInv
<1>5. TasksOf(w)' = TasksOf(w) /\ Starting(w)' = Starting(w)
  BY <1>2 DEF TasksOf, Starting
<1>6. Cardinality(AskedOn(wire', w)) =
         Cardinality(AskedOn(wire, w))
           - (IF wire[i].unit = w /\ wire[i].cmd # "get_extra_status" THEN 1 ELSE 0)
  BY <1>3, <1>4, AskedWithout
<1>7. Cardinality(AskedOn(wire, w)) \in Nat /\ Cardinality(Starting(w)) \in Nat
  <2>1. Starting(w) \in SUBSET Actions
    BY DEF Starting
  <2> QED BY <1>3, <2>1, TasksFinite, AskedFinite
<1>8. /\ confirmed[w] = Cardinality(TasksOf(w))
      /\ done[w] + Cardinality(Starting(w)) + Cardinality(AskedOn(wire, w))
            <= confirmed[w]
  BY DEF CountInv
<1>9. /\ done'[w] \in Nat /\ done[w] \in Nat /\ confirmed[w] \in Nat
      /\ done'[w] <= done[w]
            + (IF wire[i].unit = w /\ wire[i].cmd # "get_extra_status" THEN 1 ELSE 0)
  <2>1. CASE done' = done
    BY <1>3, <2>1
  <2>2. CASE /\ wire[i].cmd \in {"restart_service", "reboot_system"}
             /\ done' = [done EXCEPT ![wire[i].unit] = @ + 1]
    BY <1>3, <2>2
  <2> QED BY <1>1, <2>1, <2>2
<1> QED BY <1>5, <1>6, <1>7, <1>8, <1>9

LEMMA CountTaskStarts ==
  ASSUME ToolsInv, CountInv, NEW t \in Actions, TaskStarts(t)
  PROVE  CountInv'
<1> DEFINE cmd == CommandOf(tasks[t].what)
           r == [by |-> t, cmd |-> cmd, unit |-> tasks[t].what]
<1>1. /\ tasks[t].st = "starting" /\ tasks[t].what \in Targets
      /\ UNCHANGED <<confirmed, done>>
  BY DEF TaskStarts, Starts, ToolsInv, TaskInv
<1>2. r \in Request /\ cmd \in Commands \ {"get_extra_status"} /\ r.unit = tasks[t].what
  BY <1>1, Names DEF Request
<1>3. /\ wire \in Seq(Request) /\ done \in [Targets -> Nat]
      /\ confirmed \in [Targets -> Nat]
      /\ tasks \in [{Load} \cup Actions -> TaskRecord]
  BY DEF ToolsInv, Shape
<1>4. PICK st \in {"none", cmd} : tasks' = [tasks EXCEPT ![t].st = st]
  BY DEF TaskStarts
<1>5. wire' \in {wire, Append(wire, r)}
  BY DEF TaskStarts, Send
<1> HIDE DEF cmd, r
<1>6. /\ tasks'[t].st = st /\ st # "starting" /\ tasks'[t].what = tasks[t].what
      /\ \A u \in Actions : u # t => tasks'[u] = tasks[u]
  BY <1>2, <1>3, <1>4, Ending DEF Commands, ToolsInv
<1> SUFFICES ASSUME NEW w \in Targets
             PROVE  /\ confirmed[w] = Cardinality(TasksOf(w)')
                    /\ done[w] + Cardinality(Starting(w)')
                          + Cardinality(AskedOn(wire', w)) <= confirmed[w]
  BY <1>1 DEF CountInv
<1>7. TasksOf(w)' = TasksOf(w)
  BY <1>6 DEF TasksOf
<1>8. /\ Cardinality(AskedOn(wire, w)) \in Nat /\ Cardinality(AskedOn(wire', w)) \in Nat
      /\ Cardinality(AskedOn(wire', w)) <=
            Cardinality(AskedOn(wire, w)) + (IF tasks[t].what = w THEN 1 ELSE 0)
  <2>1. Cardinality(AskedOn(wire, w)) \in Nat
    BY <1>3, AskedFinite
  <2>2. CASE wire' = wire
    BY <2>1, <2>2
  <2>3. CASE wire' = Append(wire, r)
    <3>1. Cardinality(AskedOn(wire', w)) = Cardinality(AskedOn(wire, w))
              + (IF r.unit = w /\ r.cmd # "get_extra_status" THEN 1 ELSE 0)
      BY <1>2, <1>3, <2>3, AskedBehind
    <3> QED BY <1>2, <2>1, <3>1
  <2> QED BY <1>5, <2>2, <2>3
<1>9. /\ Cardinality(Starting(w)) \in Nat
      /\ Cardinality(Starting(w)') =
            Cardinality(Starting(w)) - (IF tasks[t].what = w THEN 1 ELSE 0)
  <2>1. Starting(w) \in SUBSET Actions
    BY DEF Starting
  <2>2. IsFiniteSet(Starting(w)) /\ Cardinality(Starting(w)) \in Nat
    BY <2>1, TasksFinite
  <2>3. Starting(w)' = Starting(w) \ {t} /\ (t \in Starting(w) <=> tasks[t].what = w)
    BY <1>1, <1>6 DEF Starting
  <2>4. Cardinality(Starting(w) \ {t}) =
           IF t \in Starting(w) THEN Cardinality(Starting(w)) - 1
           ELSE Cardinality(Starting(w))
    BY <2>2, FS_RemoveElement
  <2> QED BY <2>2, <2>3, <2>4
<1>10. /\ confirmed[w] = Cardinality(TasksOf(w))
       /\ done[w] + Cardinality(Starting(w)) + Cardinality(AskedOn(wire, w))
             <= confirmed[w]
       /\ done[w] \in Nat /\ confirmed[w] \in Nat
  BY <1>3 DEF CountInv
<1> QED BY <1>7, <1>8, <1>9, <1>10

LEMMA CountConfirm ==
  ASSUME ToolsInv, CountInv, NEW t \in Actions, Confirm(t)
  PROVE  CountInv'
<1>1. /\ dialog \in Targets /\ tasks[t].what = None
      /\ confirmed' = [confirmed EXCEPT ![dialog] = @ + 1]
      /\ tasks' = [tasks EXCEPT ![t] = [what |-> dialog, st |-> "starting"]]
      /\ UNCHANGED <<wire, done>>
  BY DEF Confirm, Target, Task, ToolsInv, Shape, wires
<1>2. /\ wire \in Seq(Request) /\ done \in [Targets -> Nat]
      /\ confirmed \in [Targets -> Nat]
      /\ tasks \in [{Load} \cup Actions -> TaskRecord]
  BY DEF ToolsInv, Shape
<1>3. /\ tasks'[t].st = "starting" /\ tasks'[t].what = dialog
      /\ \A u \in Actions : u # t => tasks'[u] = tasks[u]
  BY <1>1, <1>2
<1> SUFFICES ASSUME NEW w \in Targets
             PROVE  /\ confirmed'[w] = Cardinality(TasksOf(w)')
                    /\ done[w] + Cardinality(Starting(w)')
                          + Cardinality(AskedOn(wire, w)) <= confirmed'[w]
  BY <1>1 DEF CountInv
<1>4. /\ TasksOf(w)' = IF dialog = w THEN TasksOf(w) \cup {t} ELSE TasksOf(w)
      /\ Starting(w)' = IF dialog = w THEN Starting(w) \cup {t} ELSE Starting(w)
      /\ t \notin TasksOf(w) /\ t \notin Starting(w)
  BY <1>1, <1>3, Names DEF TasksOf, Starting
<1>5. /\ IsFiniteSet(TasksOf(w)) /\ Cardinality(TasksOf(w)) \in Nat
      /\ IsFiniteSet(Starting(w)) /\ Cardinality(Starting(w)) \in Nat
  <2>1. TasksOf(w) \in SUBSET Actions /\ Starting(w) \in SUBSET Actions
    BY DEF TasksOf, Starting
  <2> QED BY <2>1, TasksFinite
<1>6. /\ Cardinality(TasksOf(w)') =
            Cardinality(TasksOf(w)) + (IF dialog = w THEN 1 ELSE 0)
      /\ Cardinality(Starting(w)') =
            Cardinality(Starting(w)) + (IF dialog = w THEN 1 ELSE 0)
  <2>1. /\ Cardinality(TasksOf(w) \cup {t}) = Cardinality(TasksOf(w)) + 1
        /\ Cardinality(Starting(w) \cup {t}) = Cardinality(Starting(w)) + 1
    BY <1>4, <1>5, FS_AddElement
  <2> QED BY <1>4, <1>5, <2>1
<1>7. confirmed'[w] = confirmed[w] + (IF dialog = w THEN 1 ELSE 0)
  BY <1>1, <1>2
<1>8. /\ confirmed[w] = Cardinality(TasksOf(w))
      /\ done[w] + Cardinality(Starting(w)) + Cardinality(AskedOn(wire, w))
            <= confirmed[w]
      /\ done[w] \in Nat /\ confirmed[w] \in Nat
      /\ Cardinality(AskedOn(wire, w)) \in Nat
  BY <1>2, AskedFinite DEF CountInv
<1> QED BY <1>5, <1>6, <1>7, <1>8

LEMMA CountStep ==
  ASSUME ToolsInv, CountInv, [Next]_vars
  PROVE  CountInv'
<1>1. /\ wire \in Seq(Request) /\ Shape
      /\ tasks \in [{Load} \cup Actions -> TaskRecord]
      /\ \A w \in Targets : Cardinality(AskedOn(wire, w)) \in Nat
  BY AskedFinite DEF ToolsInv, Shape
<1>2. CASE UNCHANGED <<wire, tasks, confirmed, done>>
  BY <1>1, <1>2, CountSame
<1>3. CASE DaemonRestarts
  <2>1. wire' = <<>> /\ UNCHANGED <<tasks, confirmed, done>>
    BY <1>3 DEF DaemonRestarts
  <2>2. wire' \in Seq(Request) /\ \A w \in Targets : AskedOn(wire', w) = {}
    BY <2>1 DEF AskedOn
  <2>3. \A w \in Targets :
           Cardinality(AskedOn(wire', w)) <= Cardinality(AskedOn(wire, w))
    <3>1. Cardinality({}) = 0
      BY FS_EmptySet
    <3>2. ASSUME NEW w \in Targets
          PROVE  Cardinality(AskedOn(wire', w)) <= Cardinality(AskedOn(wire, w))
      <4>1. Cardinality(AskedOn(wire', w)) = 0 /\ Cardinality(AskedOn(wire, w)) \in Nat
        BY <1>1, <2>2, <3>1
      <4> QED BY <4>1
    <3> QED BY <3>2
  <2> QED BY <1>1, <2>1, <2>2, <2>3, CountSame
<1>4. ASSUME TearDown, UNCHANGED <<confirmed, done>>
      PROVE  CountInv'
  <2>1. /\ wire' \in Seq(Request) /\ DOMAIN wire' = DOMAIN wire
        /\ \A i \in DOMAIN wire : /\ wire'[i].cmd = wire[i].cmd
                                  /\ wire'[i].unit = wire[i].unit
        /\ tasks' \in [{Load} \cup Actions -> TaskRecord]
        /\ \A t \in Actions :
              /\ tasks'[t].what = tasks[t].what
              /\ tasks'[t].st = "starting" <=> tasks[t].st = "starting"
    BY <1>1, <1>4, TearingDown
  <2>2. \A w \in Targets : AskedOn(wire', w) = AskedOn(wire, w)
    BY <2>1 DEF AskedOn
  <2> QED BY <1>1, <1>4, <2>1, <2>2, CountSame
<1>5. ASSUME NEW t \in {Load} \cup Actions, NEW st \in {"none", "get_extra_status"},
             tasks' = [tasks EXCEPT ![t].st = st],
             t = Load \/ tasks[t].st # "starting",
             UNCHANGED <<confirmed, done>>,
             \/ wire' = wire
             \/ \E r \in Request : /\ r.cmd = "get_extra_status"
                                   /\ wire' = Append(wire, r)
      PROVE  CountInv'
  <2>1. /\ tasks' \in [{Load} \cup Actions -> TaskRecord]
        /\ tasks'[t].st = st /\ tasks'[t].what = tasks[t].what
        /\ \A u \in {Load} \cup Actions : u # t => tasks'[u] = tasks[u]
    BY <1>1, <1>5, Ending DEF Commands
  <2>2. \A u \in Actions : /\ tasks'[u].what = tasks[u].what
                           /\ tasks'[u].st = "starting" <=> tasks[u].st = "starting"
    BY <1>5, <2>1, Names
  <2>3. CASE wire' = wire
    BY <1>1, <1>5, <2>1, <2>2, <2>3, CountSame
  <2>4. ASSUME NEW r \in Request, r.cmd = "get_extra_status", wire' = Append(wire, r)
        PROVE  CountInv'
    <3>1. wire' \in Seq(Request)
      BY <1>1, <2>4, Behind
    <3>2. \A w \in Targets :
             Cardinality(AskedOn(wire', w)) <= Cardinality(AskedOn(wire, w))
      <4> SUFFICES ASSUME NEW w \in Targets
                   PROVE Cardinality(AskedOn(wire', w)) <= Cardinality(AskedOn(wire, w))
        OBVIOUS
      <4>1. Cardinality(AskedOn(Append(wire, r), w)) = Cardinality(AskedOn(wire, w))
              + (IF r.unit = w /\ r.cmd # "get_extra_status" THEN 1 ELSE 0)
        BY <1>1, AskedBehind
      <4> QED BY <1>1, <2>4, <4>1
    <3> QED BY <1>5, <2>1, <2>2, <3>1, <3>2, CountSame
  <2> QED BY <1>5, <2>3, <2>4
<1>6. ASSUME NEW t \in {Load} \cup Actions, NEW b \in BOOLEAN, RestartEnded(t, b),
             UNCHANGED <<confirmed, done>>
      PROVE  CountInv'
  <2> DEFINE r == [by |-> t, cmd |-> "get_extra_status", unit |-> tasks[t].what]
  <2>1. r \in Request
    BY <1>1 DEF Request, TaskRecord, Commands
  <2>2. /\ tasks' = [tasks EXCEPT ![t].st = "get_extra_status"]
        /\ tasks[t].st # "starting"
        /\ wire' \in {wire, Append(wire, r)}
    BY <1>6 DEF RestartEnded, Send
  <2>3. r.cmd = "get_extra_status"
    OBVIOUS
  <2> HIDE DEF r
  <2> QED BY <1>5, <1>6, <2>1, <2>2, <2>3
<1>7. ASSUME NEW t \in {Load} \cup Actions, UNCHANGED <<confirmed, done>>,
             \/ RebootEnded(t)
             \/ \E m : StatusCame(t, m)
             \/ /\ tasks[t].st = "get_extra_status"
                /\ tasks' = [tasks EXCEPT ![t].st = "none"]
                /\ wire' = wire
      PROVE  CountInv'
  <2>1. /\ tasks' = [tasks EXCEPT ![t].st = "none"] /\ wire' = wire
        /\ tasks[t].st # "starting"
    BY <1>7 DEF RebootEnded, StatusCame
  <2> QED BY <1>5, <1>7, <2>1
<1>8. CASE ReadAnswer
  <2>1. answers # <<>> /\ UNCHANGED <<confirmed, done>>
    BY <1>8 DEF ReadAnswer
  <2> DEFINE m == Head(answers)
  <2>2. m.by \in {Load} \cup Actions
    <3>1. answers \in Seq(Reply)
      BY <1>1 DEF Shape
    <3>2. m \in Reply
      BY <2>1, <3>1, Front
    <3> QED BY <3>2 DEF Reply
  <2>3. \/ RestartEnded(m.by, TRUE) \/ RebootEnded(m.by) \/ StatusCame(m.by, m)
        \/ UNCHANGED <<conn, wire, tasks, loads, backend>>
    BY <1>8 DEF ReadAnswer
  <2> HIDE DEF m
  <2>4. CASE RestartEnded(m.by, TRUE)
    BY <1>6, <2>1, <2>2, <2>4
  <2>5. CASE RebootEnded(m.by) \/ StatusCame(m.by, m)
    BY <1>7, <2>1, <2>2, <2>5
  <2>6. CASE UNCHANGED <<conn, wire, tasks, loads, backend>>
    BY <1>2, <2>1, <2>6
  <2> QED BY <2>3, <2>4, <2>5, <2>6
<1>9. ASSUME NEW t \in DOMAIN tasks, TimesOut(t) \/ TimesOutEarly(t)
      PROVE  CountInv'
  <2>1. GivesUp(t) /\ t \in {Load} \cup Actions
    BY <1>1, <1>9 DEF TimesOut, TimesOutEarly
  <2>2. UNCHANGED <<confirmed, done>>
    BY <2>1 DEF GivesUp
  <2>3. \/ TearDown \/ RestartEnded(t, FALSE) \/ RebootEnded(t)
        \/ /\ tasks[t].st = "get_extra_status"
           /\ tasks' = [tasks EXCEPT ![t].st = "none"]
           /\ wire' = wire
    BY <2>1 DEF GivesUp, wires
  <2> QED BY <1>4, <1>6, <1>7, <2>1, <2>2, <2>3
<1>10. CASE ConnectionLost
  BY <1>4, <1>10 DEF ConnectionLost
<1>11. CASE Connect
  <2> DEFINE r == [by |-> Load, cmd |-> "get_extra_status", unit |-> None]
  <2>1. /\ tasks' = [tasks EXCEPT ![Load].st = "get_extra_status"]
        /\ wire' = Append(wire, r) /\ UNCHANGED <<confirmed, done>>
    BY <1>11 DEF Connect
  <2>2. r \in Request /\ r.cmd = "get_extra_status" /\ Load \in {Load} \cup Actions
    BY DEF Request, Commands
  <2> HIDE DEF r
  <2> QED BY <1>5, <2>1, <2>2
<1>12. CASE \/ \E through \in 0 .. Len(Sections) : Refresh(through)
            \/ \E u \in Units : Highlight(u)
            \/ RefreshData \/ Cancel
            \/ \E what \in Targets : Press(what)
            \/ UNCHANGED vars
  BY <1>2, <1>12 DEF Refresh, Highlight, RefreshData, Cancel, Press, vars, wires
<1> QED
  BY <1>3, <1>8, <1>9, <1>10, <1>11, <1>12, CountServe, CountTaskStarts, CountConfirm
  DEF Next

-----------------------------------------------------------------------------
(* What the constants are made of has the types of the variables. *)
LEMMA InitHolds ==
  ASSUME Init
  PROVE  ToolsInv /\ CountInv
<1>1. /\ tasks = [t \in {Load} \cup Actions |-> [what |-> None, st |-> "none"]]
      /\ wire = <<>> /\ answers = <<>> /\ cache = NoStatus /\ shown = NoStatus
      /\ conn = "down" /\ loaded = FALSE /\ restarting = None
  BY DEF Init, Task
<1>2. NoStatus \in Statuses /\ \A s \in SectionNames : NoStatus[s] = 0
  BY ToolsAssumption DEF NoStatus, Statuses
<1>3. tasks \in [{Load} \cup Actions -> TaskRecord]
  BY <1>1 DEF TaskRecord
<1>4. wire \in Seq(Request) /\ answers \in Seq(Reply) /\ DOMAIN wire = {}
      /\ DOMAIN answers = {}
  BY <1>1
<1>5. Shape
  <2>1. readings \in 0 .. MaxReadings /\ troubles \in 0 .. MaxTroubles
    BY ToolsAssumption DEF Init
  <2>2. confirmed \in [Targets -> Nat] /\ done \in [Targets -> Nat]
    BY DEF Init
  <2>3. /\ allow \in Configs /\ ready = FALSE /\ enabled = FALSE /\ buttons = TRUE
        /\ selected = None /\ dialog = None /\ overlapped = FALSE
    BY DEF Init
  <2> QED BY <1>1, <1>2, <1>3, <1>4, <2>1, <2>2, <2>3 DEF Shape
<1>6. \A t \in {Load} \cup Actions : tasks[t].what = None /\ tasks[t].st = "none"
  BY <1>1
<1>7. TaskInv /\ MarkInv
  BY <1>1, <1>6 DEF TaskInv, MarkInv, UnderWay
<1>8. ConnInv /\ RefreshInv /\ ShownOfOneRefresh /\ EnabledInv /\ EnabledCurrent
  BY <1>1, <1>2, <1>4
     DEF ConnInv, RefreshInv, OneRefresh, ShownOfOneRefresh, EnabledInv, EnabledCurrent
<1>9. CountInv
  <2> SUFFICES ASSUME NEW w \in Targets
               PROVE  /\ confirmed[w] = Cardinality(TasksOf(w))
                      /\ done[w] + Cardinality(Starting(w))
                            + Cardinality(AskedOn(wire, w)) <= confirmed[w]
    BY DEF CountInv
  <2>1. TasksOf(w) = {} /\ Starting(w) = {} /\ AskedOn(wire, w) = {}
    BY <1>4, <1>6, Names DEF TasksOf, Starting, AskedOn
  <2>2. confirmed[w] = 0 /\ done[w] = 0
    BY DEF Init
  <2> QED BY <2>1, <2>2, FS_EmptySet
<1> QED BY <1>5, <1>7, <1>8, <1>9 DEF ToolsInv

LEMMA ToolsStep ==
  ASSUME ToolsInv, [Next]_vars
  PROVE  ToolsInv'
<1>1. CASE ConnectionLost
  <2>1. /\ TearDown /\ troubles' \in 0 .. MaxTroubles
        /\ UNCHANGED <<daemonVars, screen, confirmed, done, overlapped>>
    BY <1>1 DEF ConnectionLost, ToolsInv, Shape
  <2> QED BY <2>1, TearDownKeeps
<1> QED
  BY <1>1, RefreshKeeps, DaemonRestartsKeeps, ServeKeeps, ConnectKeeps,
     ReadAnswerKeeps, GivesUpKeeps, TaskStartsKeeps, ScreenKeeps, ConfirmKeeps
  DEF Next

IInv == ToolsInv /\ CountInv

LEMMA Inductive == Spec => []IInv
<1>1. Init => IInv
  BY InitHolds DEF IInv
<1>2. IInv /\ [Next]_vars => IInv'
  BY ToolsStep, CountStep DEF IInv
<1> QED BY <1>1, <1>2, PTL DEF Spec

(* Every variable has the shape its comment gives it; nothing is confirmed *)
(* or done more often than there are confirmations.                        *)
THEOREM TypeCorrect == Spec => []TypeOK
<1>1. IInv => TypeOK
  <2> SUFFICES ASSUME IInv PROVE TypeOK
    OBVIOUS
  <2>1. Shape
    BY DEF IInv, ToolsInv
  <2>2. ASSUME NEW w \in Targets
        PROVE  confirmed[w] \in 0 .. MaxActions /\ done[w] \in 0 .. MaxActions
    <3>1. TasksOf(w) \in SUBSET Actions /\ Starting(w) \in SUBSET Actions
      BY DEF TasksOf, Starting
    <3>2. /\ Cardinality(TasksOf(w)) \in 0 .. MaxActions
          /\ Cardinality(Starting(w)) \in Nat
      BY <3>1, TasksFinite
    <3>3. Cardinality(AskedOn(wire, w)) \in Nat
      BY <2>1, AskedFinite DEF Shape
    <3>4. /\ confirmed[w] = Cardinality(TasksOf(w))
          /\ done[w] + Cardinality(Starting(w)) + Cardinality(AskedOn(wire, w))
                <= confirmed[w]
      BY DEF IInv, CountInv
    <3>5. done[w] \in Nat
      BY <2>1 DEF Shape
    <3> QED BY <3>2, <3>3, <3>4, <3>5, ToolsAssumption
  <2>3. confirmed \in [Targets -> 0 .. MaxActions] /\ done \in [Targets -> 0 .. MaxActions]
    BY <2>1, <2>2 DEF Shape
  <2> QED BY <2>1, <2>3 DEF Shape, TypeOK, Request, Reply, TaskRecord
<1> QED BY <1>1, Inductive, PTL

(* A unit is restarted, and the server, no more often than the user has    *)
(* said yes to that very one, however many timeouts, reconnections and     *)
(* restarts of the daemon come between (_restart_service).                 *)
THEOREM DoneOnlyAsConfirmed == Spec => []DoneWasConfirmed
<1>1. IInv => DoneWasConfirmed
  <2> SUFFICES ASSUME IInv, NEW w \in Targets PROVE done[w] <= confirmed[w]
    BY DEF DoneWasConfirmed
  <2>1. Cardinality(Starting(w)) \in Nat /\ Cardinality(AskedOn(wire, w)) \in Nat
    <3>1. Starting(w) \in SUBSET Actions
      BY DEF Starting
    <3> QED BY <3>1, TasksFinite, AskedFinite DEF IInv, ToolsInv, Shape
  <2>2. done[w] \in Nat /\ confirmed[w] \in Nat
    BY DEF IInv, ToolsInv, Shape
  <2> QED BY <2>1, <2>2 DEF IInv, CountInv
<1> QED BY <1>1, Inductive, PTL

(* The row says "reiniciando..." of a service whose restart is under way,  *)
(* and says it whenever one is, unless two have overlapped                 *)
(* (_restarting_service).                                                  *)
THEOREM RestartIsShown == Spec => []RestartShown
<1>1. IInv => RestartShown
  <2> SUFFICES ASSUME IInv PROVE RestartShown
    OBVIOUS
  <2>1. MarkInv /\ Shape /\ TaskInv
    BY DEF IInv, ToolsInv
  <2>2. \A t \in UnderWay : tasks[t].what # None
    BY Names DEF UnderWay, Targets
  <2> QED BY <2>1, <2>2 DEF MarkInv, RestartShown
<1> QED BY <1>1, Inductive, PTL

(* While a connection lasts, the buttons go by the config of the daemon    *)
(* that runs (_apply_extra_status).                                        *)
THEOREM EnabledIsCurrent == Spec => []EnabledCurrent
<1>1. IInv => EnabledCurrent
  BY DEF IInv, ToolsInv
<1> QED BY <1>1, Inductive, PTL

(* What the tab shows is of one refresh, the updates aside, whatever fails *)
(* and however the answers of two refreshes follow each other              *)
(* (run_extra_status_refresh).                                             *)
THEOREM OneRefreshIsShown == Spec => []ShownOfOneRefresh
<1>1. IInv => ShownOfOneRefresh
  BY DEF IInv, ToolsInv
<1> QED BY <1>1, Inductive, PTL

=============================================================================
