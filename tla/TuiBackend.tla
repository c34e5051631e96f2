----------------------------- MODULE TuiBackend -----------------------------
(***************************************************************************)
(* OmniaBackend of omnia-tui, one connection at a time, with the daemon    *)
(* behind the socket reduced to what reaches this client.                  *)
(*                                                                         *)
(* Three kinds of coroutine share the connection: run_forever's (it        *)
(* connects, subscribes, loads the initial state and then awaits the read  *)
(* task), the read task, and the short-lived ones of tick and of the       *)
(* buttons.  The read task only completes a future; the coroutine that     *)
(* awaits it runs later, and lines may be read in between.                 *)
(*                                                                         *)
(* Login events are numbered in the order of their rows.  Of what the      *)
(* screens show, the login history and the state of the speedtest button   *)
(* are kept; the other answers are received and not stored.  Of the app,   *)
(* the one-second tick and whether it has shown the tabs.                  *)
(***************************************************************************)
EXTENDS Naturals, Sequences, FiniteSets

CONSTANTS
    HistoryLimit,   \* _MAX_LOGIN_HISTORY
    LineLimit,      \* rows of an answer that fit the StreamReader's 64 KiB
    MaxLogins,      \* bound: rows of login_events
    MaxTests,       \* bound: speed tests ever scheduled or asked for
    MaxTroubles     \* bound: early timeouts, error answers, lost results,
                    \* deaths of the daemon

ASSUME LimitAssumption ==
    /\ HistoryLimit \in Nat \ {0} /\ LineLimit \in Nat
    /\ MaxLogins \in Nat /\ MaxTests \in Nat
    /\ MaxTroubles \in Nat

Tasks == {"load", "sessions", "speedtest"}

(* The requests of _connect_and_run, in its order. *)
LoadSteps ==
    <<"subscribe", "get_snapshot", "get_login_history", "get_keys",
      "get_speedtest_history", "get_extra_status", "get_alerts">>

Loaded == Len(LoadSteps) + 1

Commands == {LoadSteps[i] : i \in DOMAIN LoadSteps} \cup {"run_speedtest"}

Ids == Nat \ {0}

NoCall == [st |-> "none"]
Failed == [st |-> "failed"]

VARIABLES
    daemon,     \* up; rows: of login_events; pushed: those broadcast;
                \* client: what it has of this one, "none", "open" or
                \* "subscribed"; tests: speed tests running
    toDaemon,   \* requests the daemon has not read
    toClient,   \* lines the read task has not read
    conn,       \* _writer and connection_state: "down", "up"
    step,       \* the request of LoadSteps in hand, or Loaded
    reader,     \* the read task: "off", "reading", "ended" by an exception
    calls,      \* the _send_and_wait of each task, if any
    ready,
    history,    \* login_history, newest first
    testing,    \* speedtest_running
    tabs,       \* the app shows the tabs in place of "Carregando Omnia..."
    troubles, tested,   \* bounded counters
    raced,      \* history: a push crossed the answer to get_login_history
    missed      \* history: a result this client waited for went astray

wires == <<toDaemon, toClient>>
link == <<conn, step, reader>>
screen == <<ready, history, testing>>
counters == <<troubles, tested>>
notes == <<raced, missed>>
backend == <<daemon, wires, link, calls, screen, counters, notes>>
vars == <<backend, tabs>>

Init ==
    /\ daemon \in {[up |-> TRUE, rows |-> n, pushed |-> n,
                    client |-> "none", tests |-> 0] : n \in 0 .. MaxLogins}
    /\ toDaemon = <<>> /\ toClient = <<>>
    /\ conn = "down" /\ step = 0 /\ reader = "off"
    /\ calls = [t \in Tasks |-> NoCall]
    /\ ready = FALSE /\ history = <<>> /\ testing = FALSE /\ tabs = FALSE
    /\ troubles = 0 /\ tested = 0
    /\ raced = FALSE /\ missed = FALSE

Trouble ==
    /\ troubles < MaxTroubles
    /\ troubles' = troubles + 1
    /\ UNCHANGED tested

OneMoreTest ==
    /\ tested < MaxTests
    /\ tested' = tested + 1

Atmost(m, n) == IF m < n THEN m ELSE n

(* The rows a query of the n first logins returns, newest first. *)
Newest(n) == [i \in 1 .. Atmost(n, HistoryLimit) |-> n + 1 - i]

Waits(t) == calls[t].st = "waiting"

IdsInUse ==
    {calls[t].id : t \in {u \in Tasks : Waits(u)}}
        \cup {toDaemon[i].id : i \in DOMAIN toDaemon}
        \cup {toClient[i].id :
                 i \in {j \in DOMAIN toClient : toClient[j].kind = "answer"}}

(* The code counts up for ever; an id nothing in flight carries is as good *)
(* as a new one.                                                           *)
FreshId == CHOOSE id \in 1 .. Cardinality(IdsInUse) + 1 : id \notin IdsInUse

Eof == [kind |-> "eof"]
LoginEvent(n) == [kind |-> "login_event", row |-> n]
SpeedtestResult == [kind |-> "speedtest_result"]

ResultOnItsWay == \E i \in DOMAIN toClient : toClient[i] = SpeedtestResult

-----------------------------------------------------------------------------
(* Plausible bugs, one for each property the runs check: none is in Next.  *)

(* The initial state is loaded before the read task is created. *)
ReaderOf(next) == IF next = Loaded THEN "reading" ELSE "off"

(* The answer goes to whoever waits for that command, whatever its id. *)
WaiterOfCommand(m) == {t \in Tasks : Waits(t) /\ calls[t].cmd = m.cmd}

(* A pushed login is put in front and nothing is cut off. *)
WithLoginUncut(n) == <<n>> \o history

(* A failed request leaves the button as it is. *)
TestingAfterNothing(call) == testing

(* The wait for an answer has no timeout. *)
NeverOverdue(t) == FALSE

-----------------------------------------------------------------------------
(* The daemon, as this client meets it.                                    *)

(* broadcast writes to a client that has subscribed. *)
Deliver(lines) ==
    toClient' = IF daemon.client = "subscribed" THEN toClient \o lines ELSE toClient

(* The ingest stores a login and makes a task that will broadcast it. *)
Login ==
    /\ daemon.up
    /\ daemon.rows < MaxLogins
    /\ daemon' = [daemon EXCEPT !.rows = @ + 1]
    /\ UNCHANGED <<wires, link, calls, screen, counters, notes>>

(* That task runs. *)
Push ==
    /\ daemon.up
    /\ daemon.pushed < daemon.rows
    /\ daemon' = [daemon EXCEPT !.pushed = @ + 1]
    /\ Deliver(<<LoginEvent(daemon.pushed + 1)>>)
    /\ UNCHANGED <<toDaemon, link, calls, screen, counters, notes>>

(* run_speedtest_schedule, or another client. *)
ScheduledTest ==
    /\ daemon.up
    /\ OneMoreTest
    /\ daemon' = [daemon EXCEPT !.tests = @ + 1]
    /\ UNCHANGED <<wires, link, calls, screen, troubles, notes>>

TestEnds ==
    /\ daemon.tests > 0
    /\ daemon' = [daemon EXCEPT !.tests = @ - 1]
    /\ Deliver(<<SpeedtestResult>>)
    /\ missed' = (missed \/ (testing /\ daemon.client # "subscribed"))
    /\ UNCHANGED <<toDaemon, link, calls, screen, counters, raced>>

(* insert_speedtest_result raises: nothing is broadcast. *)
TestResultLost ==
    /\ daemon.tests > 0
    /\ daemon' = [daemon EXCEPT !.tests = @ - 1]
    /\ missed' = (missed \/ testing)
    /\ Trouble
    /\ UNCHANGED <<wires, link, calls, screen, raced>>

(* _handle_client and _dispatch.  A handler computes its data and writes   *)
(* its answer without letting anything run in between.                     *)
Serve ==
    /\ daemon.up
    /\ toDaemon # <<>>
    /\ LET cmd == Head(toDaemon).cmd IN
        /\ toDaemon' = Tail(toDaemon)
        /\ toClient' = Append(toClient,
              [kind |-> "answer", id |-> Head(toDaemon).id, cmd |-> cmd,
               ok |-> TRUE,
               data |-> IF cmd = "get_login_history" THEN daemon.rows ELSE 0])
        /\ daemon' = [daemon EXCEPT
              !.client = IF cmd = "subscribe" THEN "subscribed" ELSE @,
              !.tests = IF cmd = "run_speedtest" THEN @ + 1 ELSE @]
        /\ raced' = (raced \/ /\ cmd = "get_login_history"
                              /\ daemon.pushed < daemon.rows)
    /\ UNCHANGED <<link, calls, screen, counters, missed>>

(* The handler raises and the answer says so. *)
ServeFails ==
    /\ daemon.up
    /\ toDaemon # <<>>
    /\ toDaemon' = Tail(toDaemon)
    /\ toClient' = Append(toClient,
          [kind |-> "answer", id |-> Head(toDaemon).id,
           cmd |-> Head(toDaemon).cmd, ok |-> FALSE, data |-> 0])
    /\ Trouble
    /\ UNCHANGED <<daemon, link, calls, screen, notes>>

(* The daemon dies or is stopped.  Its tables are on disk; its tasks, what *)
(* it had not read and perhaps the last of what it had written are gone.   *)
DaemonDies ==
    /\ daemon.up
    /\ Trouble
    /\ daemon' = [daemon EXCEPT !.up = FALSE, !.pushed = daemon.rows,
                                !.client = "none", !.tests = 0]
    /\ toDaemon' = <<>>
    /\ \/ /\ daemon.client # "none"
          /\ \E n \in 0 .. Len(toClient) :
                toClient' = Append(SubSeq(toClient, 1, n), Eof)
       \/ daemon.client = "none" /\ UNCHANGED toClient
    /\ missed' = (missed \/ (testing /\ (daemon.tests > 0 \/ ResultOnItsWay)))
    /\ UNCHANGED <<link, calls, screen, raced>>

(* systemd starts it again. *)
DaemonStarts ==
    /\ ~daemon.up
    /\ daemon' = [daemon EXCEPT !.up = TRUE]
    /\ UNCHANGED <<wires, link, calls, screen, counters, notes>>

-----------------------------------------------------------------------------
(* _send_and_wait, up to the await of its future.                          *)

Waiting(t, cmd) ==
    calls' = [calls EXCEPT ![t] = [st |-> "waiting", id |-> FreshId, cmd |-> cmd]]

Sent(cmd) == Append(toDaemon, [id |-> FreshId, cmd |-> cmd])

(* Without a connection it raises; what is written to one whose daemon is  *)
(* dead is lost.                                                           *)
Ask(t, cmd) ==
    IF conn = "up"
       THEN /\ Waiting(t, cmd)
            /\ toDaemon' = IF daemon.client = "none" THEN toDaemon ELSE Sent(cmd)
       ELSE /\ calls' = [calls EXCEPT ![t] = Failed]
            /\ UNCHANGED toDaemon

(* No answer can come any more: the timeout is the only way out. *)
Overdue(t) == Waits(t) /\ reader # "reading"

TimeOut(t) ==
    /\ calls' = [calls EXCEPT ![t] = Failed]
    /\ UNCHANGED <<daemon, wires, link, screen, notes>>

(* The daemon is slow. *)
TimesOutEarly(t) ==
    /\ Waits(t)
    /\ Trouble
    /\ TimeOut(t)

TimesOut(t) ==
    /\ Overdue(t)
    /\ UNCHANGED counters
    /\ TimeOut(t)

-----------------------------------------------------------------------------
(* The read task.                                                          *)

(* The one who asked: nobody, when the wait timed out before the answer.   *)
Waiter(m) == {t \in Tasks : Waits(t) /\ calls[t].id = m.id}

(* Longer than the reader's limit: readline raises. *)
TooLong(m) ==
    /\ m.kind = "answer" /\ m.ok /\ m.cmd = "get_login_history"
    /\ Atmost(m.data, HistoryLimit) > LineLimit

(* _apply_new_login_event. *)
WithLogin(n) == SubSeq(<<n>> \o history, 1, Atmost(Len(history) + 1, HistoryLimit))

ReadEnds ==
    /\ reader = "reading"
    /\ toClient # <<>>
    /\ Head(toClient) = Eof \/ TooLong(Head(toClient))
    /\ reader' = "ended"
    /\ toClient' = Tail(toClient)
    /\ UNCHANGED <<daemon, toDaemon, conn, step, calls, screen, counters, notes>>

ReadAnswer ==
    /\ reader = "reading"
    /\ toClient # <<>>
    /\ LET m == Head(toClient) IN
        /\ m.kind = "answer"
        /\ ~TooLong(m)
        /\ calls' = [t \in Tasks |->
              IF t \in Waiter(m)
                 THEN [st |-> IF m.ok THEN "answered" ELSE "failed",
                       cmd |-> calls[t].cmd, data |-> m.data,
                       mine |-> m.id = calls[t].id /\ m.cmd = calls[t].cmd]
                 ELSE calls[t]]
    /\ toClient' = Tail(toClient)
    /\ UNCHANGED <<daemon, toDaemon, link, screen, counters, notes>>

(* A login that is applied while the history's answer waits to be: it will *)
(* be replaced by it.                                                      *)
ReadLoginEvent ==
    /\ reader = "reading"
    /\ toClient # <<>>
    /\ Head(toClient).kind = "login_event"
    /\ history' = WithLogin(Head(toClient).row)
    /\ raced' = (raced \/ /\ calls["load"].st = "answered"
                          /\ calls["load"].cmd = "get_login_history")
    /\ toClient' = Tail(toClient)
    /\ UNCHANGED <<daemon, toDaemon, link, calls, ready, testing,
                   counters, missed>>

ReadSpeedtestResult ==
    /\ reader = "reading"
    /\ toClient # <<>>
    /\ Head(toClient) = SpeedtestResult
    /\ testing' = FALSE
    /\ toClient' = Tail(toClient)
    /\ UNCHANGED <<daemon, toDaemon, link, calls, ready, history,
                   counters, notes>>

-----------------------------------------------------------------------------
(* run_forever, _connect_and_run and _load_initial_state.                  *)

(* The read task runs before the first request is sent. *)
ReaderAt(next) == "reading"

(* An attempt that finds no daemon changes nothing. *)
Connect ==
    /\ conn = "down"
    /\ daemon.up
    /\ conn' = "up"
    /\ step' = 1
    /\ reader' = ReaderAt(1)
    /\ daemon' = [daemon EXCEPT !.client = "open"]
    /\ Waiting("load", LoadSteps[1])
    /\ toDaemon' = Sent(LoadSteps[1])
    /\ raced' = FALSE
    /\ UNCHANGED <<toClient, screen, counters, missed>>

(* The answer is applied and the next request sent in one go. *)
LoadGoesOn ==
    /\ calls["load"].st = "answered"
    /\ step' = step + 1
    /\ reader' = IF reader = "off" THEN ReaderAt(step') ELSE reader
    /\ history' = IF LoadSteps[step] = "get_login_history"
                     THEN Newest(calls["load"].data) ELSE history
    /\ IF step < Len(LoadSteps)
          THEN Ask("load", LoadSteps[step + 1]) /\ UNCHANGED ready
          ELSE /\ ready' = TRUE
               /\ calls' = [calls EXCEPT !["load"] = NoCall]
               /\ UNCHANGED toDaemon
    /\ UNCHANGED <<daemon, toClient, conn, testing, counters, notes>>

(* The connection is closed, every future still waiting is failed; what    *)
(* the screens show stays, ready included.                                 *)
TearDown ==
    /\ \/ calls["load"].st = "failed"
       \/ step = Loaded /\ reader = "ended"
    /\ conn' = "down"
    /\ step' = 0
    /\ reader' = "off"
    /\ toDaemon' = <<>> /\ toClient' = <<>>
    /\ calls' = [t \in Tasks |-> IF t = "load" THEN NoCall
                                 ELSE IF Waits(t) THEN Failed ELSE calls[t]]
    /\ daemon' = [daemon EXCEPT !.client = "none"]
    /\ missed' = (missed \/ (testing /\ ResultOnItsWay))
    /\ UNCHANGED <<screen, counters, raced>>

-----------------------------------------------------------------------------
(* tick and the speedtest button.                                          *)

(* _sessions_inflight is set exactly while the refresh is under way. *)
Tick ==
    /\ ready
    /\ calls["sessions"].st = "none"
    /\ Ask("sessions", "get_snapshot")
    /\ UNCHANGED <<daemon, toClient, link, screen, counters, notes>>

(* Not ready, or the last refresh is still out: tick returns at once. *)
IdleTick ==
    /\ ~ready \/ calls["sessions"].st # "none"
    /\ UNCHANGED backend

(* OmniaApp._tick: the tabs are shown once ready has become true between   *)
(* the reading of was_ready and the test after backend.tick().             *)
AppTick ==
    /\ Tick \/ IdleTick
    /\ tabs' = (tabs \/ (~ready /\ ready'))

SessionsRefreshed ==
    /\ calls["sessions"].st \in {"answered", "failed"}
    /\ calls' = [calls EXCEPT !["sessions"] = NoCall]
    /\ UNCHANGED <<daemon, wires, link, screen, counters, notes>>

(* A call of start_speed_test.  Who would make it is the speedtest tab, in *)
(* an app that shows its tabs.                                             *)
StartSpeedTest ==
    /\ ready
    /\ ~testing
    /\ calls["speedtest"].st = "none"
    /\ OneMoreTest
    /\ testing' = TRUE
    /\ missed' = FALSE
    /\ Ask("speedtest", "run_speedtest")
    /\ UNCHANGED <<daemon, toClient, link, ready, history,
                   troubles, raced>>

TestingAfter(call) == IF call.st = "failed" THEN FALSE ELSE testing

SpeedTestAsked ==
    /\ calls["speedtest"].st \in {"answered", "failed"}
    /\ testing' = TestingAfter(calls["speedtest"])
    /\ calls' = [calls EXCEPT !["speedtest"] = NoCall]
    /\ UNCHANGED <<daemon, wires, link, ready, history, counters, notes>>

-----------------------------------------------------------------------------
Read == ReadEnds \/ ReadAnswer \/ ReadLoginEvent \/ ReadSpeedtestResult

BackendStep ==
    \/ Login \/ Push \/ ScheduledTest \/ TestEnds \/ TestResultLost
    \/ Serve \/ ServeFails \/ DaemonDies \/ DaemonStarts
    \/ \E t \in Tasks : TimesOutEarly(t) \/ TimesOut(t)
    \/ Read
    \/ Connect \/ LoadGoesOn \/ TearDown
    \/ SessionsRefreshed \/ StartSpeedTest \/ SpeedTestAsked

Next == AppTick \/ (BackendStep /\ UNCHANGED tabs)

Spec == Init /\ [][Next]_vars

(* Both event loops run what can run, the daemon is started again, tests   *)
(* end, timeouts fire, the client tries again and the app's interval timer *)
(* ticks.  Nobody has to press a button, and no login has to come.         *)
Fairness ==
    /\ WF_backend(DaemonStarts) /\ WF_backend(Push) /\ WF_backend(TestEnds)
    /\ WF_backend(Serve)
    /\ WF_backend(Read)
    /\ WF_backend(Connect) /\ WF_backend(LoadGoesOn) /\ WF_backend(TearDown)
    /\ WF_backend(SessionsRefreshed) /\ WF_backend(SpeedTestAsked)
    /\ WF_vars(AppTick)
    /\ \A t \in Tasks : WF_backend(TimesOut(t))

FairSpec == Spec /\ Fairness

-----------------------------------------------------------------------------
Request == [id : Ids, cmd : Commands]

Line == {Eof, SpeedtestResult} \cup {LoginEvent(n) : n \in 1 .. MaxLogins}
    \cup [kind : {"answer"}, id : Ids, cmd : Commands, ok : BOOLEAN,
          data : 0 .. MaxLogins]

Call == {NoCall, Failed} \cup [st : {"waiting"}, id : Ids, cmd : Commands]
    \cup [st : {"answered", "failed"}, cmd : Commands,
          data : 0 .. MaxLogins, mine : BOOLEAN]

(* The type invariant: every variable has the shape its comment gives it.  *)
TypeOK ==
    /\ daemon \in [up : BOOLEAN, rows : 0 .. MaxLogins, pushed : 0 .. MaxLogins,
                   tests : Nat,
                   client : {"none", "open", "subscribed"}]
    /\ toDaemon \in Seq(Request)
    /\ toClient \in Seq(Line)
    /\ conn \in {"down", "up"}
    /\ step \in 0 .. Loaded
    /\ reader \in {"off", "reading", "ended"}
    /\ calls \in [Tasks -> Call]
    /\ ready \in BOOLEAN /\ testing \in BOOLEAN /\ tabs \in BOOLEAN
    /\ history \in Seq(1 .. MaxLogins)
    /\ troubles \in 0 .. MaxTroubles
    /\ tested \in 0 .. MaxTests
    /\ raced \in BOOLEAN /\ missed \in BOOLEAN

(* What the answer a coroutine holds was asked for. *)
AnswerTo(call) == IF call.mine THEN call.cmd ELSE "another request"

Exchange(call) ==
    CASE call.st = "none" -> [st |-> "idle"]
      [] call.st = "waiting" -> [st |-> "asked", request |-> call.cmd]
      [] call.st = "answered" ->
            [st |-> "answered", request |-> AnswerTo(call)]
      [] call.st = "failed" -> [st |-> "failed"]

Abstract == INSTANCE RequestReply WITH
    Callers <- Tasks, Requests <- Commands,
    exchange <- [t \in Tasks |-> Exchange(calls[t])]

(* The coroutines' requests implement RequestReply: what each goes on with *)
(* is the answer to its own request, also after a timeout whose answer     *)
(* comes late and after a reconnection (_read_loop, _send_and_wait,        *)
(* _fail_pending_requests).                                                *)
ImplementsRequestReply == Abstract!Spec

OnItsWay(n) == \E i \in DOMAIN toClient : toClient[i] = LoginEvent(n)

(* Once the history has been loaded the screen shows the newest logins,    *)
(* each once and newest first, up to those on their way -- if no push      *)
(* crossed the answer that brought the history: none was due when the      *)
(* daemon answered, none was read before the answer was applied            *)
(* (_apply_login_history, _apply_new_login_event).                         *)
HistoryShown ==
    step > 3 /\ ~raced =>
        /\ \E n \in 0 .. daemon.rows : history = Newest(n)
        /\ daemon.client = "subscribed" /\ reader = "reading" =>
              \A n \in 1 .. daemon.pushed :
                  \/ OnItsWay(n)
                  \/ history # <<>> /\ n <= history[1]

(* While the button says a test is running its request is under way, a     *)
(* test runs on the daemon or a result is on its way: unless a result went *)
(* astray, with the connection or the daemon's failure to store it.        *)
SpeedtestRunning ==
    testing =>
        \/ calls["speedtest"].st # "none"
        \/ daemon.tests > 0
        \/ ResultOnItsWay
        \/ missed

(* Every request of every coroutine comes back, with an answer or without: *)
(* whatever the daemon and the connection do in the meantime.              *)
EveryCallReturns ==
    \A t \in Tasks : Waits(t) ~> ~Waits(t)

(* The initial state is loaded at last, through a daemon that dies, is     *)
(* slow or answers with an error meanwhile (run_forever).                  *)
EventuallyReady == <>ready

(* "connects to the daemon's socket and renders the dashboard: 5 panels"   *)
(* (README): once the backend is ready the tabs are shown (_tick).         *)
DashboardShown == ready ~> tabs

=============================================================================
