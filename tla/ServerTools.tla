----------------------------- MODULE ServerTools -----------------------------
(***************************************************************************)
(* The tools tab from end to end: run_extra_status_refresh filling the     *)
(* daemon's cache, get_extra_status, restart_service and reboot_system,    *)
(* the backend's tasks that call them, and the buttons with their          *)
(* confirmation.                                                           *)
(*                                                                         *)
(* Of a section of the status only the refresh it was read in is kept: a   *)
(* number, 0 for a section that is not there.  The other requests of the   *)
(* connection are those of TuiBackend, where it also shows that app.py     *)
(* never unhides the tabs: this is the tools tab of an app that does.      *)
(***************************************************************************)
EXTENDS Naturals, Sequences, FiniteSets

CONSTANTS
    Units,          \* _KEY_SERVICE_UNITS
    Server,         \* what reboot_system restarts
    None,           \* no unit
    Features,       \* [features]: the sections of the status that are read
    Configs,        \* the switches on in a config: of allow_service_restart
                    \* and allow_reboot
    MaxActions,     \* bound: confirmed restarts and reboots
    MaxReadings,    \* bound: refreshes of the extra status
    MaxTroubles     \* bound: early timeouts, daemons that stop

ASSUME ToolsAssumption ==
    /\ IsFiniteSet(Units) /\ {Server, None} \cap Units = {} /\ Server # None
    /\ Features \subseteq {"docker", "fail2ban", "updates", "smart"}
    /\ Configs \subseteq SUBSET {"restart_service", "reboot_system"}
    /\ MaxActions \in Nat /\ MaxReadings \in Nat /\ MaxTroubles \in Nat

(* In the order in which a refresh reads them. *)
Sections ==
    SelectSeq(<<"services", "docker", "fail2ban", "updates", "smart">>,
              LAMBDA s : s \in Features \cup {"services"})

SectionNames == {Sections[i] : i \in DOMAIN Sections}
Statuses == [SectionNames -> 0 .. MaxReadings]
NoStatus == [s \in SectionNames |-> 0]

Load == 0
Actions == 1 .. MaxActions
Orphan == MaxActions + 1        \* who asked is not connected any more
Targets == Units \cup {Server}

VARIABLES
    cache,      \* _extra_status_cache
    readings,   \* refreshes so far
    allow,      \* the switches of the running daemon
    conn,       \* the panel's connection: "down", "up", "eof" when the daemon
                \* has closed it and the panel has not read so
    wire,       \* requests the daemon has not read: [by, cmd, unit]
    answers,    \* answers the panel has not read: [by, cmd, status, danger]
    tasks,      \* Load and each confirmed action: [what, st]
    loaded,     \* the load of this connection is through
    ready,      \* a load has ever been
    shown,      \* what the backend keeps of the status
    enabled,    \* backend.dangerous_actions_enabled
    restarting, \* _restarting_service
    buttons,    \* the two buttons are enabled
    selected,   \* the tools tab's selected_service
    dialog,     \* what the open confirmation is about, or None
    troubles,   \* bounded counter
    confirmed, done,    \* history: how often each was said yes to, and done
    overlapped          \* history: two restarts were under way at once

daemonVars == <<cache, readings, allow>>
wires == <<wire, answers>>
loads == <<loaded, ready>>
backend == <<shown, enabled, restarting>>
screen == <<buttons, selected, dialog>>
vars == <<daemonVars, conn, wires, tasks, loads, backend, screen, troubles,
          confirmed, done, overlapped>>

Task(what, st) == [what |-> what, st |-> st]

Init ==
    /\ cache = NoStatus /\ readings = 0
    /\ allow \in Configs
    /\ conn = "down" /\ wire = <<>> /\ answers = <<>>
    /\ tasks = [t \in {Load} \cup Actions |-> Task(None, "none")]
    /\ loaded = FALSE /\ ready = FALSE
    /\ shown = NoStatus /\ enabled = FALSE /\ restarting = None
    /\ buttons = TRUE /\ selected = None /\ dialog = None
    /\ troubles = 0
    /\ confirmed = [w \in Targets |-> 0] /\ done = [w \in Targets |-> 0]
    /\ overlapped = FALSE

Trouble == troubles < MaxTroubles /\ troubles' = troubles + 1

(* From the button to the end of its request. *)
UnderWay ==
    {t \in Actions : tasks[t].what \in Units
                         /\ tasks[t].st \in {"starting", "restart_service"}}

-----------------------------------------------------------------------------
(* Plausible bugs, one for each property the runs check: none is in Next.  *)

(* The unit is looked up when the dialog returns. *)
TargetSelected == IF selected = None THEN dialog ELSE selected

(* The mark is taken away by an answer only: no finally. *)
MarkAfterAnswer(answered) == IF answered THEN None ELSE restarting

(* Without a connection a request waits for one. *)
StartsConnected(t) == tasks[t].st = "starting" /\ conn # "down"

(* The switch is turned on and never off. *)
StaysEnabled(danger) == enabled \/ danger

(* The dictionary is made once, before the loop. *)
FromLastRefresh == cache

-----------------------------------------------------------------------------
(* run_extra_status_refresh.                                               *)

BlankStatus == NoStatus

(* The checks run in a thread, one after the other, and nobody sees what   *)
(* they have read until the refresh is through, or one of them raises:     *)
(* then what has been read is stored.                                      *)
Refresh(through) ==
    /\ readings < MaxReadings
    /\ readings' = readings + 1
    /\ cache' = [s \in SectionNames |->
          IF \E i \in 1 .. through : Sections[i] = s THEN readings' ELSE BlankStatus[s]]
    /\ UNCHANGED <<allow, conn, wires, tasks, loads, backend, screen, troubles,
                   confirmed, done, overlapped>>

(* The daemon stops and is started again, maybe with another config. *)
DaemonRestarts ==
    /\ Trouble
    /\ cache' = NoStatus
    /\ allow' \in Configs
    /\ conn' = IF conn = "up" THEN "eof" ELSE conn
    /\ wire' = <<>>
    /\ UNCHANGED <<readings, answers, tasks, loads, backend, screen, confirmed, done,
                   overlapped>>

-----------------------------------------------------------------------------
(* The commands.  Each client's requests are dispatched in order; a        *)
(* handler does all it does, blocking the daemon, before it answers.       *)

Without(i) == SubSeq(wire, 1, i - 1) \o SubSeq(wire, i + 1, Len(wire))

Answer(r, status, danger) ==
    answers' = IF r.by = Orphan THEN answers
               ELSE Append(answers, [by |-> r.by, cmd |-> r.cmd,
                                     status |-> status, danger |-> danger])

MayDo(r) == r.cmd \in allow

ServeStatus(i) ==
    /\ wire[i].cmd = "get_extra_status"
    /\ Answer(wire[i], cache, allow # {})
    /\ UNCHANGED done

(* Whether systemctl succeeds changes nothing for who asked. *)
ServeAction(i) ==
    /\ wire[i].cmd \in {"restart_service", "reboot_system"}
    /\ MayDo(wire[i])
    /\ done' = [done EXCEPT ![wire[i].unit] = @ + 1]
    /\ Answer(wire[i], NoStatus, FALSE)

(* PermissionError. *)
Refuse(i) ==
    /\ wire[i].cmd \in {"restart_service", "reboot_system"}
    /\ ~MayDo(wire[i])
    /\ Answer(wire[i], NoStatus, FALSE)
    /\ UNCHANGED done

Serve ==
    /\ \E i \in DOMAIN wire :
          /\ wire[i].by # Orphan => \A j \in 1 .. i - 1 : wire[j].by = Orphan
          /\ ServeStatus(i) \/ ServeAction(i) \/ Refuse(i)
          /\ wire' = Without(i)
    /\ UNCHANGED <<daemonVars, conn, tasks, loads, backend, screen, troubles,
                   confirmed, overlapped>>

-----------------------------------------------------------------------------
(* The backend.                                                            *)

CommandOf(what) == IF what = Server THEN "reboot_system" ELSE "restart_service"

Send(t, cmd) ==
    wire' = IF conn = "up"
            THEN Append(wire, [by |-> t, cmd |-> cmd, unit |-> tasks[t].what])
            ELSE wire

(* _connect_and_run; the requests before get_extra_status are left out. *)
Connect ==
    /\ conn = "down"
    /\ conn' = "up"
    /\ tasks' = [tasks EXCEPT ![Load].st = "get_extra_status"]
    /\ wire' = Append(wire, [by |-> Load, cmd |-> "get_extra_status", unit |-> None])
    /\ UNCHANGED <<daemonVars, answers, loads, backend, screen, troubles,
                   confirmed, done, overlapped>>

MarkAfter(answered) == None

Starts(t) == tasks[t].st = "starting"

(* A task created by a button runs up to its request: without a connection *)
(* that raises, and so does the get_extra_status of the finally.           *)
TaskStarts(t) ==
    /\ Starts(t)
    /\ IF conn = "down"
       THEN /\ tasks' = [tasks EXCEPT ![t].st = "none"]
            /\ restarting' = IF tasks[t].what \in Units THEN MarkAfter(FALSE)
                                                        ELSE restarting
            /\ UNCHANGED wire
       ELSE /\ tasks' = [tasks EXCEPT ![t].st = CommandOf(tasks[t].what)]
            /\ Send(t, CommandOf(tasks[t].what))
            /\ UNCHANGED restarting
    /\ UNCHANGED <<daemonVars, conn, answers, loads, shown, enabled, screen,
                   troubles, confirmed, done, overlapped>>

EnabledBy(danger) == danger

(* _apply_extra_status: updates that were not counted leave what there was. *)
ShownBy(status) ==
    [s \in SectionNames |->
        IF s = "updates" /\ status[s] = 0 THEN shown[s] ELSE status[s]]

(* The request of a restart ends, one way or the other. *)
RestartEnded(t, answered) ==
    /\ tasks[t].st = "restart_service"
    /\ restarting' = MarkAfter(answered)
    /\ tasks' = [tasks EXCEPT ![t].st = "get_extra_status"]
    /\ Send(t, "get_extra_status")
    /\ UNCHANGED <<conn, loads, shown, enabled>>

RebootEnded(t) ==
    /\ tasks[t].st = "reboot_system"
    /\ tasks' = [tasks EXCEPT ![t].st = "none"]
    /\ UNCHANGED <<conn, wire, loads, backend>>

StatusCame(t, m) ==
    /\ tasks[t].st = "get_extra_status"
    /\ tasks' = [tasks EXCEPT ![t].st = "none"]
    /\ shown' = ShownBy(m.status)
    /\ enabled' = EnabledBy(m.danger)
    /\ loaded' = (loaded \/ t = Load) /\ ready' = (ready \/ t = Load)
    /\ UNCHANGED <<conn, wire, restarting>>

(* An answer, and what its task does with it; one that comes too late is   *)
(* not waited for any more.                                                *)
ReadAnswer ==
    /\ answers # <<>>
    /\ answers' = Tail(answers)
    /\ LET m == Head(answers) IN
       IF tasks[m.by].st = m.cmd
       THEN RestartEnded(m.by, TRUE) \/ RebootEnded(m.by) \/ StatusCame(m.by, m)
       ELSE UNCHANGED <<conn, wire, tasks, loads, backend>>
    /\ UNCHANGED <<daemonVars, screen, troubles, confirmed, done, overlapped>>

(* The connection is given up, and every request on it fails. *)
TearDown ==
    LET failed == {t \in DOMAIN tasks : tasks[t].st \notin {"none", "starting"}}
        restarts == {t \in failed : tasks[t].st = "restart_service"}
    IN  /\ conn' = "down"
        /\ loaded' = FALSE
        /\ answers' = <<>>
        /\ wire' = [i \in DOMAIN wire |-> [wire[i] EXCEPT !.by = Orphan]]
        /\ tasks' = [t \in DOMAIN tasks |->
              IF t \in failed THEN Task(tasks[t].what, "none") ELSE tasks[t]]
        /\ restarting' = IF restarts = {} THEN restarting ELSE MarkAfter(FALSE)
        /\ UNCHANGED <<ready, shown, enabled>>

(* run_forever awaits the read task once the load is through. *)
ConnectionLost ==
    /\ conn = "eof" /\ answers = <<>> /\ loaded
    /\ TearDown
    /\ UNCHANGED <<daemonVars, screen, troubles, confirmed, done, overlapped>>

Coming(t) ==
    \/ \E i \in DOMAIN wire : wire[i].by = t /\ wire[i].cmd = tasks[t].st
    \/ \E i \in DOMAIN answers : answers[i].by = t /\ answers[i].cmd = tasks[t].st

Waiting(t) == tasks[t].st \notin {"none", "starting"}

(* What t waits for will not come. *)
Overdue(t) == Waiting(t) /\ ~Coming(t)

(* wait_for; for the load that ends the connection. *)
GivesUp(t) ==
    /\ \/ t = Load /\ TearDown
       \/ t # Load /\ RestartEnded(t, FALSE) /\ UNCHANGED answers
       \/ t # Load /\ RebootEnded(t) /\ UNCHANGED answers
       \/ /\ t # Load /\ tasks[t].st = "get_extra_status"
          /\ tasks' = [tasks EXCEPT ![t].st = "none"]
          /\ UNCHANGED <<conn, wires, loads, backend>>
    /\ UNCHANGED <<daemonVars, screen, confirmed, done, overlapped>>

TimesOut(t) == Overdue(t) /\ GivesUp(t) /\ UNCHANGED troubles

TimesOutEarly(t) == Waiting(t) /\ Coming(t) /\ Trouble /\ GivesUp(t)

-----------------------------------------------------------------------------
(* The tools tab.                                                          *)

(* The cursor of the table moves: by hand, or because refresh_data builds  *)
(* the table anew, with a dialog open as well.                             *)
Highlight(u) ==
    /\ shown["services"] # 0
    /\ u # selected
    /\ selected' = u
    /\ UNCHANGED <<daemonVars, conn, wires, tasks, loads, backend, buttons,
                   dialog, troubles, confirmed, done, overlapped>>

(* The tick: refresh_data enables the buttons or does not. *)
RefreshData ==
    /\ ready
    /\ buttons' = enabled
    /\ UNCHANGED <<daemonVars, conn, wires, tasks, loads, backend, selected,
                   dialog, troubles, confirmed, done, overlapped>>

(* A button opens the confirmation. *)
Press(what) ==
    /\ buttons
    /\ ready
    /\ dialog = None
    /\ what \in {selected, Server} \ {None}
    /\ dialog' = what
    /\ UNCHANGED <<daemonVars, conn, wires, tasks, loads, backend, buttons,
                   selected, troubles, confirmed, done, overlapped>>

Cancel ==
    /\ dialog # None
    /\ dialog' = None
    /\ UNCHANGED <<daemonVars, conn, wires, tasks, loads, backend, buttons,
                   selected, troubles, confirmed, done, overlapped>>

(* What is restarted is what the dialog was opened for. *)
Target == dialog

Mark(what) == IF what \in Units THEN what ELSE restarting

(* restart_service and reboot_server create a task, which runs later;      *)
(* refresh_data follows.                                                   *)
Confirm(t) ==
    /\ dialog # None
    /\ tasks[t].what = None
    /\ \A u \in Actions : u < t => tasks[u].what # None
    /\ dialog' = None
    /\ confirmed' = [confirmed EXCEPT ![dialog] = @ + 1]
    /\ tasks' = [tasks EXCEPT ![t] = Task(Target, "starting")]
    /\ restarting' = Mark(Target)
    /\ overlapped' = (overlapped \/ (Target \in Units /\ UnderWay # {}))
    /\ buttons' = enabled
    /\ UNCHANGED <<daemonVars, conn, wires, loads, shown, enabled, selected,
                   troubles, done>>

-----------------------------------------------------------------------------
Next ==
    \/ \E through \in 0 .. Len(Sections) : Refresh(through)
    \/ DaemonRestarts
    \/ Serve
    \/ Connect \/ ReadAnswer \/ ConnectionLost
    \/ \E t \in DOMAIN tasks : TimesOut(t) \/ TimesOutEarly(t)
    \/ \E t \in Actions : TaskStarts(t) \/ Confirm(t)
    \/ \E u \in Units : Highlight(u)
    \/ RefreshData
    \/ \E what \in Targets : Press(what)
    \/ Cancel

Spec == Init /\ [][Next]_vars

(* Both event loops run what can run and timeouts fire. *)
Fairness ==
    /\ WF_vars(Serve) /\ WF_vars(ReadAnswer) /\ WF_vars(ConnectionLost)
    /\ \A t \in {Load} \cup Actions : WF_vars(TimesOut(t))
    /\ \A t \in Actions : WF_vars(TaskStarts(t))

FairSpec == Spec /\ Fairness

-----------------------------------------------------------------------------
Commands == {"get_extra_status", "restart_service", "reboot_system"}

(* The type invariant: every variable has the shape its comment gives it.  *)
TypeOK ==
    /\ cache \in Statuses /\ shown \in Statuses
    /\ readings \in 0 .. MaxReadings
    /\ allow \in Configs
    /\ conn \in {"down", "up", "eof"}
    /\ wire \in Seq([by : {Load, Orphan} \cup Actions, cmd : Commands,
                     unit : Targets \cup {None}])
    /\ answers \in Seq([by : {Load} \cup Actions, cmd : Commands,
                        status : Statuses, danger : BOOLEAN])
    /\ tasks \in [{Load} \cup Actions ->
                    [what : Targets \cup {None},
                     st : {"none", "starting"} \cup Commands]]
    /\ loaded \in BOOLEAN /\ ready \in BOOLEAN /\ enabled \in BOOLEAN
    /\ restarting \in Units \cup {None}
    /\ buttons \in BOOLEAN
    /\ selected \in Units \cup {None} /\ dialog \in Targets \cup {None}
    /\ troubles \in 0 .. MaxTroubles
    /\ confirmed \in [Targets -> 0 .. MaxActions]
    /\ done \in [Targets -> 0 .. MaxActions]
    /\ overlapped \in BOOLEAN

(* A unit is restarted, and the server, no more often than the user has    *)
(* said yes to that very one: whatever the cursor of the table did while   *)
(* the dialog was open, and through timeouts and reconnections             *)
(* (_on_restart_confirmed, _restart_service).                              *)
DoneWasConfirmed == \A w \in Targets : done[w] <= confirmed[w]

(* A row says "reiniciando..." only while a restart of that very service   *)
(* is under way; and while one is under way a row says so, unless two have *)
(* overlapped (_restarting_service).                                       *)
RestartShown ==
    /\ restarting # None => \E t \in UnderWay : tasks[t].what = restarting
    /\ UnderWay # {} /\ ~overlapped => restarting # None

(* What the buttons go by is the running daemon's config, from the load of *)
(* a connection to its end: also after a daemon with other switches        *)
(* (_apply_extra_status).                                                  *)
EnabledCurrent ==
    loaded /\ conn = "up" => enabled = (allow # {})

(* All that the tab shows comes from one refresh, but for the updates,     *)
(* which may be of an older one (run_extra_status_refresh).                *)
ShownOfOneRefresh ==
    \A s, u \in SectionNames :
        /\ shown[s] # 0 /\ shown[u] # 0
        => shown[s] = shown[u] \/ "updates" \in {s, u}

(* "reiniciando..." goes away at last, whatever becomes of the daemon and  *)
(* the connection (_restart_service's finally).                            *)
RestartEnds == restarting # None ~> restarting = None

=============================================================================
