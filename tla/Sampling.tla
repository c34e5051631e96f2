------------------------------- MODULE Sampling -------------------------------
(***************************************************************************)
(* run_metrics_loop: it takes a snapshot -- the processes from the         *)
(* collector's handles, the GPU from the monitor that reads its tool       *)
(* meanwhile --, broadcasts it, and averages what it has collected into a  *)
(* row of resource_snapshots once an interval.                             *)
(*                                                                         *)
(* EventHub says how long a broadcast may take; here it ends some time.    *)
(* Time is counted in polls: a pause of the loop lasts a tick at least.    *)
(***************************************************************************)
EXTENDS GpuMonitor, ProcessCache

CONSTANTS
    FlushInterval,  \* resource_snapshot_interval_minutes, in ticks
    MaxRestarts     \* bound: times the daemon is started again

ASSUME SamplingAssumption ==
    FlushInterval \in Nat \ {0} /\ MaxRestarts \in Nat

VARIABLES
    loop,       \* "starting", "paused", "sending", "over"
    rested,     \* a tick has passed in the pause
    elapsed,    \* ticks since last_flush, up to FlushInterval
    collected,  \* the length of the loop's buffer
    rows,       \* rows written, modulo 2
    shown_gpu,  \* "gpu" of the latest snapshot
    restarts

loopVars == <<loop, rested, elapsed, collected, rows, shown_gpu, restarts>>
vars == <<gpuVars, cacheVars, loopVars>>

Init ==
    /\ GpuInit /\ CacheInit
    /\ loop = "starting"
    /\ rested = TRUE
    /\ elapsed = 0 /\ collected = 0
    /\ rows = 0
    /\ shown_gpu = <<>>
    /\ restarts = 0

-----------------------------------------------------------------------------
(* main: the collector is made, and the loop begins. *)
Start ==
    /\ loop = "starting"
    /\ PrimeProcesses
    /\ loop' = "paused"
    /\ rested' = TRUE
    /\ UNCHANGED <<gpuVars, elapsed, collected, rows, shown_gpu, restarts>>

TakeSnapshot ==
    /\ loop = "paused" /\ rested
    /\ ReadProcesses
    /\ shown_gpu' = reading
    /\ loop' = "sending"
    /\ UNCHANGED <<gpuVars, rested, elapsed, collected, rows, restarts>>

(* A plausible bug: the comparison is strict. *)
OverDue == elapsed > FlushInterval

FlushDue == elapsed >= FlushInterval

(* A plausible bug: the row's transaction is never committed. *)
InsertUncommitted == UNCHANGED rows

(* insert_resource_snapshot: the connection commits by itself. *)
Insert == rows' = 1 - rows

(* The broadcast is over: the alerts see the snapshot, it is collected,    *)
(* and the buffer is written if it is time.                                *)
Collect ==
    /\ loop = "sending"
    /\ loop' = "paused" /\ rested' = FALSE
    /\ IF FlushDue
         THEN collected' = 0 /\ elapsed' = 0 /\ Insert
         ELSE collected' = collected + 1 /\ UNCHANGED <<elapsed, rows>>
    /\ UNCHANGED <<gpuVars, cacheVars, shown_gpu, restarts>>

(* Taking the snapshot, an alert's INSERT or the row's raises: the task    *)
(* ends with what it had collected, and the daemon goes on without it.     *)
LoopEnds ==
    /\ loop \in {"paused", "sending"}
    /\ loop' = "over"
    /\ collected' = 0
    /\ UNCHANGED <<gpuVars, cacheVars, rested, elapsed, rows, shown_gpu,
                   restarts>>

Tick ==
    /\ loop \in {"paused", "sending"}
    /\ rested' = (loop = "paused" \/ rested)
    /\ elapsed' = IF FlushDue THEN elapsed ELSE elapsed + 1
    /\ <<rested', elapsed'>> # <<rested, elapsed>>
    /\ UNCHANGED <<gpuVars, cacheVars, loop, collected, rows, shown_gpu,
                   restarts>>

(* The daemon is stopped or dies, and is started again: the buffer was     *)
(* nowhere else.                                                           *)
Restart ==
    /\ loop # "starting"
    /\ restarts < MaxRestarts
    /\ restarts' = restarts + 1
    /\ loop' = "starting"
    /\ collected' = 0 /\ elapsed' = 0
    /\ shown_gpu' = <<>>
    /\ monitor' = "new" /\ reading' = <<"not checked yet">>
    /\ buffer' = <<>> /\ got_any' = FALSE /\ tool' = NotRunning
    /\ UNCHANGED <<cacheVars, rested, rows>>

Next ==
    \/ Start \/ TakeSnapshot \/ Collect \/ LoopEnds \/ Tick \/ Restart
    \/ loop # "starting" /\ GpuNext /\ UNCHANGED <<cacheVars, loopVars>>
    \/ Churn /\ UNCHANGED <<gpuVars, loopVars>>

Spec == Init /\ [][Next]_vars

(* The loop's pauses and broadcasts end, and time passes; the monitor's    *)
(* pauses end, and what the tool writes is read.  No tool has to end.      *)
Monitors(A) == loop # "starting" /\ A /\ UNCHANGED <<cacheVars, loopVars>>

Fairness ==
    /\ WF_vars(Start) /\ WF_vars(TakeSnapshot) /\ WF_vars(Collect)
    /\ WF_vars(Tick)
    /\ WF_vars(Monitors(LaunchFails \/ Launch))
    /\ WF_vars(Monitors(ReadChunk))

FairSpec == Spec /\ Fairness

-----------------------------------------------------------------------------
(* The type invariant. *)
TypeOK ==
    /\ monitor \in {"new", "reading", "pause", "retry", "over"}
    /\ tool.run \in 0 .. MaxRuns /\ got_any \in BOOLEAN
    /\ loop \in {"starting", "paused", "sending", "over"}
    /\ rested \in BOOLEAN
    /\ elapsed \in 0 .. FlushInterval /\ collected \in Nat
    /\ rows \in {0, 1} /\ restarts \in 0 .. MaxRestarts

(* The buffer holds no more snapshots than polls fit into the interval, so *)
(* that this is also the most a restart or an exception loses              *)
(* (_flush_snapshot_buffer, last_flush).                                   *)
LossBounded == collected <= FlushInterval

(* What is collected reaches the table, unless the loop or the daemon ends *)
(* before (run_metrics_loop).                                              *)
CollectedIsSaved ==
    \A r \in {0, 1} :
        (collected > 0 /\ rows = r)
            ~> (rows # r \/ loop \in {"starting", "over"})

(* A reading of a run that has ended is not shown for good: the panel gets *)
(* a snapshot that shows another run or says why there is none, unless the *)
(* new run's first object is garbled or the loop is over (run_forever, "On *)
(* failure it marks the metric unavailable").                              *)
StaleGpuReadingEnds ==
    \A r \in 1 .. MaxRuns :
        (monitor = "pause" /\ tool.run = r)
            ~> \/ shown_gpu = <<>> \/ shown_gpu[1] # "available"
               \/ shown_gpu[2] # r
               \/ Garbles \/ loop \in {"starting", "over"}

=============================================================================
