----------------------------- MODULE ProcessCache -----------------------------
(***************************************************************************)
(* The process handles MetricsCollector keeps from snapshot to snapshot: a *)
(* handle's cpu_percent is a figure for the time since that handle was     *)
(* last read, and its first reading means nothing.                         *)
(*                                                                         *)
(* A handle is how many readings ago it was read; 2 stands for more.       *)
(* psutil may raise for any process it lists, at whichever of its          *)
(* readings.  A pid that is given to another process between two readings  *)
(* keeps its handle and is not told apart: its next figure is then the     *)
(* difference between two processes.                                       *)
(***************************************************************************)
EXTENDS Naturals

CONSTANT Pids

VARIABLES
    listed,     \* the pids psutil lists
    cache,      \* _process_cache: a handle for some of the pids
    top         \* top_processes of the last snapshot: of each pid, how many
                \* readings its figure covers

cacheVars == <<listed, cache, top>>

CacheInit == listed \in SUBSET Pids /\ cache = <<>> /\ top = <<>>

-----------------------------------------------------------------------------
(* A plausible bug: a handle that raises keeps its place. *)
KeptIfListed(raising) ==
    [p \in (listed \ raising) \cup (raising \cap DOMAIN cache) |->
        IF p \in raising THEN 2 ELSE 1]

(* The cache after a reading that raised for some of those listed: they    *)
(* are dropped or not taken up, and so is every pid that is not listed.    *)
Kept(raising) == [p \in listed \ raising |-> 1]

(* A new handle is read, and shown from its second reading on. *)
Shown(raising) == [p \in (listed \ raising) \cap DOMAIN cache |-> cache[p]]

Take(raising, figures) ==
    /\ raising \subseteq listed
    /\ top' = figures
    /\ cache' = Kept(raising)
    /\ UNCHANGED listed

(* _top_processes; that only the eight busiest are shown is left out. *)
ReadProcesses == \E raising \in SUBSET listed : Take(raising, Shown(raising))

(* _prime_processes, of a new collector. *)
PrimeProcesses == \E raising \in SUBSET listed : Take(raising, <<>>)

(* Processes come and go; any change takes one step. *)
Churn == listed' \in SUBSET Pids \ {listed} /\ UNCHANGED <<cache, top>>

-----------------------------------------------------------------------------
(* Every figure covers exactly the time since the snapshot before, or      *)
(* since priming: never a throwaway reading, never a longer time because a *)
(* process was missed for a while (_top_processes, "psutil computes it as  *)
(* a delta since the object's last cpu_percent() call").                   *)
FiguresOfOneInterval == \A p \in DOMAIN top : top[p] = 1

=============================================================================
