------------------------------ MODULE GpuMonitor ------------------------------
(***************************************************************************)
(* GpuMonitor: run_forever starts intel_gpu_top, _try_stream cuts JSON     *)
(* objects out of what it writes, latest() is what the next snapshot       *)
(* shows.                                                                  *)
(*                                                                         *)
(* An object is three bytes, its brackets and a comma between them, and a  *)
(* separator follows each.  The tool may garble one byte of a run, end     *)
(* after any of them; the pipe cuts what it writes anywhere.               *)
(***************************************************************************)
EXTENDS Naturals, Sequences, FiniteSetsExt

CONSTANTS
    Objects,    \* objects in the output of a run
    Garbled,    \* which byte of a run may be garbled, 0 for none
    MaxRuns     \* bound: times the tool starts

ASSUME GpuAssumption ==
    /\ Objects \in Nat \ {0} /\ Garbled \subseteq 0 .. 4 * Objects
    /\ MaxRuns \in Nat

VARIABLES
    monitor,    \* run_forever: "new", "reading", "pause" of 5 s, "retry",
                \* the pause of retry_minutes, "over"
    reading,    \* _latest: <<why not>> or <<"available", run, object>>
    buffer,     \* what is left to decode
    got_any,
    tool        \* its run: the number, the byte it garbles, the bytes read

gpuVars == <<monitor, reading, buffer, got_any, tool>>

Comma == <<"comma">>
Opening(k) == <<"opening", k>>
Closing(k) == <<"closing", k>>
Garbage == <<"garbage">>

Bytes == {Comma, Garbage}
    \cup UNION {{Opening(k), Closing(k)} : k \in 1 .. Objects}

Output(garbled) ==
    [i \in 1 .. 4 * Objects |->
        LET k == (i + 3) \div 4
        IN  CASE i = garbled -> Garbage
              [] i # garbled /\ i % 4 = 1 -> Opening(k)
              [] i # garbled /\ i % 4 = 3 -> Closing(k)
              [] OTHER -> Comma]

NotRunning == [run |-> 0, garbled |-> 0, read |-> 0]

GpuInit ==
    /\ monitor = "new"
    /\ reading = <<"not checked yet">>
    /\ buffer = <<>> /\ got_any = FALSE
    /\ tool = NotRunning

-----------------------------------------------------------------------------
(* Decoding.                                                               *)

(* Where a byte is no separator. *)
Others(bytes) == {i \in DOMAIN bytes : bytes[i] # Comma}

(* A plausible bug: separators are dropped at both ends. *)
StripBoth(bytes) ==
    IF Others(bytes) = {} THEN <<>>
    ELSE SubSeq(bytes, Min(Others(bytes)), Max(Others(bytes)))

(* lstrip: separators are dropped in front only. *)
Strip(bytes) ==
    IF Others(bytes) = {} THEN <<>>
    ELSE SubSeq(bytes, Min(Others(bytes)), Len(bytes))

(* raw_decode finds a whole object in front. *)
Whole(bytes) ==
    /\ Len(bytes) >= 3
    /\ bytes[1][1] = "opening" /\ bytes[2] = Comma /\ bytes[3][1] = "closing"

(* The inner loop of _try_stream: the objects found in the bytes and what  *)
(* is left of them.                                                        *)
Decoded[bytes \in Seq(Bytes)] ==
    LET stripped == Strip(bytes)
    IN  IF Whole(stripped)
          THEN LET rest == Decoded[SubSeq(stripped, 4, Len(stripped))]
               IN  [rest EXCEPT !.objects = <<stripped[1][2]>> \o @]
          ELSE [objects |-> <<>>, left |-> stripped]

-----------------------------------------------------------------------------
(* run_forever.                                                            *)

NoTool ==
    /\ monitor = "new"
    /\ monitor' = "over"
    /\ reading' \in {<<"not installed">>, <<"disabled in config">>}
    /\ UNCHANGED <<buffer, got_any, tool>>

(* A plausible bug: a stream that ended is not taken up again. *)
LaunchesOnce == monitor \in {"new", "retry"}

(* At the start, and when a pause is over. *)
Launches == monitor \in {"new", "pause", "retry"}

LaunchFails ==
    /\ Launches
    /\ monitor' = "retry"
    /\ reading' = <<"failed">>
    /\ UNCHANGED <<buffer, got_any, tool>>

Launch ==
    /\ Launches /\ tool.run < MaxRuns
    /\ monitor' = "reading"
    /\ \E g \in Garbled :
          tool' = [run |-> tool.run + 1, garbled |-> g, read |-> 0]
    /\ buffer' = <<>>
    /\ got_any' = FALSE
    /\ UNCHANGED reading

(* One read of the pipe, and every object that is whole now. *)
ReadChunk ==
    /\ monitor = "reading"
    /\ \E upTo \in tool.read + 1 .. 4 * Objects :
          LET chunk == SubSeq(Output(tool.garbled), tool.read + 1, upTo)
              now == Decoded[buffer \o chunk]
          IN  /\ tool' = [tool EXCEPT !.read = upTo]
              /\ buffer' = now.left
              /\ IF now.objects = <<>>
                   THEN UNCHANGED <<got_any, reading>>
                   ELSE /\ got_any' = TRUE
                        /\ reading' = <<"available", tool.run,
                                        now.objects[Len(now.objects)]>>
    /\ UNCHANGED monitor

(* The tool ends, at whatever byte it had come to. *)
StreamEnds ==
    /\ monitor = "reading"
    /\ monitor' = IF got_any THEN "pause" ELSE "retry"
    /\ reading' = IF got_any THEN reading ELSE <<"failed">>
    /\ UNCHANGED <<buffer, got_any, tool>>

GpuNext ==
    NoTool \/ LaunchFails \/ Launch \/ ReadChunk \/ StreamEnds

-----------------------------------------------------------------------------
(* The objects of a run that are whole among its first bytes and before    *)
(* the garbled one.                                                        *)
WholeOnes(t) ==
    {k \in 1 .. Objects :
        /\ 4 * k - 1 <= t.read
        /\ t.garbled > 0 => 4 * k - 1 < t.garbled}

(* What is shown while a stream is read is the newest object that has      *)
(* arrived whole before anything garbled, wherever the pipe cut the        *)
(* stream; and without one nothing of this run is shown                    *)
(* (_try_stream; "tolerant of stray [ , ]").                               *)
NewestWholeReading ==
    monitor = "reading" =>
        IF WholeOnes(tool) = {}
          THEN /\ ~got_any
               /\ reading[1] = "available" => reading[2] # tool.run
          ELSE \E k \in WholeOnes(tool) :
                  /\ \A j \in WholeOnes(tool) : j <= k
                  /\ reading = <<"available", tool.run, k>>

(* The tool's first object is lost in garbage: nothing behind it is found. *)
Garbles == monitor = "reading" /\ tool.garbled \in 1 .. 3

=============================================================================
