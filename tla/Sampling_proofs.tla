--------------------------- MODULE Sampling_proofs ---------------------------
(***************************************************************************)
(* Proofs about Sampling for any set of pids, any interval and any number  *)
(* of objects and runs of the tool: each figure covers one interval, the   *)
(* buffer is bounded, and the newest whole reading is the one shown.       *)
(*                                                                         *)
(* LossBounded is not inductive: the loop could collect faster than time   *)
(* passes.  The invariant counts (PollsInv): a snapshot is taken after a   *)
(* tick, so that no more are collected than ticks have passed since the    *)
(* last flush, and one more between collecting and the next tick.          *)
(*                                                                         *)
(* NewestWholeReading is not inductive: it says nothing of the buffer.     *)
(* MonitorInv adds that the buffer is the output from behind the newest    *)
(* whole object on, wherever the pipe cut it.  Decoded is recursive, and   *)
(* is shown to be what its definition says (DecodedIs) by the length of    *)
(* what is left; a least counterexample stands for each induction.         *)
(***************************************************************************)
EXTENDS Sampling, SequenceTheorems, WellFoundedInduction, TLAPS

(* All handles were read at the last snapshot. *)
HandlesInv == \A p \in DOMAIN cache : cache[p] = 1

PollsInv ==
    /\ loop \in {"starting", "paused", "sending", "over"}
    /\ elapsed \in 0 .. FlushInterval /\ collected \in Nat
    /\ loop = "starting" => collected = 0 /\ elapsed = 0
    /\ loop = "over" => collected = 0
    /\ loop = "paused" /\ ~rested
          => elapsed < FlushInterval /\ collected <= elapsed + 1
    /\ (loop = "paused" /\ rested) \/ loop = "sending" => collected <= elapsed

IInv == HandlesInv /\ FiguresOfOneInterval /\ PollsInv

-----------------------------------------------------------------------------
(* The inductive invariant holds initially. *)
LEMMA InitInv == Init => IInv
<1> SUFFICES ASSUME Init PROVE IInv
  OBVIOUS
<1>1. DOMAIN cache = {} /\ DOMAIN top = {}
  BY DEF Init, CacheInit
<1>2. PollsInv
  BY SamplingAssumption DEF Init, PollsInv
<1> QED BY <1>1, <1>2 DEF IInv, HandlesInv, FiguresOfOneInterval

(* A reading of the processes shows only handles that were there at the    *)
(* last one, and leaves none behind that it did not read.                  *)
LEMMA TakeCache ==
  ASSUME HandlesInv, NEW raising \in SUBSET listed, NEW figures,
         figures = <<>> \/ figures = Shown(raising), Take(raising, figures)
  PROVE  HandlesInv' /\ FiguresOfOneInterval'
<1>1. cache' = [p \in listed \ raising |-> 1] /\ top' = figures
  BY DEF Take, Kept
<1>2. HandlesInv'
  BY <1>1 DEF HandlesInv
<1>3. CASE figures = <<>>
  <2>1. DOMAIN top' = {}
    BY <1>1, <1>3
  <2> QED BY <1>2, <2>1 DEF FiguresOfOneInterval
<1>4. CASE figures = Shown(raising)
  <2>1. top' = [p \in (listed \ raising) \cap DOMAIN cache |-> cache[p]]
    BY <1>1, <1>4 DEF Shown
  <2> QED BY <1>2, <2>1 DEF HandlesInv, FiguresOfOneInterval
<1> QED BY <1>3, <1>4

(* Every step keeps the invariant. *)
LEMMA NextInv == IInv /\ [Next]_vars => IInv'
<1> SUFFICES ASSUME IInv, [Next]_vars PROVE IInv'
  OBVIOUS
<1> USE SamplingAssumption
<1>0. HandlesInv /\ FiguresOfOneInterval /\ PollsInv
  BY DEF IInv
<1>1. CASE Start
  <2>1. HandlesInv' /\ FiguresOfOneInterval'
    BY <1>0, <1>1, TakeCache DEF Start, PrimeProcesses
  <2>2. PollsInv'
    BY <1>0, <1>1 DEF Start, PollsInv
  <2> QED BY <2>1, <2>2 DEF IInv
<1>2. CASE TakeSnapshot
  <2>1. HandlesInv' /\ FiguresOfOneInterval'
    BY <1>0, <1>2, TakeCache DEF TakeSnapshot, ReadProcesses
  <2>2. PollsInv'
    BY <1>0, <1>2 DEF TakeSnapshot, PollsInv
  <2> QED BY <2>1, <2>2 DEF IInv
<1>3. CASE UNCHANGED <<cache, top>> /\ PollsInv'
  BY <1>0, <1>3 DEF IInv, HandlesInv, FiguresOfOneInterval
<1>4. CASE Collect
  <2>1. /\ loop = "sending" /\ loop' = "paused" /\ rested' = FALSE
        /\ UNCHANGED <<cache, top>>
    BY <1>4 DEF Collect, cacheVars
  <2>2. \/ elapsed' = 0 /\ collected' = 0
        \/ elapsed < FlushInterval /\ elapsed' = elapsed /\ collected' = collected + 1
    BY <1>0, <1>4 DEF Collect, FlushDue, Insert, PollsInv
  <2>3. PollsInv'
    BY <1>0, <2>1, <2>2 DEF PollsInv
  <2> QED BY <1>3, <2>1, <2>3
<1>5. CASE LoopEnds
  <2>1. PollsInv'
    BY <1>0, <1>5 DEF LoopEnds, PollsInv
  <2> QED BY <1>3, <1>5, <2>1 DEF LoopEnds, cacheVars
<1>6. CASE Tick
  <2>1. /\ loop' = loop /\ collected' = collected
        /\ loop \in {"paused", "sending"}
        /\ UNCHANGED <<cache, top>>
    BY <1>6 DEF Tick, cacheVars
  <2>2. loop = "paused" => rested'
    BY <1>6 DEF Tick
  <2>3. elapsed' = IF elapsed >= FlushInterval THEN elapsed ELSE elapsed + 1
    BY <1>6 DEF Tick, FlushDue
  <2>4. collected <= elapsed' /\ elapsed' \in 0 .. FlushInterval
    BY <1>0, <2>1, <2>3 DEF PollsInv
  <2>5. PollsInv'
    BY <1>0, <2>1, <2>2, <2>4 DEF PollsInv
  <2> QED BY <1>3, <2>1, <2>5
<1>7. CASE Restart
  <2>0. loop' = "starting" /\ collected' = 0 /\ elapsed' = 0
    BY <1>7 DEF Restart
  <2>1. PollsInv'
    BY <2>0 DEF PollsInv
  <2> QED BY <1>3, <1>7, <2>1 DEF Restart, cacheVars
<1>8. CASE UNCHANGED <<cache, top, loopVars>>
  <2>1. PollsInv'
    BY <1>0, <1>8 DEF loopVars, PollsInv
  <2> QED BY <1>3, <1>8, <2>1
<1> QED
  BY <1>1, <1>2, <1>4, <1>5, <1>6, <1>7, <1>8
  DEF Next, Churn, vars, cacheVars

(* IInv is an invariant. *)
LEMMA Inductive == Spec => []IInv
<1>1. Init => IInv
  BY InitInv
<1>2. IInv /\ [Next]_vars => IInv'
  BY NextInv
<1> QED BY <1>1, <1>2, PTL DEF Spec

(* Every figure covers the time since the snapshot before, whatever        *)
(* processes come, go and raise.                                           *)
THEOREM FiguresCoverOneInterval == Spec => []FiguresOfOneInterval
<1>1. IInv => FiguresOfOneInterval
  BY DEF IInv
<1> QED BY <1>1, Inductive, PTL

(* No more snapshots are lost than polls fit into the interval.            *)
THEOREM LossIsBounded == Spec => []LossBounded
<1>1. IInv => LossBounded
  BY SamplingAssumption DEF IInv, PollsInv, LossBounded
<1> QED BY <1>1, Inductive, PTL

-----------------------------------------------------------------------------
(* Decoding: the inner loop of _try_stream ends, and finds what it should. *)

(* What is behind the object that raw_decode finds. *)
Rest(bytes) == SubSeq(Strip(bytes), 4, Len(Strip(bytes)))

(* One turn of the inner loop, f doing the others. *)
Decode(f, bytes) ==
    IF Whole(Strip(bytes))
      THEN [f[Rest(bytes)] EXCEPT !.objects = <<Strip(bytes)[1][2]>> \o @]
      ELSE [objects |-> <<>>, left |-> Strip(bytes)]

(* What is shorter than n, and the loop run on it. *)
Upto(n) == {bytes \in Seq(Bytes) : Len(bytes) < n}

IsDecoding(f, n) == f = [bytes \in Upto(n) |-> Decode(f, bytes)]

(* A set of natural numbers has a least one. *)
LEMMA Least ==
  ASSUME NEW T, T \subseteq Nat, T # {}
  PROVE  /\ Min(T) \in T
         /\ \A y \in T : Min(T) <= y
<1> DEFINE R == OpToRel(<, Nat)
<1>1. IsWellFoundedOn(R, Nat)
  BY NatLessThanWellFounded
<1>2. R = {ss \in Nat \X Nat : ss[1] < ss[2]}
  BY ZenonT(20) DEF OpToRel
<1> HIDE DEF R
<1>3. PICK x \in T : \A y \in T : ~ (<<y, x>> \in R)
  BY <1>1, WFMin
<1>4. \A y \in T : x <= y
  <2> TAKE y \in T
  <2>1. y \in Nat /\ x \in Nat
    OBVIOUS
  <2>2. y < x => <<y, x>> \in R
    BY <1>2, <2>1
  <2>3. ~(<<y, x>> \in R)
    BY <1>3
  <2>4. ~(y < x)
    BY <2>2, <2>3
  <2> QED BY <2>1, <2>4
<1> QED BY <1>4 DEF Min

(* What is stripped is a sequence of bytes, and no longer. *)
LEMMA StripFacts ==
  ASSUME NEW b \in Seq(Bytes)
  PROVE  Strip(b) \in Seq(Bytes) /\ Len(Strip(b)) <= Len(b)
<1>1. CASE Others(b) = {}
  BY <1>1 DEF Strip
<1>2. CASE Others(b) # {}
  <2> DEFINE i == Min(Others(b))
  <2>1. Others(b) \subseteq 1 .. Len(b)
    BY DEF Others
  <2>2. i \in 1 .. Len(b)
    BY <1>2, <2>1, Least
  <2>3. Strip(b) = SubSeq(b, i, Len(b))
    BY <1>2 DEF Strip
  <2> HIDE DEF i
  <2>4. /\ SubSeq(b, i, Len(b)) \in Seq(Bytes)
        /\ Len(SubSeq(b, i, Len(b))) = Len(b) - i + 1
    BY <2>2
  <2> QED BY <2>2, <2>3, <2>4
<1> QED BY <1>1, <1>2

(* An object found makes what is left shorter. *)
LEMMA RestShorter ==
  ASSUME NEW b \in Seq(Bytes), Whole(Strip(b))
  PROVE  Rest(b) \in Seq(Bytes) /\ Len(Rest(b)) < Len(b) /\ Len(b) \in Nat
<1> DEFINE t == Strip(b)
<1>1. t \in Seq(Bytes) /\ Len(t) <= Len(b) /\ Len(t) \in Nat /\ Len(t) >= 3
  BY StripFacts DEF Whole
<1>2. Rest(b) = SubSeq(t, 4, Len(t))
  BY DEF Rest
<1> HIDE DEF t
<1>3. SubSeq(t, 4, Len(t)) \in Seq(Bytes) /\ Len(SubSeq(t, 4, Len(t))) = Len(t) - 3
  <2>1. \A i \in 4 .. Len(t) : t[i] \in Bytes
    BY <1>1
  <2>2. 4 \in Int /\ Len(t) \in Int
    BY <1>1
  <2>3. /\ SubSeq(t, 4, Len(t)) \in Seq(Bytes)
        /\ Len(SubSeq(t, 4, Len(t))) = IF 4 <= Len(t) THEN Len(t) - 4 + 1 ELSE 0
    BY <2>1, <2>2, SubSeqProperties
  <2> DEFINE c == SubSeq(t, 4, Len(t))
             m == Len(t)
  <2>4. /\ c \in Seq(Bytes) /\ m >= 3 /\ m \in Nat
        /\ Len(c) = IF 4 <= m THEN m - 4 + 1 ELSE 0
    BY <1>1, <2>3
  <2> HIDE DEF c, m
  <2>5. Len(c) = m - 3
    BY <2>4
  <2> QED BY <2>4, <2>5 DEF c, m
<1> QED BY <1>1, <1>2, <1>3

(* Two decodings agree where both are defined. *)
LEMMA Agree ==
  ASSUME NEW f, NEW h, NEW n \in Nat, NEW m \in Nat,
         IsDecoding(f, n), IsDecoding(h, m),
         NEW b \in Upto(n) \cap Upto(m)
  PROVE  f[b] = h[b]
<1> DEFINE T == {Len(c) : c \in {d \in Upto(n) \cap Upto(m) : f[d] # h[d]}}
<1> SUFFICES ASSUME T # {} PROVE FALSE
  OBVIOUS
<1>1. T \subseteq Nat
  BY DEF Upto
<1>2. PICK c \in Upto(n) \cap Upto(m) :
         /\ f[c] # h[c]
         /\ \A d \in Upto(n) \cap Upto(m) : f[d] # h[d] => Len(c) <= Len(d)
  <2>1. Min(T) \in T /\ \A y \in T : Min(T) <= y
    BY <1>1, Least
  <2> QED BY <2>1
<1>3. f[c] = Decode(f, c) /\ h[c] = Decode(h, c)
  BY DEF IsDecoding
<1>4. c \in Seq(Bytes) /\ Len(c) < n /\ Len(c) < m /\ Len(c) \in Nat
  BY DEF Upto
<1>5. CASE Whole(Strip(c))
  <2>1. Rest(c) \in Seq(Bytes) /\ Len(Rest(c)) < Len(c) /\ Len(Rest(c)) \in Nat
    BY <1>4, <1>5, RestShorter
  <2>2. Rest(c) \in Upto(n) \cap Upto(m)
    BY <1>4, <2>1 DEF Upto
  <2>3. f[Rest(c)] = h[Rest(c)]
    BY <1>2, <1>4, <2>1, <2>2
  <2> QED BY <1>2, <1>3, <2>3 DEF Decode
<1>6. CASE ~Whole(Strip(c))
  BY <1>2, <1>3, <1>6 DEF Decode
<1> QED BY <1>5, <1>6

(* The loop can be run on all that is shorter than any length.             *)
LEMMA DecodingExists == ASSUME NEW n \in Nat PROVE \E f : IsDecoding(f, n)
<1> DEFINE T == {k \in Nat : ~ \E f : IsDecoding(f, k)}
<1> SUFFICES ASSUME T # {} PROVE FALSE
  OBVIOUS
<1>1. PICK k \in T : \A j \in T : k <= j
  <2> HIDE DEF T
  <2>1. T \subseteq Nat
    BY DEF T
  <2> QED BY <2>1, Least
<1>2. k # 0
  <2>1. Upto(0) = {}
    BY DEF Upto
  <2> DEFINE f == [b \in Upto(0) |-> 0]
  <2>2. f = [b \in Upto(0) |-> Decode(f, b)]
    BY <2>1
  <2>3. IsDecoding(f, 0)
    BY <2>2 DEF IsDecoding
  <2> QED BY <2>3
<1>3. PICK f : IsDecoding(f, k - 1)
  BY <1>1, <1>2
<1> DEFINE h == [b \in Upto(k) |-> Decode(f, b)]
<1>4. ASSUME NEW b \in Upto(k)
      PROVE  h[b] = Decode(h, b)
  <2>1. b \in Seq(Bytes) /\ Len(b) < k /\ Len(b) \in Nat /\ k \in Nat
    BY DEF Upto
  <2>2. h[b] = Decode(f, b)
    OBVIOUS
  <2>3. CASE Whole(Strip(b))
    <3>1. Rest(b) \in Seq(Bytes) /\ Len(Rest(b)) < Len(b) /\ Len(Rest(b)) \in Nat
      BY <2>1, <2>3, RestShorter
    <3>2. Rest(b) \in Upto(k - 1) /\ Rest(b) \in Upto(k)
      BY <2>1, <3>1 DEF Upto
    <3>3. f[Rest(b)] = Decode(f, Rest(b))
      BY <1>3, <3>2 DEF IsDecoding
    <3>4. h[Rest(b)] = f[Rest(b)]
      BY <3>2, <3>3
    <3> HIDE DEF h
    <3> QED BY <2>2, <3>4 DEF Decode
  <2>4. CASE ~Whole(Strip(b))
    <3> HIDE DEF h
    <3> QED BY <2>2, <2>4 DEF Decode
  <2> QED BY <2>3, <2>4
<1>5. h = [b \in Upto(k) |-> Decode(h, b)]
  <2>1. DOMAIN h = Upto(k) /\ h = [b \in DOMAIN h |-> h[b]]
    OBVIOUS
  <2> HIDE DEF h
  <2> QED BY <1>4, <2>1
<1>6. IsDecoding(h, k)
  <2> HIDE DEF h
  <2> QED BY <1>5 DEF IsDecoding
<1> QED BY <1>6

(* Decoded is what its definition says. *)
LEMMA DecodedIs ==
  ASSUME NEW b \in Seq(Bytes)
  PROVE  Decoded[b] = Decode(Decoded, b)
<1> DEFINE G(n) == CHOOSE f : IsDecoding(f, n)
           F == [c \in Seq(Bytes) |-> G(Len(c) + 1)[c]]
<1>1. ASSUME NEW n \in Nat PROVE IsDecoding(G(n), n)
  BY DecodingExists
<1> HIDE DEF G
<1>2. ASSUME NEW c \in Seq(Bytes)
      PROVE  F[c] = Decode(F, c)
  <2> DEFINE n == Len(c) + 1
  <2>1. n \in Nat /\ c \in Upto(n) /\ F[c] = G(n)[c]
    BY DEF Upto
  <2> HIDE DEF n
  <2>2. G(n)[c] = Decode(G(n), c)
    BY <1>1, <2>1 DEF IsDecoding
  <2>3. CASE Whole(Strip(c))
    <3> DEFINE r == Rest(c)
               m == Len(r) + 1
    <3>1. r \in Seq(Bytes) /\ Len(r) < Len(c) /\ Len(r) \in Nat /\ Len(c) \in Nat
      BY <2>3, RestShorter
    <3> HIDE DEF r
    <3>2. m \in Nat /\ r \in Upto(n) \cap Upto(m)
      BY <3>1 DEF Upto, n
    <3>3. F[r] = G(m)[r]
      BY <3>1
    <3> HIDE DEF m
    <3>4. G(m)[r] = G(n)[r]
      BY <1>1, <2>1, <3>2, Agree
    <3> HIDE DEF F
    <3> QED BY <2>1, <2>2, <3>3, <3>4 DEF Decode, r
  <2>4. CASE ~Whole(Strip(c))
    <3> HIDE DEF F
    <3> QED BY <2>1, <2>2, <2>4 DEF Decode
  <2> QED BY <2>3, <2>4
<1>3. F = [c \in Seq(Bytes) |-> Decode(F, c)]
  <2>1. DOMAIN F = Seq(Bytes) /\ F = [c \in DOMAIN F |-> F[c]]
    OBVIOUS
  <2> HIDE DEF F
  <2> QED BY <1>2, <2>1
<1> HIDE DEF F
<1>4. \E f : f = [c \in Seq(Bytes) |-> Decode(f, c)]
  BY <1>3
<1>5. Decoded = CHOOSE f : f = [c \in Seq(Bytes) |-> Decode(f, c)]
  BY DEF Decoded, Decode, Rest
<1>6. Decoded = [c \in Seq(Bytes) |-> Decode(Decoded, c)]
  BY <1>4, <1>5
<1> QED BY <1>6

-----------------------------------------------------------------------------
(* The tool's output.                                                      *)

(* The bytes are told apart by their first components.                     *)
LEMMA ByteFacts ==
  /\ Comma \in Bytes /\ Garbage \in Bytes /\ Garbage # Comma
  /\ Garbage[1] = "garbage" /\ Comma[1] = "comma"
  /\ \A k \in 1 .. Objects :
        /\ Opening(k) \in Bytes /\ Closing(k) \in Bytes
        /\ Opening(k) # Comma /\ Closing(k) # Comma
        /\ Opening(k)[1] = "opening" /\ Opening(k)[2] = k
        /\ Closing(k)[1] = "closing"
<1>1. /\ Garbage[1] = "garbage" /\ Comma[1] = "comma"
      /\ \A k \in 1 .. Objects :
           /\ Opening(k)[1] = "opening" /\ Opening(k)[2] = k
           /\ Closing(k)[1] = "closing"
  BY DEF Comma, Garbage, Opening, Closing
<1>2. /\ Comma \in Bytes /\ Garbage \in Bytes
      /\ \A k \in 1 .. Objects : Opening(k) \in Bytes /\ Closing(k) \in Bytes
  BY DEF Bytes
<1>3. Garbage # Comma
  BY <1>1
<1>4. \A k \in 1 .. Objects : Opening(k) # Comma /\ Closing(k) # Comma
  BY <1>1
<1> QED BY <1>1, <1>2, <1>3, <1>4

(* Which byte stands where, unless it is the garbled one.                  *)
LEMMA OutputFacts ==
  ASSUME NEW g \in 0 .. 4 * Objects
  PROVE  /\ Output(g) \in Seq(Bytes) /\ Len(Output(g)) = 4 * Objects
         /\ \A k \in 1 .. Objects :
              /\ g # 4 * k - 3 => Output(g)[4 * k - 3] = Opening(k)
              /\ g # 4 * k - 2 => Output(g)[4 * k - 2] = Comma
              /\ g # 4 * k - 1 => Output(g)[4 * k - 1] = Closing(k)
              /\ g # 4 * k => Output(g)[4 * k] = Comma
         /\ g # 0 => Output(g)[g] = Garbage
<1> USE GpuAssumption
<1> DEFINE out == Output(g)
<1>1. /\ out = [i \in 1 .. 4 * Objects |-> out[i]]
      /\ \A i \in 1 .. 4 * Objects :
            out[i] = LET k == (i + 3) \div 4
                     IN  CASE i = g -> Garbage
                           [] i # g /\ i % 4 = 1 -> Opening(k)
                           [] i # g /\ i % 4 = 3 -> Closing(k)
                           [] OTHER -> Comma
  BY DEF Output
<1> HIDE DEF out
<1>2. ASSUME NEW i \in 1 .. 4 * Objects, NEW k, i # g
       PROVE  /\ i % 4 = 1 /\ (i + 3) \div 4 = k => out[i] = Opening(k)
              /\ i % 4 = 3 /\ (i + 3) \div 4 = k => out[i] = Closing(k)
              /\ i % 4 = 0 \/ i % 4 = 2 => out[i] = Comma
  <2> DEFINE m == i % 4
             d == (i + 3) \div 4
  <2>1. out[i] = CASE i = g -> Garbage
                   [] i # g /\ m = 1 -> Opening(d)
                   [] i # g /\ m = 3 -> Closing(d)
                   [] OTHER -> Comma
    BY <1>1
  <2> HIDE DEF m, d
  <2>2. CASE m = 1
    <3>1. out[i] = Opening(d)
      BY <1>2, <2>1, <2>2
    <3> QED BY <2>2, <3>1 DEF m, d
  <2>3. CASE m = 3
    <3>1. out[i] = Closing(d)
      BY <1>2, <2>1, <2>3
    <3> QED BY <2>3, <3>1 DEF m, d
  <2>4. CASE m # 1 /\ m # 3
    <3>1. out[i] = Comma
      BY <1>2, <2>1, <2>4
    <3> QED BY <2>4, <3>1 DEF m, d
  <2> QED BY <2>2, <2>3, <2>4
<1>3. ASSUME NEW i \in 1 .. 4 * Objects
      PROVE  out[i] \in Bytes
  <2>1. (i + 3) \div 4 \in 1 .. Objects
    OBVIOUS
  <2>2. out[i] \in {Garbage, Comma,
                    Opening((i + 3) \div 4), Closing((i + 3) \div 4)}
    BY <1>1
  <2> QED BY <2>1, <2>2, ByteFacts
<1>4. out \in Seq(Bytes) /\ Len(out) = 4 * Objects
  <2>1. 4 * Objects \in Nat
    OBVIOUS
  <2>2. out = [i \in 1 .. 4 * Objects |-> out[i]]
    BY <1>1
  <2> QED BY <1>3, <2>1, <2>2
<1>5. ASSUME NEW k \in 1 .. Objects
      PROVE  /\ g # 4 * k - 3 => out[4 * k - 3] = Opening(k)
             /\ g # 4 * k - 2 => out[4 * k - 2] = Comma
             /\ g # 4 * k - 1 => out[4 * k - 1] = Closing(k)
             /\ g # 4 * k => out[4 * k] = Comma
  <2>1. /\ 4 * k - 3 \in 1 .. 4 * Objects /\ 4 * k - 2 \in 1 .. 4 * Objects
        /\ 4 * k - 1 \in 1 .. 4 * Objects /\ 4 * k \in 1 .. 4 * Objects
    OBVIOUS
  <2>2. /\ (4 * k - 3) % 4 = 1 /\ (4 * k - 2) % 4 = 2
        /\ (4 * k - 1) % 4 = 3 /\ (4 * k) % 4 = 0
        /\ ((4 * k - 3) + 3) \div 4 = k /\ ((4 * k - 1) + 3) \div 4 = k
    OBVIOUS
  <2> QED BY <1>2, <2>1, <2>2
<1>6. g # 0 => out[g] = Garbage
  BY <1>1
<1> QED BY <1>4, <1>5, <1>6 DEF out

(* The bytes of a run from one to another. *)
Part(g, from, to) == SubSeq(Output(g), from, to)

(* A part by index; it may be empty.                                       *)
LEMMA PartFacts ==
  ASSUME NEW g \in 0 .. 4 * Objects, NEW s \in Nat, NEW u \in 0 .. 4 * Objects,
         s >= 1, s <= u + 1
  PROVE  /\ Part(g, s, u) \in Seq(Bytes)
         /\ Len(Part(g, s, u)) = u - s + 1
         /\ \A i \in 1 .. u - s + 1 : Part(g, s, u)[i] = Output(g)[s + i - 1]
<1> USE GpuAssumption
<1>1. \A i \in s .. u : Output(g)[i] \in Bytes
  BY OutputFacts
<1>2. /\ Part(g, s, u) \in Seq(Bytes)
      /\ Len(Part(g, s, u)) = IF s <= u THEN u - s + 1 ELSE 0
      /\ \A i \in 1 .. u - s + 1 : Part(g, s, u)[i] = Output(g)[s + i - 1]
  BY <1>1, SubSeqProperties DEF Part
<1> QED BY <1>2

(* A part of a part. *)
LEMMA PartOfPart ==
  ASSUME NEW g \in 0 .. 4 * Objects, NEW s \in Nat, NEW u \in 0 .. 4 * Objects,
         s >= 1, s <= u + 1, NEW n \in 0 .. u - s + 1
  PROVE  SubSeq(Part(g, s, u), n + 1, Len(Part(g, s, u))) = Part(g, s + n, u)
<1> DEFINE p == Part(g, s, u)
           q == SubSeq(p, n + 1, Len(p))
<1>1. /\ p \in Seq(Bytes) /\ Len(p) = u - s + 1 /\ Len(p) \in Nat
      /\ \A i \in 1 .. u - s + 1 : p[i] = Output(g)[s + i - 1]
  <2>1. /\ p \in Seq(Bytes) /\ Len(p) = u - s + 1
        /\ \A i \in 1 .. u - s + 1 : p[i] = Output(g)[s + i - 1]
    BY PartFacts
  <2>2. u - s + 1 \in Nat
    OBVIOUS
  <2> HIDE DEF p
  <2> QED BY <2>1, <2>2
<1>2. /\ Part(g, s + n, u) \in Seq(Bytes) /\ Len(Part(g, s + n, u)) = u - s - n + 1
      /\ \A i \in 1 .. u - s - n + 1 :
            Part(g, s + n, u)[i] = Output(g)[s + n + i - 1]
  <2>1. s + n \in Nat /\ s + n >= 1 /\ s + n <= u + 1
    OBVIOUS
  <2> QED BY <2>1, PartFacts
<1> HIDE DEF p
<1>3. \A i \in n + 1 .. Len(p) : p[i] \in Bytes
  BY <1>1
<1>4. /\ q \in Seq(Bytes)
      /\ Len(q) = IF n + 1 <= Len(p) THEN Len(p) - (n + 1) + 1 ELSE 0
      /\ \A i \in 1 .. Len(p) - (n + 1) + 1 : q[i] = p[n + 1 + i - 1]
  <2>1. n + 1 \in Int /\ Len(p) \in Int
    BY <1>1
  <2> QED BY <1>3, <2>1, SubSeqProperties
<1> HIDE DEF q
<1>5. Len(q) = u - s - n + 1
  BY <1>1, <1>4
<1>6. ASSUME NEW i \in 1 .. u - s - n + 1
      PROVE  q[i] = Part(g, s + n, u)[i]
  <2>1. /\ n + i \in 1 .. u - s + 1 /\ n + 1 + i - 1 = n + i
        /\ s + (n + i) - 1 = s + n + i - 1
    OBVIOUS
  <2>2. (u - s + 1) - (n + 1) + 1 = u - s - n + 1
    OBVIOUS
  <2>3. q[i] = p[n + i]
    BY <1>1, <1>4, <2>1, <2>2
  <2>4. p[n + i] = Output(g)[s + n + i - 1]
    BY <1>1, <2>1
  <2> QED BY <1>2, <2>3, <2>4
<1>7. q = Part(g, s + n, u)
  BY <1>2, <1>4, <1>5, <1>6, SeqEqual
<1> QED BY <1>7 DEF p, q

(* What is stripped begins with the first byte that is no separator. *)
LEMMA StripAt ==
  ASSUME NEW b \in Seq(Bytes), NEW n \in 0 .. Len(b),
         \A i \in 1 .. n : b[i] = Comma,
         n < Len(b) => b[n + 1] # Comma
  PROVE  Strip(b) = SubSeq(b, n + 1, Len(b))
<1>1. DOMAIN b = 1 .. Len(b) /\ Len(b) \in Nat
  OBVIOUS
<1>2. CASE n = Len(b)
  <2>1. Others(b) = {}
    BY <1>1, <1>2 DEF Others
  <2>2. SubSeq(b, n + 1, Len(b)) = <<>>
    BY <1>1, <1>2, SubSeqEmpty
  <2> QED BY <2>1, <2>2 DEF Strip
<1>3. CASE n < Len(b)
  <2>1. n + 1 \in Others(b) /\ Others(b) \subseteq Nat
        /\ \A i \in Others(b) : i >= n + 1
    BY <1>1, <1>3 DEF Others
  <2>2. Min(Others(b)) \in Others(b) /\ \A y \in Others(b) : Min(Others(b)) <= y
    BY <2>1, Least
  <2>3. Min(Others(b)) = n + 1
    BY <2>1, <2>2
  <2> QED BY <2>1, <2>3 DEF Strip
<1> DEFINE m == Len(b)
<1>4. m \in Nat /\ n \in 0 .. m
  BY <1>1
<1> HIDE DEF m
<1>5. n = m \/ n < m
  BY <1>4
<1>6. n = Len(b) \/ n < Len(b)
  BY <1>5 DEF m
<1> QED BY <1>2, <1>3, <1>6

-----------------------------------------------------------------------------
(* What is decoded of the output, from between two objects on.             *)

(* The k-th object is whole among the first u bytes and before the garbled *)
(* one.                                                                    *)
Fits(g, u, k) == 4 * k - 1 <= u /\ (g > 0 => 4 * k - 1 < g)

(* The first byte behind K objects, and behind a separator that is whole.  *)
From(g, K) == IF K > 0 /\ g = 4 * K THEN 4 * K ELSE 4 * K + 1

(* The bytes from s to u begin behind the K-th object. *)
Behind(g, K, s, u) ==
    /\ K > 0 => Fits(g, u, K)
    /\ s \in {4 * K, 4 * K + 1} /\ s >= 1 /\ s <= u + 1
    /\ s = 4 * K + 1 => ~(K > 0 /\ g = 4 * K)

(* The separator behind an object is dropped, unless it is garbled.        *)
LEMMA StripPart ==
  ASSUME NEW g \in 0 .. 4 * Objects, NEW K \in 0 .. Objects,
         NEW u \in 0 .. 4 * Objects, NEW s \in Nat, Behind(g, K, s, u)
  PROVE  Strip(Part(g, s, u)) = Part(g, From(g, K), u)
<1> USE GpuAssumption
<1> DEFINE p == Part(g, s, u)
           m == u - s + 1
<1>1. /\ s >= 1 /\ s <= u + 1 /\ s \in {4 * K, 4 * K + 1}
      /\ s = 4 * K + 1 => ~(K > 0 /\ g = 4 * K)
      /\ K > 0 => (g > 0 => 4 * K - 1 < g)
  BY DEF Behind, Fits
<1>2. /\ p \in Seq(Bytes) /\ Len(p) = m /\ m \in Nat
      /\ \A i \in 1 .. m : p[i] = Output(g)[s + i - 1]
  BY <1>1, PartFacts
<1>3. \A n \in 0 .. m : SubSeq(p, n + 1, Len(p)) = Part(g, s + n, u)
  BY <1>1, PartOfPart
<1> HIDE DEF p, m
(* The first byte of an object is no separator. *)
<1>4. ASSUME 4 * K + 1 <= u
      PROVE  Output(g)[4 * K + 1] # Comma
  <2> DEFINE k == K + 1
  <2>1. k \in 1 .. Objects /\ 4 * K + 1 = 4 * k - 3
    BY <1>4
  <2> HIDE DEF k
  <2>2. CASE g = 4 * k - 3
    <3>1. Output(g)[g] = Garbage
      BY <2>1, <2>2, OutputFacts
    <3> QED BY <2>1, <2>2, <3>1, ByteFacts
  <2>3. CASE g # 4 * k - 3
    <3>1. Output(g)[4 * k - 3] = Opening(k)
      BY <2>1, <2>3, OutputFacts
    <3> QED BY <2>1, <3>1, ByteFacts
  <2> QED BY <2>2, <2>3
<1>5. CASE s = 4 * K /\ g = 4 * K
  <2>1. From(g, K) = s + 0
    BY <1>1, <1>5 DEF From
  <2>2. 0 < m => p[0 + 1] # Comma
    <3> SUFFICES ASSUME 0 < m PROVE p[1] # Comma
      OBVIOUS
    <3>1. p[1] = Output(g)[g]
      <4>1. 1 \in 1 .. m /\ s + 1 - 1 = g
        BY <1>2, <1>5
      <4> QED BY <1>2, <4>1
    <3>2. g # 0
      BY <1>1, <1>5
    <3> QED BY <3>1, <3>2, OutputFacts, ByteFacts
  <2>3. Strip(p) = SubSeq(p, 0 + 1, Len(p))
    <3>1. 0 \in 0 .. Len(p) /\ \A i \in 1 .. 0 : p[i] = Comma
      BY <1>2
    <3>2. 0 < Len(p) => p[0 + 1] # Comma
      BY <1>2, <2>2
    <3> QED BY <1>2, <3>1, <3>2, StripAt
  <2>4. 0 \in 0 .. m
    BY <1>2
  <2> QED BY <1>3, <2>1, <2>3, <2>4 DEF p
<1>6. CASE s = 4 * K /\ g # 4 * K /\ s <= u
  <2>1. From(g, K) = s + 1
    BY <1>1, <1>6 DEF From
  <2>2. 1 \in 0 .. m /\ 1 \in 1 .. m /\ K \in 1 .. Objects
    BY <1>1, <1>6 DEF m
  <2>3. p[1] = Comma
    <3>1. s + 1 - 1 = 4 * K
      BY <1>6
    <3>2. p[1] = Output(g)[4 * K]
      BY <1>2, <2>2, <3>1
    <3> QED BY <1>6, <2>2, <3>2, OutputFacts
  <2>4. 1 < m => p[1 + 1] # Comma
    <3> SUFFICES ASSUME 1 < m PROVE p[2] # Comma
      OBVIOUS
    <3>1. 2 \in 1 .. m /\ s + 2 - 1 = 4 * K + 1 /\ 4 * K + 1 <= u
      BY <1>2, <1>6 DEF m
    <3>2. p[2] = Output(g)[4 * K + 1]
      BY <1>2, <3>1
    <3> QED BY <1>4, <3>1, <3>2
  <2>5. Strip(p) = SubSeq(p, 1 + 1, Len(p))
    <3>1. 1 \in 0 .. Len(p) /\ \A i \in 1 .. 1 : p[i] = Comma
      BY <1>2, <2>2, <2>3
    <3>2. 1 < Len(p) => p[1 + 1] # Comma
      BY <1>2, <2>4
    <3> QED BY <1>2, <3>1, <3>2, StripAt
  <2> QED BY <1>3, <2>1, <2>2, <2>5 DEF p
<1>7. CASE s = 4 * K /\ g # 4 * K /\ s = u + 1
  <2>1. p = <<>>
    <3>1. m = 0
      BY <1>7 DEF m
    <3> QED BY <1>2, <3>1
  <2>2. Strip(<<>>) = <<>>
    <3>1. Others(<<>>) = {}
      BY DEF Others
    <3> QED BY <3>1 DEF Strip
  <2>3. From(g, K) = s + 1 /\ s + 1 \in Int /\ u \in Int /\ u < s + 1
    BY <1>1, <1>7 DEF From
  <2>4. Part(g, s + 1, u) = <<>>
    BY <2>3, SubSeqEmpty DEF Part
  <2> QED BY <2>1, <2>2, <2>3, <2>4 DEF p
<1>8. CASE s = 4 * K + 1
  <2>1. From(g, K) = s + 0
    BY <1>1, <1>8 DEF From
  <2>2. 0 < m => p[0 + 1] # Comma
    <3> SUFFICES ASSUME 0 < m PROVE p[1] # Comma
      OBVIOUS
    <3>1. 1 \in 1 .. m /\ s + 1 - 1 = 4 * K + 1 /\ 4 * K + 1 <= u
      BY <1>2, <1>8 DEF m
    <3>2. p[1] = Output(g)[4 * K + 1]
      BY <1>2, <3>1
    <3> QED BY <1>4, <3>1, <3>2
  <2>3. Strip(p) = SubSeq(p, 0 + 1, Len(p))
    <3>1. 0 \in 0 .. Len(p) /\ \A i \in 1 .. 0 : p[i] = Comma
      BY <1>2
    <3>2. 0 < Len(p) => p[0 + 1] # Comma
      BY <1>2, <2>2
    <3> QED BY <1>2, <3>1, <3>2, StripAt
  <2>4. 0 \in 0 .. m
    BY <1>2
  <2> QED BY <1>3, <2>1, <2>3, <2>4 DEF p
<1>9. s <= u \/ s = u + 1
  BY <1>1
<1> QED BY <1>1, <1>5, <1>6, <1>7, <1>8, <1>9

(* An object is found there just when the next one is whole. *)
LEMMA WholePart ==
  ASSUME NEW g \in 0 .. 4 * Objects, NEW K \in 0 .. Objects,
         NEW u \in 0 .. 4 * Objects, NEW s \in Nat, Behind(g, K, s, u)
  PROVE  LET p == Part(g, From(g, K), u)
         IN  /\ Whole(p) <=> Fits(g, u, K + 1)
             /\ Fits(g, u, K + 1) =>
                   /\ K + 1 \in 1 .. Objects
                   /\ From(g, K) = 4 * K + 1
                   /\ p[1][2] = K + 1
                   /\ SubSeq(p, 4, Len(p)) = Part(g, 4 * (K + 1), u)
                   /\ Behind(g, K + 1, 4 * (K + 1), u)
<1> USE GpuAssumption
<1> DEFINE f == From(g, K)
           p == Part(g, f, u)
           k == K + 1
           m == u - f + 1
<1>1. /\ s >= 1 /\ s <= u + 1 /\ s \in {4 * K, 4 * K + 1}
      /\ s = 4 * K + 1 => ~(K > 0 /\ g = 4 * K)
      /\ K > 0 => (g > 0 => 4 * K - 1 < g) /\ 4 * K - 1 <= u
  BY DEF Behind, Fits
<1>2. /\ f \in {4 * K, 4 * K + 1} /\ f >= 1
      /\ f = 4 * K <=> K > 0 /\ g = 4 * K
  BY DEF From
<1> HIDE DEF f, p, k, m
<1>3. ASSUME f <= u + 1
      PROVE  /\ p \in Seq(Bytes) /\ Len(p) = m /\ m \in Nat
             /\ \A i \in 1 .. m : p[i] = Output(g)[f + i - 1]
             /\ 3 <= m => SubSeq(p, 4, Len(p)) = Part(g, f + 3, u)
  <2>1. f \in Nat /\ f >= 1
    BY <1>2
  <2>2. /\ p \in Seq(Bytes) /\ Len(p) = m
        /\ \A i \in 1 .. m : p[i] = Output(g)[f + i - 1]
    BY <1>3, <2>1, PartFacts DEF p, m
  <2>3. m \in Nat
    BY <1>3, <2>1 DEF m
  <2>4. ASSUME 3 <= m
        PROVE  SubSeq(p, 4, Len(p)) = Part(g, f + 3, u)
    <3>1. 3 \in 0 .. u - f + 1 /\ 3 + 1 = 4
      BY <2>1, <2>4 DEF m
    <3>2. SubSeq(p, 3 + 1, Len(p)) = Part(g, f + 3, u)
      BY <1>3, <2>1, <3>1, PartOfPart DEF p
    <3> QED BY <3>1, <3>2
  <2> QED BY <2>2, <2>3, <2>4
<1>4. ASSUME f > u + 1
      PROVE  ~Whole(p) /\ ~Fits(g, u, k)
  <2>1. f \in Int /\ u < f
    BY <1>2, <1>4
  <2>2. p = <<>>
    BY <2>1, SubSeqEmpty DEF p, Part
  <2>3. ~Whole(<<>>)
    BY DEF Whole
  <2>4. ~Fits(g, u, k)
    BY <1>2, <1>4 DEF Fits, k
  <2> QED BY <2>2, <2>3, <2>4
(* The garbled separator. *)
<1>5. ASSUME f <= u + 1, f = 4 * K
      PROVE  ~Whole(p) /\ ~Fits(g, u, k)
  <2>1. g = f /\ g # 0
    BY <1>2, <1>5
  <2>2. ASSUME Whole(p) PROVE FALSE
    <3>1. 1 \in 1 .. m /\ f + 1 - 1 = g
      BY <1>3, <1>5, <2>1, <2>2 DEF Whole
    <3>2. p[1] = Output(g)[g]
      BY <1>3, <1>5, <3>1
    <3>3. p[1] = Garbage
      BY <2>1, <3>2, OutputFacts
    <3> QED BY <2>2, <3>3, ByteFacts DEF Whole
  <2>3. ~Fits(g, u, k)
    BY <1>5, <2>1 DEF Fits, k
  <2> QED BY <2>2, <2>3
<1>6. ASSUME f <= u + 1, f = 4 * K + 1
      PROVE  Whole(p) <=> Fits(g, u, k)
  <2>1. CASE m < 3
    <3>1. ~Whole(p)
      BY <1>3, <1>6, <2>1 DEF Whole
    <3>2. ~Fits(g, u, k)
      BY <1>6, <2>1 DEF Fits, k, m
    <3> QED BY <3>1, <3>2
  <2>2. CASE m >= 3
    <3>1. /\ k \in 1 .. Objects /\ 1 \in 1 .. m /\ 2 \in 1 .. m /\ 3 \in 1 .. m
          /\ f + 1 - 1 = 4 * k - 3 /\ f + 2 - 1 = 4 * k - 2
          /\ f + 3 - 1 = 4 * k - 1 /\ 4 * k - 1 <= u
      BY <1>3, <1>6, <2>2 DEF m, k
    <3>2. /\ p[1] = Output(g)[4 * k - 3] /\ p[2] = Output(g)[4 * k - 2]
          /\ p[3] = Output(g)[4 * k - 1]
      BY <1>3, <1>6, <3>1
    <3>3. ASSUME g \in {4 * k - 3, 4 * k - 2, 4 * k - 1}
          PROVE  ~Whole(p) /\ ~Fits(g, u, k)
      <4>1. g # 0 /\ ~Fits(g, u, k)
        BY <3>1, <3>3 DEF Fits
      <4>2. Output(g)[g] = Garbage
        BY <4>1, OutputFacts
      <4>3. p[1] = Garbage \/ p[2] = Garbage \/ p[3] = Garbage
        BY <3>2, <3>3, <4>2
      <4>4. Garbage # Comma /\ Garbage[1] = "garbage"
        BY ByteFacts
      <4>5. ~Whole(p)
        BY <4>3, <4>4 DEF Whole
      <4> QED BY <4>1, <4>5
    <3>4. ASSUME g \notin {4 * k - 3, 4 * k - 2, 4 * k - 1}
          PROVE  Whole(p) /\ Fits(g, u, k)
      <4>1. p[1] = Opening(k) /\ p[2] = Comma /\ p[3] = Closing(k)
        BY <3>1, <3>2, <3>4, OutputFacts
      <4>2. Whole(p)
        <5>1. Opening(k)[1] = "opening" /\ Closing(k)[1] = "closing"
          BY <3>1, ByteFacts
        <5>2. Len(p) >= 3
          BY <1>3, <1>6, <2>2
        <5> QED BY <4>1, <5>1, <5>2 DEF Whole
      <4>3. g > 0 => 4 * k - 1 < g
        BY <1>1, <1>2, <1>6, <3>4 DEF k
      <4> QED BY <3>1, <4>2, <4>3 DEF Fits
    <3> QED BY <3>3, <3>4
  <2>3. m < 3 \/ m >= 3
    BY <1>3, <1>6
  <2> QED BY <2>1, <2>2, <2>3
<1>7. ASSUME Fits(g, u, k)
      PROVE  /\ k \in 1 .. Objects
             /\ f = 4 * K + 1
             /\ p[1][2] = k
             /\ SubSeq(p, 4, Len(p)) = Part(g, 4 * k, u)
             /\ Behind(g, k, 4 * k, u)
  <2>1. f = 4 * K + 1 /\ f <= u + 1
    BY <1>2, <1>4, <1>5, <1>7
  <2>2. /\ k \in 1 .. Objects /\ 3 <= m /\ 4 * k - 1 <= u /\ 1 \in 1 .. m
        /\ f + 1 - 1 = 4 * k - 3 /\ f + 3 = 4 * k /\ g # 4 * k - 3
    BY <1>7, <2>1 DEF Fits, k, m
  <2>3. p[1] = Opening(k)
    <3>1. p[1] = Output(g)[4 * k - 3]
      BY <1>3, <2>1, <2>2
    <3> QED BY <2>2, <3>1, OutputFacts
  <2>4. p[1][2] = k
    BY <2>2, <2>3, ByteFacts
  <2>5. SubSeq(p, 4, Len(p)) = Part(g, 4 * k, u)
    BY <1>3, <2>1, <2>2
  <2>6. Behind(g, k, 4 * k, u)
    BY <1>7, <2>2 DEF Behind
  <2> QED BY <2>1, <2>2, <2>4, <2>5, <2>6
<1>8. Whole(p) <=> Fits(g, u, k)
  <2>1. f > u + 1 \/ (f <= u + 1 /\ (f = 4 * K \/ f = 4 * K + 1))
    BY <1>2
  <2> QED BY <1>4, <1>5, <1>6, <2>1
<1> QED BY <1>7, <1>8 DEF f, p, k

(* What is decoded from behind the K-th object: the objects up to the last *)
(* that is whole, and what is behind it.                                   *)
Found(g, K, s, u) ==
    \E L \in K .. Objects :
        /\ \A k \in 1 .. Objects : Fits(g, u, k) <=> k <= L
        /\ Decoded[Part(g, s, u)] = [objects |-> [i \in 1 .. L - K |-> K + i],
                                     left |-> Part(g, From(g, L), u)]

(* Sequences of consecutive numbers. *)
LEMMA Consecutive ==
  ASSUME NEW K \in Nat, NEW L \in Nat, K < L
  PROVE  <<K + 1>> \o [i \in 1 .. L - (K + 1) |-> (K + 1) + i]
            = [i \in 1 .. L - K |-> K + i]
<1> DEFINE a == <<K + 1>>
           b == [i \in 1 .. L - (K + 1) |-> (K + 1) + i]
           c == [i \in 1 .. L - K |-> K + i]
<1>1. a \in Seq(Nat) /\ Len(a) = 1 /\ a[1] = K + 1
  OBVIOUS
<1>2. b \in Seq(Nat) /\ Len(b) = L - (K + 1)
      /\ \A i \in 1 .. L - (K + 1) : b[i] = (K + 1) + i
  <2>1. L - (K + 1) \in Nat
    OBVIOUS
  <2>2. \A i \in 1 .. L - (K + 1) : (K + 1) + i \in Nat
    OBVIOUS
  <2> QED BY <2>1, <2>2
<1>3. c \in Seq(Nat) /\ Len(c) = L - K
      /\ \A i \in 1 .. L - K : c[i] = K + i
  <2>1. L - K \in Nat
    OBVIOUS
  <2>2. \A i \in 1 .. L - K : K + i \in Nat
    OBVIOUS
  <2> QED BY <2>1, <2>2
<1> HIDE DEF a, b, c
<1>4. /\ a \o b \in Seq(Nat) /\ Len(a \o b) = Len(a) + Len(b)
      /\ \A i \in 1 .. Len(a) + Len(b) :
            (a \o b)[i] = IF i <= Len(a) THEN a[i] ELSE b[i - Len(a)]
  <2>1. a \in Seq(Nat) /\ b \in Seq(Nat)
    BY <1>1, <1>2
  <2> QED BY <2>1, ConcatProperties
<1>5. Len(a \o b) = Len(c) /\ Len(c) = L - K
  BY <1>1, <1>2, <1>3, <1>4
<1>6. \A i \in 1 .. Len(a \o b) : (a \o b)[i] = c[i]
  <2> TAKE i \in 1 .. Len(a \o b)
  <2>1. i \in 1 .. Len(a) + Len(b) /\ i \in 1 .. L - K
    BY <1>4, <1>5
  <2>2. (a \o b)[i] = IF i <= 1 THEN a[i] ELSE b[i - 1]
    BY <1>1, <1>4, <2>1
  <2>3. c[i] = K + i
    BY <1>3, <2>1
  <2>4. CASE i = 1
    BY <1>1, <2>2, <2>3, <2>4
  <2>5. CASE i # 1
    <3>1. i - 1 \in 1 .. L - (K + 1) /\ ~(i <= 1) /\ (K + 1) + (i - 1) = K + i
      BY <2>1, <2>5
    <3> QED BY <1>2, <2>2, <2>3, <3>1
  <2> QED BY <2>4, <2>5
<1>7. a \o b = c
  BY <1>3, <1>4, <1>5, <1>6, SeqEqual
<1> QED BY <1>7 DEF a, b, c

(* An object is put in front of those found behind it.                     *)
LEMMA Prepend ==
  ASSUME NEW x, NEW y, NEW z
  PROVE  [[objects |-> x, left |-> y] EXCEPT !.objects = z \o @]
            = [objects |-> z \o x, left |-> y]
<1> DEFINE w == z \o x
<1>1. z \o [objects |-> x, left |-> y].objects = w
  OBVIOUS
<1> HIDE DEF w
<1>2. [[objects |-> x, left |-> y] EXCEPT !.objects = w]
         = [objects |-> w, left |-> y]
  OBVIOUS
<1> QED BY <1>1, <1>2 DEF w

(* One turn of the loop finds what it should if the others do.             *)
LEMMA DecodeStep ==
  ASSUME NEW g \in 0 .. 4 * Objects, NEW K \in 0 .. Objects,
         NEW u \in 0 .. 4 * Objects, NEW s \in Nat, Behind(g, K, s, u),
         K + 1 \in 1 .. Objects /\ Behind(g, K + 1, 4 * (K + 1), u)
            => Found(g, K + 1, 4 * (K + 1), u)
  PROVE  Found(g, K, s, u)
<1> USE GpuAssumption
<1> DEFINE b == Part(g, s, u)
           p == Part(g, From(g, K), u)
           q == Part(g, 4 * (K + 1), u)
<1>1. b \in Seq(Bytes)
  BY PartFacts DEF Behind
<1>2. Strip(b) = p
  BY StripPart
<1>3. Decoded[b] = Decode(Decoded, b)
  BY <1>1, DecodedIs
<1>4. /\ Whole(p) <=> Fits(g, u, K + 1)
      /\ Fits(g, u, K + 1) =>
            /\ K + 1 \in 1 .. Objects /\ p[1][2] = K + 1
            /\ SubSeq(p, 4, Len(p)) = q
            /\ Behind(g, K + 1, 4 * (K + 1), u)
  BY WholePart
<1> HIDE DEF b, p, q
<1>5. CASE Fits(g, u, K + 1)
  <2>1. Found(g, K + 1, 4 * (K + 1), u)
    BY <1>4, <1>5
  <2>2. PICK L \in K + 1 .. Objects :
           /\ \A k \in 1 .. Objects : Fits(g, u, k) <=> k <= L
           /\ Decoded[q] = [objects |-> [i \in 1 .. L - (K + 1) |-> (K + 1) + i],
                            left |-> Part(g, From(g, L), u)]
    BY <2>1 DEF Found, q
  <2>3. Rest(b) = q
    BY <1>2, <1>4, <1>5 DEF Rest
  <2>4. Decoded[b] = [Decoded[q] EXCEPT !.objects = <<K + 1>> \o @]
    BY <1>2, <1>3, <1>4, <1>5, <2>3 DEF Decode
  <2> DEFINE later == [i \in 1 .. L - (K + 1) |-> (K + 1) + i]
             all == [i \in 1 .. L - K |-> K + i]
             end == Part(g, From(g, L), u)
  <2>5. <<K + 1>> \o later = all
    <3>1. K \in Nat /\ L \in Nat /\ K < L
      OBVIOUS
    <3> HIDE DEF later, all
    <3> QED BY <3>1, Consecutive DEF later, all
  <2>6. Decoded[q] = [objects |-> later, left |-> end]
    BY <2>2
  <2> HIDE DEF later, all, end
  <2>7. Decoded[b] = [objects |-> all, left |-> end]
    <3> DEFINE first == <<K + 1>>
    <3>1. /\ Decoded[b] = [Decoded[q] EXCEPT !.objects = first \o @]
          /\ first \o later = all
      BY <2>4, <2>5
    <3> HIDE DEF first
    <3>2. Decoded[b]
             = [[objects |-> later, left |-> end] EXCEPT !.objects = first \o @]
      BY <2>6, <3>1
    <3>3. Decoded[b] = [objects |-> first \o later, left |-> end]
      BY <3>2, Prepend
    <3> QED BY <3>1, <3>3
  <2>8. L \in K .. Objects
    OBVIOUS
  <2> QED BY <2>2, <2>7, <2>8 DEF Found, b, all, end
<1>6. CASE ~Fits(g, u, K + 1)
  <2>1. Decoded[b] = [objects |-> <<>>, left |-> p]
    BY <1>2, <1>3, <1>4, <1>6 DEF Decode
  <2>2. [i \in 1 .. K - K |-> K + i] = <<>>
    OBVIOUS
  <2>3. ASSUME NEW k \in 1 .. Objects
        PROVE  Fits(g, u, k) <=> k <= K
    BY <1>6 DEF Fits, Behind
  <2>4. K \in K .. Objects
    OBVIOUS
  <2> QED BY <2>1, <2>2, <2>3, <2>4 DEF Found, b, p
<1> QED BY <1>5, <1>6

(* So all of them do: else there were a least number of objects to go on  *)
(* from which they do not.                                                 *)
LEMMA DecodeFrom ==
  ASSUME NEW g \in 0 .. 4 * Objects, NEW K \in 0 .. Objects,
         NEW u \in 0 .. 4 * Objects, NEW s \in Nat, Behind(g, K, s, u)
  PROVE  Found(g, K, s, u)
<1> USE GpuAssumption
<1> DEFINE Fails(d) == \E H \in 0 .. Objects, r \in Nat :
                          /\ Objects - H = d /\ Behind(g, H, r, u)
                          /\ ~Found(g, H, r, u)
           T == {d \in Nat : Fails(d)}
<1> SUFFICES ASSUME ~Found(g, K, s, u) PROVE FALSE
  OBVIOUS
<1>1. Objects - K \in T
  OBVIOUS
<1>2. PICK d \in T : \A e \in T : d <= e
  <2> HIDE DEF Fails
  <2>1. T \subseteq Nat /\ T # {}
    BY <1>1
  <2> QED BY <2>1, Least
<1>3. PICK H \in 0 .. Objects, r \in Nat :
         Objects - H = d /\ Behind(g, H, r, u) /\ ~Found(g, H, r, u)
  OBVIOUS
<1>4. ASSUME H + 1 \in 1 .. Objects, Behind(g, H + 1, 4 * (H + 1), u),
             ~Found(g, H + 1, 4 * (H + 1), u)
      PROVE  FALSE
  <2>1. /\ H + 1 \in 0 .. Objects /\ 4 * (H + 1) \in Nat
        /\ Objects - (H + 1) = d - 1 /\ d - 1 \in Nat
    BY <1>3, <1>4
  <2>2. Fails(d - 1)
    BY <1>4, <2>1
  <2> HIDE DEF Fails
  <2> QED BY <1>2, <2>1, <2>2
<1>5. Found(g, H, r, u)
  BY <1>3, <1>4, DecodeStep
<1> QED BY <1>3, <1>5

-----------------------------------------------------------------------------
(* The monitor.                                                            *)

(* K objects have arrived whole: the K-th is shown, and the buffer begins  *)
(* behind it.                                                              *)
ArrivedInv(K) ==
    /\ \A k \in 1 .. Objects : Fits(tool.garbled, tool.read, k) <=> k <= K
    /\ buffer = Part(tool.garbled, From(tool.garbled, K), tool.read)
    /\ K = 0 => ~got_any /\ (reading[1] = "available" => reading[2] # tool.run)
    /\ K > 0 => reading = <<"available", tool.run, K>>

MonitorInv ==
    /\ tool \in [run : Nat, garbled : 0 .. 4 * Objects, read : 0 .. 4 * Objects]
    /\ reading[1] = "available" => reading[2] \in Nat /\ reading[2] <= tool.run
    /\ monitor = "reading" => \E K \in 0 .. Objects : ArrivedInv(K)

(* A run starts with nothing read and none of its objects shown.           *)
LEMMA LaunchMonitor == MonitorInv /\ Launch => MonitorInv'
<1> SUFFICES ASSUME MonitorInv, Launch PROVE MonitorInv'
  OBVIOUS
<1> USE GpuAssumption
<1>1. PICK g \in Garbled : tool' = [run |-> tool.run + 1, garbled |-> g, read |-> 0]
  BY DEF Launch
<1>2. /\ buffer' = <<>> /\ got_any' = FALSE /\ reading' = reading
  BY DEF Launch
<1>3. tool.run \in Nat /\ g \in 0 .. 4 * Objects
  BY DEF MonitorInv
<1>4. tool'.run = tool.run + 1 /\ tool'.garbled = g /\ tool'.read = 0
  BY <1>1
<1>5. reading[1] = "available" => reading[2] \in Nat /\ reading[2] <= tool.run
  BY DEF MonitorInv
<1>6. Part(g, From(g, 0), 0) = <<>>
  <2>1. From(g, 0) = 1
    BY DEF From
  <2>2. SubSeq(Output(g), 1, 0) = <<>>
    BY SubSeqEmpty
  <2> QED BY <2>1, <2>2 DEF Part
<1>7. \A k \in 1 .. Objects : Fits(g, 0, k) <=> k <= 0
  BY DEF Fits
<1>8. ArrivedInv(0)'
  <2>1. \A k \in 1 .. Objects : Fits(tool'.garbled, tool'.read, k) <=> k <= 0
    BY <1>4, <1>7
  <2>2. buffer' = Part(tool'.garbled, From(tool'.garbled, 0), tool'.read)
    BY <1>2, <1>4, <1>6
  <2>3. ~got_any' /\ (reading'[1] = "available" => reading'[2] # tool'.run)
    BY <1>2, <1>3, <1>4, <1>5
  <2> QED BY <2>1, <2>2, <2>3 DEF ArrivedInv
<1>9. tool' \in [run : Nat, garbled : 0 .. 4 * Objects, read : 0 .. 4 * Objects]
  BY <1>1, <1>3
<1>10. reading'[1] = "available" => reading'[2] \in Nat /\ reading'[2] <= tool'.run
  BY <1>2, <1>3, <1>4, <1>5
<1> QED BY <1>8, <1>9, <1>10 DEF MonitorInv

(* The pipe's next bytes join the buffer without a gap. *)
LEMMA Joined ==
  ASSUME NEW g \in 0 .. 4 * Objects, NEW K \in 0 .. Objects,
         NEW r \in 0 .. 4 * Objects, NEW u \in r + 1 .. 4 * Objects,
         K > 0 => Fits(g, r, K)
  PROVE  \E s \in Nat :
            /\ Behind(g, K, s, u)
            /\ Part(g, From(g, K), r) \o Part(g, r + 1, u) = Part(g, s, u)
<1> USE GpuAssumption
<1> DEFINE f == From(g, K)
<1>1. /\ f \in Nat /\ f \in {4 * K, 4 * K + 1} /\ f >= 1
      /\ f = 4 * K <=> K > 0 /\ g = 4 * K
  BY DEF From
<1>2. /\ K > 0 => (g > 0 => 4 * K - 1 < g) /\ 4 * K - 1 <= r
      /\ K > 0 => Fits(g, u, K)
  BY DEF Fits
<1> HIDE DEF f
<1>3. CASE f <= r + 1
  <2>1. Behind(g, K, f, u)
    BY <1>1, <1>2, <1>3 DEF Behind
  <2>2. /\ f \in 1 .. Len(Output(g)) + 1 /\ r \in f - 1 .. Len(Output(g))
        /\ u \in r .. Len(Output(g)) /\ Output(g) \in Seq(Bytes)
    BY <1>1, <1>3, OutputFacts
  <2>3. Part(g, f, r) \o Part(g, r + 1, u) = Part(g, f, u)
    BY <2>2, ConcatAdjacentSubSeq DEF Part
  <2> QED BY <1>1, <2>1, <2>3 DEF f
<1>4. CASE f > r + 1
  <2>1. f = 4 * K + 1 /\ r + 1 = 4 * K /\ r + 1 \in Nat /\ K > 0
    BY <1>1, <1>2, <1>4
  <2>2. Behind(g, K, r + 1, u)
    BY <1>1, <1>2, <2>1 DEF Behind
  <2>3. Part(g, f, r) = <<>>
    <3>1. f \in Int /\ r \in Int /\ r < f
      BY <1>1, <1>4
    <3> QED BY <3>1, SubSeqEmpty DEF Part
  <2>4. Part(g, r + 1, u) \in Seq(Bytes)
    <3>1. u \in 0 .. 4 * Objects /\ r + 1 >= 1 /\ r + 1 <= u + 1
      BY <2>1
    <3> QED BY <2>1, <3>1, PartFacts
  <2>5. <<>> \o Part(g, r + 1, u) = Part(g, r + 1, u)
    BY <2>4, ConcatEmptySeq
  <2> QED BY <2>1, <2>2, <2>3, <2>5 DEF f
<1>5. f <= r + 1 \/ f > r + 1
  BY <1>1
<1> QED BY <1>3, <1>4, <1>5

(* A chunk, cut anywhere, keeps the invariant.                             *)
LEMMA ReadMonitor == MonitorInv /\ ReadChunk => MonitorInv'
<1> SUFFICES ASSUME MonitorInv, ReadChunk PROVE MonitorInv'
  OBVIOUS
<1> USE GpuAssumption
<1> DEFINE g == tool.garbled
           r == tool.read
<1>1. /\ tool \in [run : Nat, garbled : 0 .. 4 * Objects, read : 0 .. 4 * Objects]
      /\ reading[1] = "available" => reading[2] \in Nat /\ reading[2] <= tool.run
      /\ monitor = "reading"
  BY DEF MonitorInv, ReadChunk
<1>2. PICK K \in 0 .. Objects : ArrivedInv(K)
  BY <1>1 DEF MonitorInv
<1>3. g \in 0 .. 4 * Objects /\ r \in 0 .. 4 * Objects /\ tool.run \in Nat
  BY <1>1
<1>4. PICK u \in r + 1 .. 4 * Objects :
         LET now == Decoded[buffer \o Part(g, r + 1, u)]
         IN  /\ tool' = [tool EXCEPT !.read = u]
             /\ buffer' = now.left
             /\ IF now.objects = <<>>
                  THEN UNCHANGED <<got_any, reading>>
                  ELSE /\ got_any' = TRUE
                       /\ reading' = <<"available", tool.run,
                                       now.objects[Len(now.objects)]>>
  BY DEF ReadChunk, Part
<1>5. /\ tool' = [tool EXCEPT !.read = u]
      /\ tool'.run = tool.run /\ tool'.garbled = g /\ tool'.read = u
      /\ tool' \in [run : Nat, garbled : 0 .. 4 * Objects, read : 0 .. 4 * Objects]
  BY <1>1, <1>3, <1>4
<1> HIDE DEF g, r
<1>6. u \in 0 .. 4 * Objects
  BY <1>3
<1>7. PICK L \in K .. Objects :
         /\ \A k \in 1 .. Objects : Fits(g, u, k) <=> k <= L
         /\ Decoded[buffer \o Part(g, r + 1, u)]
               = [objects |-> [i \in 1 .. L - K |-> K + i],
                  left |-> Part(g, From(g, L), u)]
  <2>1. K > 0 => Fits(g, r, K)
    BY <1>2 DEF ArrivedInv, g, r
  <2>2. PICK s \in Nat :
           /\ Behind(g, K, s, u)
           /\ Part(g, From(g, K), r) \o Part(g, r + 1, u) = Part(g, s, u)
    BY <1>3, <2>1, Joined
  <2>3. Found(g, K, s, u)
    BY <1>3, <1>6, <2>2, DecodeFrom
  <2>4. buffer = Part(g, From(g, K), r)
    BY <1>2 DEF ArrivedInv, g, r
  <2> QED BY <2>2, <2>3, <2>4 DEF Found
<1> DEFINE now == Decoded[buffer \o Part(g, r + 1, u)]
           objects == [i \in 1 .. L - K |-> K + i]
<1>8. now.left = Part(g, From(g, L), u) /\ now.objects = objects
  BY <1>7
<1>9. /\ buffer' = now.left
      /\ now.objects = <<>> => UNCHANGED <<got_any, reading>>
      /\ now.objects # <<>> => got_any' = TRUE
            /\ reading' = <<"available", tool.run, now.objects[Len(now.objects)]>>
  BY <1>4
<1>10. Len(objects) = L - K /\ \A i \in 1 .. L - K : objects[i] = K + i
  BY <1>3
<1> HIDE DEF now, objects
<1>11. CASE L = K
  <2>1. objects = <<>>
    BY <1>11 DEF objects
  <2>2. UNCHANGED <<got_any, reading>>
    BY <1>8, <1>9, <2>1
  <2>3. ArrivedInv(K)'
    <3>1. \A k \in 1 .. Objects : Fits(tool'.garbled, tool'.read, k) <=> k <= K
      BY <1>5, <1>7, <1>11
    <3>2. buffer' = Part(tool'.garbled, From(tool'.garbled, K), tool'.read)
      BY <1>5, <1>8, <1>9, <1>11
    <3>3. K = 0 => /\ ~got_any'
                   /\ reading'[1] = "available" => reading'[2] # tool'.run
      BY <1>2, <1>5, <2>2 DEF ArrivedInv
    <3>4. K > 0 => reading' = <<"available", tool'.run, K>>
      BY <1>2, <1>5, <2>2 DEF ArrivedInv
    <3> QED BY <3>1, <3>2, <3>3, <3>4 DEF ArrivedInv
  <2>4. reading'[1] = "available" => reading'[2] \in Nat /\ reading'[2] <= tool'.run
    BY <1>1, <1>5, <2>2
  <2> QED BY <1>5, <2>3, <2>4 DEF MonitorInv
<1>12. CASE L # K
  <2>1. /\ L > K /\ L - K \in 1 .. L - K /\ L \in 0 .. Objects /\ L > 0
        /\ K + (L - K) = L
    BY <1>12
  <2>2. objects # <<>> /\ objects[Len(objects)] = L
    BY <1>10, <2>1
  <2>3. reading' = <<"available", tool.run, L>>
    BY <1>8, <1>9, <2>2
  <2>4. ArrivedInv(L)'
    <3>1. \A k \in 1 .. Objects : Fits(tool'.garbled, tool'.read, k) <=> k <= L
      BY <1>5, <1>7
    <3>2. buffer' = Part(tool'.garbled, From(tool'.garbled, L), tool'.read)
      BY <1>5, <1>8, <1>9
    <3>3. reading' = <<"available", tool'.run, L>>
      BY <1>5, <2>3
    <3> QED BY <2>1, <3>1, <3>2, <3>3 DEF ArrivedInv
  <2>5. reading'[2] = tool'.run /\ tool'.run \in Nat
    BY <1>3, <1>5, <2>3
  <2>6. reading'[2] \in Nat /\ reading'[2] <= tool'.run
    BY <2>5
  <2> QED BY <1>5, <2>1, <2>4, <2>6 DEF MonitorInv
<1> QED BY <1>11, <1>12

(* No run has a garbled byte or a byte read.                               *)
LEMMA NotRunningType ==
  NotRunning \in [run : Nat, garbled : 0 .. 4 * Objects, read : 0 .. 4 * Objects]
<1>1. 0 \in Nat /\ 0 \in 0 .. 4 * Objects
  BY GpuAssumption
<1> QED BY <1>1 DEF NotRunning

(* MonitorInv holds initially.                                             *)
LEMMA InitMonitor == Init => MonitorInv
<1> SUFFICES ASSUME Init PROVE MonitorInv
  OBVIOUS
<1>1. monitor = "new" /\ reading = <<"not checked yet">> /\ tool = NotRunning
  BY DEF Init, GpuInit
<1>2. reading[1] # "available"
  BY <1>1
<1>3. tool \in [run : Nat, garbled : 0 .. 4 * Objects, read : 0 .. 4 * Objects]
  BY <1>1, NotRunningType
<1> QED BY <1>1, <1>2, <1>3 DEF MonitorInv

(* Every step keeps MonitorInv.                                            *)
LEMMA NextMonitor == MonitorInv /\ [Next]_vars => MonitorInv'
<1> SUFFICES ASSUME MonitorInv, [Next]_vars PROVE MonitorInv'
  OBVIOUS
<1>1. CASE UNCHANGED gpuVars
  BY <1>1 DEF MonitorInv, ArrivedInv, gpuVars
<1>2. CASE Restart
  <2>1. monitor' = "new" /\ reading' = <<"not checked yet">> /\ tool' = NotRunning
    BY <1>2 DEF Restart
  <2>2. reading'[1] # "available"
    BY <2>1
  <2>3. tool' \in [run : Nat, garbled : 0 .. 4 * Objects, read : 0 .. 4 * Objects]
    BY <2>1, NotRunningType
  <2> QED BY <2>1, <2>2, <2>3 DEF MonitorInv
<1>3. CASE Launch
  BY <1>3, LaunchMonitor
<1>4. CASE ReadChunk
  BY <1>4, ReadMonitor
<1>5. CASE NoTool \/ LaunchFails \/ StreamEnds
  <2>1. monitor' # "reading" /\ tool' = tool
    BY <1>5 DEF NoTool, LaunchFails, StreamEnds
  <2>2. reading' = reading \/ reading' \in
           {<<"not installed">>, <<"disabled in config">>, <<"failed">>}
    BY <1>5 DEF NoTool, LaunchFails, StreamEnds
  <2>3. reading' = reading \/ reading'[1] # "available"
    <3>1. /\ <<"not installed">>[1] # "available"
          /\ <<"disabled in config">>[1] # "available"
          /\ <<"failed">>[1] # "available"
      OBVIOUS
    <3> QED BY <2>2, <3>1
  <2> QED BY <2>1, <2>3 DEF MonitorInv
<1>6. Next => UNCHANGED gpuVars \/ Restart \/ GpuNext
  BY DEF Next, Start, TakeSnapshot, Collect, LoopEnds, Tick
<1>7. UNCHANGED vars => UNCHANGED gpuVars
  BY DEF vars
<1> QED BY <1>1, <1>2, <1>3, <1>4, <1>5, <1>6, <1>7 DEF GpuNext

(* MonitorInv says what is shown.                                          *)
LEMMA MonitorShows == MonitorInv => NewestWholeReading
<1> SUFFICES ASSUME MonitorInv, monitor = "reading"
             PROVE  IF WholeOnes(tool) = {}
                      THEN /\ ~got_any
                           /\ reading[1] = "available" => reading[2] # tool.run
                      ELSE \E k \in WholeOnes(tool) :
                              /\ \A j \in WholeOnes(tool) : j <= k
                              /\ reading = <<"available", tool.run, k>>
  BY DEF NewestWholeReading
<1>1. PICK K \in 0 .. Objects : ArrivedInv(K)
  BY DEF MonitorInv
<1>2. WholeOnes(tool) = {k \in 1 .. Objects : Fits(tool.garbled, tool.read, k)}
  BY DEF WholeOnes, Fits
<1>3. WholeOnes(tool) = {k \in 1 .. Objects : k <= K}
  BY <1>1, <1>2 DEF ArrivedInv
<1>4. CASE K = 0
  <2>1. WholeOnes(tool) = {}
    BY <1>3, <1>4
  <2> QED BY <1>1, <1>4, <2>1 DEF ArrivedInv
<1>5. CASE K > 0
  <2>1. K \in WholeOnes(tool) /\ \A j \in WholeOnes(tool) : j <= K
    BY <1>3, <1>5, GpuAssumption
  <2>2. reading = <<"available", tool.run, K>>
    BY <1>1, <1>5 DEF ArrivedInv
  <2> QED BY <2>1, <2>2
<1>6. K = 0 \/ K > 0
  OBVIOUS
<1> QED BY <1>4, <1>5, <1>6

(* While a stream is read, the newest object that has arrived whole before *)
(* anything garbled is shown, wherever the pipe cut the stream.            *)
THEOREM NewestWholeIsShown == Spec => []NewestWholeReading
<1>1. Spec => []MonitorInv
  BY InitMonitor, NextMonitor, PTL DEF Spec
<1> QED BY <1>1, MonitorShows, PTL

=============================================================================
