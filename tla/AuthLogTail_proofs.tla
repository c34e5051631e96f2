-------------------------- MODULE AuthLogTail_proofs --------------------------
(***************************************************************************)
(* Proofs about AuthLogTail, for any number of lines, rotations, faults    *)
(* and days: a reader that has kept its place yields every line whole, in  *)
(* order and once, and loses none but to a fault or a rotation; and every  *)
(* line read in good time gets its own year.                               *)
(*                                                                         *)
(* InPlaceReading is not inductive.  The invariant adds that the bytes of  *)
(* the file, and of a batch in place, are whole lines in order (Whole,     *)
(* Ordered, stated by index), that the offset cuts none of them in two     *)
(* (Cut), that the buffer is empty, and that what was yielded, what the    *)
(* batch holds and what is unread are older and younger lines in this      *)
(* order (PlaceInv).  InPlaceLosses and DatedRight are preserved with the  *)
(* help of it and of bounds on the lines and dates there are.              *)
(***************************************************************************)
EXTENDS AuthLogTail, SequenceTheorems, WellFoundedInduction, TLAPS

Width(k) == 1 + (k % 2)

Begins(bytes, i) ==
    /\ i \in DOMAIN bytes /\ bytes[i] # Newline
    /\ i = 1 \/ bytes[i - 1] = Newline

LineAt(bytes, i, k) ==
    /\ i + Width(k) - 1 <= Len(bytes)
    /\ \A j \in i .. i + Width(k) - 1 : bytes[j] = k
    /\ i + Width(k) <= Len(bytes) => bytes[i + Width(k)] = Newline

(* What begins at the start or behind a newline is a line, up to the next  *)
(* newline or the end.                                                     *)
Whole(bytes) == \A i \in DOMAIN bytes : Begins(bytes, i) => LineAt(bytes, i, bytes[i])

(* Lines are older than those behind them. *)
Ordered(bytes) ==
    \A i, j \in DOMAIN bytes :
        i < j /\ bytes[i] # Newline /\ bytes[j] # Newline =>
            /\ bytes[i] <= bytes[j]
            /\ \A m \in i .. j : bytes[m] = Newline => bytes[i] < bytes[j]

(* Between the n-th byte and the next no line is cut in two. *)
Cut(bytes, n) ==
    \/ n = 0 \/ n = Len(bytes)
    \/ bytes[n] = Newline \/ bytes[n + 1] = Newline

Ended(bytes) == bytes = <<>> \/ bytes[Len(bytes)] = Newline

-----------------------------------------------------------------------------
(* A set of natural numbers has a least one. *)
LEMMA Least ==
  ASSUME NEW T, T \subseteq Nat, T # {}
  PROVE  /\ Min(T) \in T
         /\ \A y \in T : Min(T) <= y
<1> DEFINE R == OpToRel(<, Nat)
<1>1. IsWellFoundedOn(R, Nat)
  BY NatLessThanWellFounded
<1>2. R = {ss \in Nat \X Nat : ss[1] < ss[2]}
  BY ZenonT(20) DEF OpToRel
<1> HIDE DEF R
<1>3. PICK x \in T : \A y \in T : ~ (<<y, x>> \in R)
  BY <1>1, WFMin
<1>4. \A y \in T : x <= y
  <2> TAKE y \in T
  <2>1. y \in Nat /\ x \in Nat
    OBVIOUS
  <2>2. y < x => <<y, x>> \in R
    BY <1>2, <2>1
  <2>3. ~(<<y, x>> \in R)
    BY <1>3
  <2>4. ~(y < x)
    BY <2>2, <2>3
  <2> QED BY <2>1, <2>4
<1> QED BY <1>4 DEF Min

(* And one that is bounded a greatest. *)
LEMMA Greatest ==
  ASSUME NEW n \in Nat, NEW T, T \subseteq 0 .. n, T # {}
  PROVE  /\ Max(T) \in T
         /\ \A y \in T : y <= Max(T)
<1> DEFINE U == {n - x : x \in T}
<1>1. U \subseteq Nat /\ U # {}
  <2>1. \A x \in T : n - x \in Nat
    OBVIOUS
  <2> QED BY <2>1
<1>2. /\ Min(U) \in U
      /\ \A y \in U : Min(U) <= y
  BY <1>1, Least
<1>3. \E x \in T : \A y \in T : x >= y
  <2>1. PICK x \in T : Min(U) = n - x
    BY <1>2
  <2>2. \A y \in T : n - x <= n - y
    BY <1>2, <2>1
  <2> QED BY <2>1, <2>2
<1> QED BY <1>3 DEF Max

-----------------------------------------------------------------------------
(* Bytes, their newlines and their lines, by index. *)
LEMMA BytesFacts ==
  ASSUME NEW b \in Seq(Bytes)
  PROVE  /\ Len(b) \in Nat /\ DOMAIN b = 1 .. Len(b)
         /\ \A i \in 1 .. Len(b) : b[i] \in Bytes /\ b[i] \in Nat
         /\ b = <<>> <=> Len(b) = 0
         /\ \A x : x \in LinesIn(b) <=>
                     \E i \in 1 .. Len(b) : b[i] = x /\ x # Newline
         /\ LinesIn(b) \subseteq 1 .. MaxLines
<1>1. /\ Len(b) \in Nat /\ DOMAIN b = 1 .. Len(b)
      /\ \A i \in 1 .. Len(b) : b[i] \in Bytes
      /\ b = <<>> <=> Len(b) = 0
  OBVIOUS
<1>2. \A x \in Bytes : x \in Nat
  BY TailAssumption DEF Bytes
<1>3. \A x : x \in LinesIn(b) <=>
             \E i \in 1 .. Len(b) : b[i] = x /\ x # Newline
  BY <1>1 DEF LinesIn
<1>4. LinesIn(b) \subseteq 1 .. MaxLines
  BY <1>1, <1>3, TailAssumption DEF Bytes, Newline
<1> QED BY <1>1, <1>2, <1>3, <1>4

(* Part of some bytes. *)
LEMMA PieceFacts ==
  ASSUME NEW b \in Seq(Bytes), NEW m \in Nat, NEW n \in 0 .. Len(b)
  PROVE  /\ SubSeq(b, m + 1, n) \in Seq(Bytes)
         /\ Len(SubSeq(b, m + 1, n)) = IF m <= n THEN n - m ELSE 0
         /\ \A i \in 1 .. n - m : SubSeq(b, m + 1, n)[i] = b[m + i]
         /\ LinesIn(SubSeq(b, m + 1, n)) \subseteq LinesIn(b)
<1> DEFINE c == SubSeq(b, m + 1, n)
<1>1. /\ c \in Seq(Bytes)
      /\ Len(c) = IF m <= n THEN n - m ELSE 0
      /\ \A i \in 1 .. n - m : c[i] = b[m + i]
  <2>1. \A i \in m + 1 .. n : b[i] \in Bytes
    BY BytesFacts
  <2>2. m + 1 \in Int /\ n \in Int
    OBVIOUS
  <2>3. /\ c \in Seq(Bytes)
        /\ Len(c) = IF m + 1 <= n THEN n - (m + 1) + 1 ELSE 0
        /\ \A i \in 1 .. n - (m + 1) + 1 : c[i] = b[(m + 1) + i - 1]
    BY <2>1, <2>2, SubSeqProperties
  <2> HIDE DEF c
  <2> QED BY <2>3
<1> HIDE DEF c
<1>2. ASSUME NEW x \in LinesIn(c)
      PROVE  x \in LinesIn(b)
  <2>1. PICK i \in 1 .. Len(c) : c[i] = x /\ x # Newline
    BY <1>1, BytesFacts
  <2>2. i \in 1 .. n - m /\ m + i \in 1 .. Len(b)
    <3>1. Len(b) \in Nat
      BY BytesFacts
    <3> QED BY <1>1, <2>1, <3>1
  <2>3. b[m + i] = x
    BY <1>1, <2>1, <2>2
  <2> QED BY <2>1, <2>2, <2>3, BytesFacts
<1> QED BY <1>1, <1>2 DEF c

(* Bytes behind others. *)
LEMMA BehindFacts ==
  ASSUME NEW b \in Seq(Bytes), NEW c \in Seq(Bytes)
  PROVE  /\ b \o c \in Seq(Bytes)
         /\ Len(b \o c) = Len(b) + Len(c)
         /\ \A i \in 1 .. Len(b) : (b \o c)[i] = b[i]
         /\ \A i \in 1 .. Len(c) : (b \o c)[Len(b) + i] = c[i]
         /\ LinesIn(b \o c) = LinesIn(b) \cup LinesIn(c)
<1> DEFINE d == b \o c
<1>1. /\ d \in Seq(Bytes)
      /\ Len(d) = Len(b) + Len(c)
      /\ \A i \in 1 .. Len(b) : d[i] = b[i]
      /\ \A i \in 1 .. Len(c) : d[Len(b) + i] = c[i]
  BY ConcatProperties, BytesFacts
<1> HIDE DEF d
<1>2. ASSUME NEW x \in LinesIn(d)
      PROVE  x \in LinesIn(b) \cup LinesIn(c)
  <2>1. PICK i \in 1 .. Len(d) : d[i] = x /\ x # Newline
    BY <1>1, BytesFacts
  <2>2. CASE i <= Len(b)
    <3>1. i \in 1 .. Len(b)
      <4>1. Len(b) \in Nat /\ Len(d) \in Nat
        BY <1>1, BytesFacts
      <4> QED BY <2>1, <2>2, <4>1
    <3>2. b[i] = x
      BY <1>1, <2>1, <3>1
    <3> QED BY <2>1, <3>1, <3>2, BytesFacts
  <2>3. CASE i > Len(b)
    <3> DEFINE n == i - Len(b)
    <3>1. n \in 1 .. Len(c)
      <4>1. Len(b) \in Nat /\ Len(c) \in Nat
        BY BytesFacts
      <4> QED BY <1>1, <2>1, <2>3, <4>1
    <3>2. Len(b) + (i - Len(b)) = i
      BY BytesFacts
    <3>3. c[n] = x
      <4> HIDE DEF n
      <4>1. d[Len(b) + n] = c[n]
        BY <1>1, <3>1
      <4> QED BY <2>1, <3>2, <4>1 DEF n
    <3> QED BY <2>1, <3>1, <3>3, BytesFacts
  <2> QED BY <2>2, <2>3, BytesFacts
<1>3. ASSUME NEW x \in LinesIn(b)
      PROVE  x \in LinesIn(d)
  <2>1. PICK i \in 1 .. Len(b) : b[i] = x /\ x # Newline
    BY BytesFacts
  <2>2. i \in 1 .. Len(d) /\ d[i] = x
    BY <1>1, <2>1, BytesFacts
  <2> QED BY <1>1, <2>1, <2>2, BytesFacts
<1>4. ASSUME NEW x \in LinesIn(c)
      PROVE  x \in LinesIn(d)
  <2>1. PICK i \in 1 .. Len(c) : c[i] = x /\ x # Newline
    BY BytesFacts
  <2>2. Len(b) + i \in 1 .. Len(d) /\ d[Len(b) + i] = x
    BY <1>1, <2>1, BytesFacts
  <2> QED BY <1>1, <2>1, <2>2, BytesFacts
<1> QED BY <1>1, <1>2, <1>3, <1>4 DEF d

(* The bytes of a line. *)
LEMMA ContentFacts ==
  ASSUME NEW k \in 1 .. MaxLines
  PROVE  /\ Content(k) \in Seq(Bytes)
         /\ Width(k) \in 1 .. 2 /\ Len(Content(k)) = Width(k)
         /\ \A i \in 1 .. Width(k) : Content(k)[i] = k
         /\ LinesIn(Content(k)) = {k}
         /\ k # Newline
<1> DEFINE c == Content(k)
<1>1. Width(k) \in 1 .. 2
  BY TailAssumption DEF Width
<1>2. c = [i \in 1 .. Width(k) |-> k]
  BY DEF Content, Width
<1>3. k \in Bytes /\ k # Newline
  BY TailAssumption DEF Bytes, Newline
<1>4. /\ c \in Seq(Bytes) /\ Len(c) = Width(k)
      /\ \A i \in 1 .. Width(k) : c[i] = k
  <2> HIDE DEF c
  <2> QED BY <1>1, <1>2, <1>3
<1>5. \A x : x \in LinesIn(c) <=> x = k
  <2> HIDE DEF c
  <2>1. 1 \in 1 .. Width(k)
    BY <1>1
  <2> QED BY <1>3, <1>4, <2>1, BytesFacts
<1> QED BY <1>1, <1>3, <1>4, <1>5

-----------------------------------------------------------------------------
(* What whole lines in order are made of.                                  *)

(* From a cut on, they are whole and in order. *)
LEMMA WholeFromCut ==
  ASSUME NEW b \in Seq(Bytes), NEW n \in 0 .. Len(b), Whole(b), Ordered(b), Cut(b, n)
  PROVE  /\ Whole(SubSeq(b, n + 1, Len(b)))
         /\ Ordered(SubSeq(b, n + 1, Len(b)))
<1> DEFINE c == SubSeq(b, n + 1, Len(b))
<1>1. /\ Len(b) \in Nat /\ DOMAIN b = 1 .. Len(b)
      /\ Len(b) \in 0 .. Len(b) /\ n \in Nat
  BY BytesFacts
<1>2. /\ c \in Seq(Bytes) /\ Len(c) = Len(b) - n /\ DOMAIN c = 1 .. Len(b) - n
      /\ \A i \in 1 .. Len(b) - n : c[i] = b[n + i]
  <2>1. /\ c \in Seq(Bytes) /\ Len(c) = IF n <= Len(b) THEN Len(b) - n ELSE 0
        /\ \A i \in 1 .. Len(b) - n : c[i] = b[n + i]
    BY <1>1, PieceFacts
  <2>2. DOMAIN c = 1 .. Len(c)
    BY <2>1, BytesFacts
  <2>3. n <= Len(b)
    BY <1>1
  <2> HIDE DEF c
  <2>4. Len(c) = Len(b) - n
    BY <2>1, <2>3
  <2> QED BY <2>1, <2>2, <2>4
<1> HIDE DEF c
<1>3. ASSUME NEW i \in DOMAIN c, Begins(c, i)
      PROVE  LineAt(c, i, c[i])
  <2>1. i \in 1 .. Len(b) - n /\ n + i \in 1 .. Len(b) /\ c[i] = b[n + i]
    BY <1>1, <1>2
  <2>2. Begins(b, n + i)
    <3>1. c[i] # Newline /\ (i = 1 \/ c[i - 1] = Newline)
      BY <1>3 DEF Begins
    <3>2. CASE i # 1
      <4>1. i - 1 \in 1 .. Len(b) - n /\ n + (i - 1) = (n + i) - 1
        BY <1>1, <2>1, <3>2
      <4>2. b[(n + i) - 1] = Newline
        BY <1>2, <3>1, <3>2, <4>1
      <4> QED BY <1>1, <2>1, <3>1, <4>2 DEF Begins
    <3>3. CASE i = 1
      <4>1. n = 0 \/ b[n] = Newline
        BY <1>1, <2>1, <3>1, <3>3 DEF Cut
      <4>2. n + i = n + 1 /\ (n + i) - 1 = n
        BY <1>1, <3>3
      <4> QED BY <1>1, <2>1, <3>1, <4>1, <4>2 DEF Begins
    <3> QED BY <3>2, <3>3
  <2>3. LineAt(b, n + i, c[i])
    BY <1>1, <2>1, <2>2 DEF Whole
  <2>4. c[i] \in Nat /\ Width(c[i]) \in 1 .. 2
    <3>1. c[i] \in Nat
      BY <1>2, <1>3, BytesFacts
    <3> QED BY <3>1 DEF Width
  <2> DEFINE w == Width(c[i])
  <2> HIDE DEF w
  <2>5. /\ n + i + w - 1 <= Len(b)
        /\ \A j \in n + i .. n + i + w - 1 : b[j] = c[i]
        /\ n + i + w <= Len(b) => b[n + i + w] = Newline
    BY <2>3 DEF LineAt, w
  <2>6. w \in 1 .. 2
    BY <2>4 DEF w
  <2>7. i + w - 1 <= Len(c)
    BY <1>1, <1>2, <2>1, <2>5, <2>6
  <2>8. ASSUME NEW j \in i .. i + w - 1
        PROVE  c[j] = c[i]
    <3>1. j \in 1 .. Len(b) - n /\ n + j \in n + i .. n + i + w - 1
      BY <1>1, <1>2, <2>1, <2>6, <2>7
    <3> QED BY <1>2, <2>5, <3>1
  <2>9. i + w <= Len(c) => c[i + w] = Newline
    <3> HAVE i + w <= Len(c)
    <3>1. i \in Nat /\ w \in Nat /\ i >= 1
      BY <2>1, <2>6
    <3>2. i + w <= Len(b) - n
      BY <1>2
    <3>3. i + w \in 1 .. Len(b) - n /\ n + (i + w) = n + i + w /\ n + i + w <= Len(b)
      BY <1>1, <3>1, <3>2
    <3> QED BY <1>2, <2>5, <3>3
  <2> QED BY <2>7, <2>8, <2>9 DEF LineAt, w
<1>4. ASSUME NEW i \in DOMAIN c, NEW j \in DOMAIN c,
             i < j, c[i] # Newline, c[j] # Newline
      PROVE  /\ c[i] <= c[j]
             /\ \A m \in i .. j : c[m] = Newline => c[i] < c[j]
  <2>1. /\ n + i \in DOMAIN b /\ n + j \in DOMAIN b /\ n + i < n + j
        /\ c[i] = b[n + i] /\ c[j] = b[n + j]
    BY <1>1, <1>2, <1>4
  <2>2. /\ c[i] <= c[j]
        /\ \A m \in n + i .. n + j : b[m] = Newline => c[i] < c[j]
    BY <1>4, <2>1 DEF Ordered
  <2>3. \A m \in i .. j : n + m \in n + i .. n + j /\ c[m] = b[n + m]
    BY <1>1, <1>2
  <2> QED BY <2>2, <2>3
<1>5. Whole(c)
  BY <1>3 DEF Whole
<1>6. Ordered(c)
  BY <1>4 DEF Ordered
<1> QED BY <1>5, <1>6 DEF c

(* A line behind ended ones, younger than they. *)
LEMMA LineAppended ==
  ASSUME NEW b \in Seq(Bytes), Whole(b), Ordered(b), Ended(b),
         NEW k \in 1 .. MaxLines, \A x \in LinesIn(b) : x < k
  PROVE  /\ Whole(b \o Content(k)) /\ Ordered(b \o Content(k))
         /\ ~Ended(b \o Content(k))
         /\ \A j \in Len(b) + 1 .. Len(b \o Content(k)) : (b \o Content(k))[j] = k
<1> DEFINE c == b \o Content(k)
           w == Width(k)
<1>1. Len(b) \in Nat /\ DOMAIN b = 1 .. Len(b) /\ k \in Nat /\ k # Newline
  BY BytesFacts, ContentFacts
<1>2. /\ c \in Seq(Bytes) /\ Len(c) = Len(b) + w /\ DOMAIN c = 1 .. Len(b) + w
      /\ \A i \in 1 .. Len(b) : c[i] = b[i]
      /\ w \in 1 .. 2
  <2>1. /\ Content(k) \in Seq(Bytes) /\ Len(Content(k)) = w /\ w \in 1 .. 2
    BY ContentFacts
  <2>2. /\ c \in Seq(Bytes) /\ Len(c) = Len(b) + w
        /\ \A i \in 1 .. Len(b) : c[i] = b[i]
    BY <2>1, BehindFacts
  <2>3. DOMAIN c = 1 .. Len(c)
    BY <2>2, BytesFacts
  <2> QED BY <2>1, <2>2, <2>3
<1>3. \A j \in Len(b) + 1 .. Len(b) + w : c[j] = k
  <2> SUFFICES ASSUME NEW j \in Len(b) + 1 .. Len(b) + w
               PROVE  c[j] = k
    OBVIOUS
  <2> DEFINE i == j - Len(b)
  <2>1. i \in 1 .. w /\ Len(b) + i = j
    BY <1>1, <1>2
  <2>2. Content(k) \in Seq(Bytes) /\ Len(Content(k)) = w /\ Content(k)[i] = k
    BY <2>1, ContentFacts
  <2> HIDE DEF i, w
  <2> QED BY <2>1, <2>2, BehindFacts
<1> HIDE DEF c, w
<1>4. \A i \in 1 .. Len(b) : b[i] # Newline => b[i] \in Nat /\ b[i] < k
  BY BytesFacts
<1>5. ASSUME NEW i \in DOMAIN c, Begins(c, i)
      PROVE  LineAt(c, i, c[i])
  <2>1. CASE i \in 1 .. Len(b)
    <3>1. c[i] = b[i] /\ b[i] # Newline /\ b[i] \in Nat
      BY <1>2, <1>4, <1>5, <2>1 DEF Begins
    <3>2. Begins(b, i)
      <4>1. i # 1 => b[i - 1] = Newline
        <5> HAVE i # 1
        <5>1. i - 1 \in 1 .. Len(b)
          BY <1>1, <2>1
        <5> QED BY <1>2, <1>5, <5>1 DEF Begins
      <4> QED BY <1>1, <2>1, <3>1, <4>1 DEF Begins
    <3>3. LineAt(b, i, b[i])
      BY <1>1, <2>1, <3>2 DEF Whole
    <3> DEFINE v == Width(b[i])
    <3>4. v \in 1 .. 2
      BY <3>1 DEF Width
    <3> HIDE DEF v
    <3>5. /\ i + v - 1 <= Len(b)
          /\ \A j \in i .. i + v - 1 : b[j] = b[i]
          /\ i + v <= Len(b) => b[i + v] = Newline
      BY <3>3 DEF LineAt, v
    <3>6. i + v <= Len(b)
      <4>1. Len(b) >= 1 /\ b[Len(b)] = Newline
        BY <1>1, <2>1, BytesFacts DEF Ended
      <4>2. i + v - 1 # Len(b)
        BY <1>1, <2>1, <3>1, <3>4, <3>5, <4>1
      <4> QED BY <1>1, <2>1, <3>4, <3>5, <4>2
    <3>7. \A j \in i .. i + v : j \in 1 .. Len(b) /\ c[j] = b[j]
      BY <1>1, <1>2, <2>1, <3>4, <3>6
    <3>8. i + v - 1 <= Len(c) /\ c[i + v] = Newline
      BY <1>1, <1>2, <2>1, <3>4, <3>5, <3>6, <3>7
    <3>9. \A j \in i .. i + v - 1 : c[j] = b[i]
      BY <1>1, <2>1, <3>4, <3>5, <3>7
    <3> QED BY <3>1, <3>8, <3>9 DEF LineAt, v
  <2>2. CASE i \notin 1 .. Len(b)
    <3>1. i \in Len(b) + 1 .. Len(b) + w
      BY <1>1, <1>2, <2>2
    <3>2. i = Len(b) + 1
      <4> SUFFICES ASSUME i # Len(b) + 1 PROVE FALSE
        OBVIOUS
      <4>1. i - 1 \in Len(b) + 1 .. Len(b) + w /\ i # 1
        BY <1>1, <1>2, <3>1
      <4>2. c[i - 1] = k
        BY <1>3, <4>1
      <4> QED BY <1>1, <1>5, <4>1, <4>2 DEF Begins
    <3>3. c[i] = k
      BY <1>3, <3>1
    <3>4. i + w - 1 = Len(c) /\ ~(i + w <= Len(c)) /\ i + w - 1 = Len(b) + w
      BY <1>1, <1>2, <3>2
    <3>5. \A j \in i .. i + w - 1 : c[j] = k
      BY <1>3, <3>2, <3>4
    <3> QED BY <1>1, <1>2, <3>3, <3>4, <3>5 DEF LineAt, w
  <2> QED BY <2>1, <2>2
<1>6. ASSUME NEW i \in DOMAIN c, NEW j \in DOMAIN c,
             i < j, c[i] # Newline, c[j] # Newline
      PROVE  /\ c[i] <= c[j]
             /\ \A m \in i .. j : c[m] = Newline => c[i] < c[j]
  <2>1. CASE j \in 1 .. Len(b)
    <3>1. i \in 1 .. Len(b) /\ c[i] = b[i] /\ c[j] = b[j]
      BY <1>1, <1>2, <1>6, <2>1
    <3>2. /\ b[i] <= b[j]
          /\ \A m \in i .. j : b[m] = Newline => b[i] < b[j]
      BY <1>1, <1>6, <2>1, <3>1 DEF Ordered
    <3>3. \A m \in i .. j : c[m] = b[m]
      BY <1>1, <1>2, <2>1, <3>1
    <3> QED BY <3>1, <3>2, <3>3
  <2>2. CASE j \notin 1 .. Len(b) /\ i \in 1 .. Len(b)
    <3>1. c[j] = k
      BY <1>1, <1>2, <1>3, <2>2
    <3>2. c[i] < k /\ c[i] \in Nat
      BY <1>2, <1>4, <1>6, <2>2
    <3> QED BY <1>1, <3>1, <3>2
  <2>3. CASE j \notin 1 .. Len(b) /\ i \notin 1 .. Len(b)
    <3>1. c[i] = k /\ c[j] = k
      BY <1>1, <1>2, <1>3, <2>3
    <3>2. \A m \in i .. j : c[m] = k
      BY <1>1, <1>2, <1>3, <2>3
    <3> QED BY <1>1, <3>1, <3>2
  <2> QED BY <2>1, <2>2, <2>3
<1>7. ~Ended(c)
  <2>1. Len(c) \in Len(b) + 1 .. Len(b) + w /\ Len(c) # 0
    BY <1>1, <1>2
  <2> QED BY <1>1, <1>2, <1>3, <2>1, BytesFacts DEF Ended
<1>8. Whole(c) /\ Ordered(c)
  BY <1>5, <1>6 DEF Whole, Ordered
<1> QED BY <1>2, <1>3, <1>7, <1>8 DEF c

(* A newline behind bytes. *)
LEMMA NewlineAppended ==
  ASSUME NEW b \in Seq(Bytes)
  PROVE  /\ Append(b, Newline) \in Seq(Bytes)
         /\ Len(Append(b, Newline)) = Len(b) + 1
         /\ \A i \in 1 .. Len(b) : Append(b, Newline)[i] = b[i]
         /\ Append(b, Newline)[Len(b) + 1] = Newline
         /\ Ended(Append(b, Newline))
         /\ LinesIn(Append(b, Newline)) = LinesIn(b)
         /\ Whole(b) /\ Ordered(b) =>
               Whole(Append(b, Newline)) /\ Ordered(Append(b, Newline))
<1> DEFINE c == Append(b, Newline)
<1>1. Len(b) \in Nat /\ DOMAIN b = 1 .. Len(b)
  BY BytesFacts
<1>2. /\ c \in Seq(Bytes) /\ Len(c) = Len(b) + 1 /\ DOMAIN c = 1 .. Len(b) + 1
      /\ \A i \in 1 .. Len(b) : c[i] = b[i]
      /\ c[Len(b) + 1] = Newline
  <2>1. Newline \in Bytes
    BY TailAssumption DEF Newline, Bytes
  <2>2. /\ c \in Seq(Bytes) /\ Len(c) = Len(b) + 1
        /\ \A i \in 1 .. Len(b) : c[i] = b[i]
        /\ c[Len(b) + 1] = Newline
    BY <2>1, AppendProperties
  <2>3. DOMAIN c = 1 .. Len(c)
    BY <2>2, BytesFacts
  <2> HIDE DEF c
  <2> QED BY <2>2, <2>3
<1> HIDE DEF c
<1>3. Ended(c)
  BY <1>1, <1>2 DEF Ended
<1>4. \A i \in 1 .. Len(b) + 1 : c[i] # Newline => i \in 1 .. Len(b) /\ c[i] = b[i]
  BY <1>1, <1>2
<1>5. LinesIn(c) = LinesIn(b)
  <2>1. \A x : x \in LinesIn(c) <=> \E i \in 1 .. Len(b) + 1 : c[i] = x /\ x # Newline
    BY <1>2, BytesFacts
  <2>2. \A x : x \in LinesIn(b) <=> \E i \in 1 .. Len(b) : b[i] = x /\ x # Newline
    BY BytesFacts
  <2>3. \A i \in 1 .. Len(b) : i \in 1 .. Len(b) + 1
    BY <1>1
  <2>4. \A x : x \in LinesIn(c) <=> x \in LinesIn(b)
    BY <1>2, <1>4, <2>1, <2>2, <2>3
  <2> QED BY <2>4
<1>6. ASSUME Whole(b), NEW i \in DOMAIN c, Begins(c, i)
      PROVE  LineAt(c, i, c[i])
  <2>1. i \in 1 .. Len(b) /\ c[i] = b[i] /\ b[i] # Newline
    BY <1>2, <1>4, <1>6 DEF Begins
  <2>2. Begins(b, i)
    <3>1. i # 1 => i - 1 \in 1 .. Len(b)
      BY <1>1, <2>1
    <3>2. i # 1 => b[i - 1] = Newline
      BY <1>2, <1>6, <3>1 DEF Begins
    <3> QED BY <1>1, <2>1, <3>2 DEF Begins
  <2>3. LineAt(b, i, b[i])
    BY <1>1, <1>6, <2>1, <2>2 DEF Whole
  <2> DEFINE v == Width(b[i])
  <2>4. v \in 1 .. 2
    <3>1. b[i] \in Nat
      BY <2>1, BytesFacts
    <3> QED BY <3>1 DEF Width
  <2> HIDE DEF v
  <2>5. /\ i + v - 1 <= Len(b)
        /\ \A j \in i .. i + v - 1 : b[j] = b[i]
        /\ i + v <= Len(b) => b[i + v] = Newline
    BY <2>3 DEF LineAt, v
  <2>6. i \in Nat /\ i >= 1
    BY <2>1
  <2>7. \A j \in i .. i + v - 1 : j \in 1 .. Len(b)
    BY <1>1, <2>4, <2>5, <2>6
  <2>8. \A j \in i .. i + v - 1 : c[j] = b[i]
    BY <1>2, <2>5, <2>7
  <2>9. i + v <= Len(c) => c[i + v] = Newline
    <3>1. i + v \in 1 .. Len(b) \/ i + v = Len(b) + 1
      BY <1>1, <2>4, <2>5, <2>6
    <3> QED BY <1>2, <2>5, <3>1
  <2>10. i + v - 1 <= Len(c)
    BY <1>1, <1>2, <2>4, <2>5, <2>6
  <2> QED BY <2>1, <2>8, <2>9, <2>10 DEF LineAt, v
<1>7. ASSUME Ordered(b), NEW i \in DOMAIN c, NEW j \in DOMAIN c,
             i < j, c[i] # Newline, c[j] # Newline
      PROVE  /\ c[i] <= c[j]
             /\ \A m \in i .. j : c[m] = Newline => c[i] < c[j]
  <2>1. /\ i \in 1 .. Len(b) /\ j \in 1 .. Len(b)
        /\ c[i] = b[i] /\ c[j] = b[j]
    BY <1>2, <1>4, <1>7
  <2>2. \A m \in i .. j : c[m] = b[m]
    BY <1>1, <1>2, <2>1
  <2>3. /\ b[i] <= b[j]
        /\ \A m \in i .. j : b[m] = Newline => b[i] < b[j]
    BY <1>1, <1>7, <2>1 DEF Ordered
  <2> QED BY <2>1, <2>2, <2>3
<1>8. Whole(b) => Whole(c)
  BY <1>6 DEF Whole
<1>9. Ordered(b) => Ordered(c)
  BY <1>7 DEF Ordered
<1> QED BY <1>2, <1>3, <1>5, <1>8, <1>9 DEF c

(* The first of ended lines, and the others. *)
LEMMA FirstAndLater ==
  ASSUME NEW b \in Seq(Bytes), b # <<>>, Ended(b)
  PROVE  LET e == FirstEnd(b)
             first == SubSeq(b, 1, e - 1)
             later == SubSeq(b, e + 1, Len(b))
         IN  /\ e \in 1 .. Len(b) /\ b[e] = Newline
             /\ \A i \in 1 .. e - 1 : b[i] # Newline
             /\ first \in Seq(Bytes) /\ later \in Seq(Bytes)
             /\ Len(first) = e - 1
             /\ \A i \in 1 .. e - 1 : first[i] = b[i]
             /\ LinesIn(b) = LinesIn(first) \cup LinesIn(later)
             /\ Ended(later)
<1> DEFINE e == FirstEnd(b)
           first == SubSeq(b, 1, e - 1)
           later == SubSeq(b, e + 1, Len(b))
<1>1. /\ Len(b) \in Nat /\ Len(b) >= 1 /\ DOMAIN b = 1 .. Len(b)
      /\ b[Len(b)] = Newline /\ Len(b) \in 0 .. Len(b)
  BY BytesFacts DEF Ended
<1>2. Ends(b) \subseteq Nat /\ Len(b) \in Ends(b)
  BY <1>1 DEF Ends
<1>3. e \in Ends(b) /\ \A y \in Ends(b) : e <= y
  BY <1>2, Least DEF FirstEnd
<1>4. e \in 1 .. Len(b) /\ b[e] = Newline
  BY <1>1, <1>3 DEF Ends
<1>5. \A i \in 1 .. e - 1 : b[i] # Newline
  <2> SUFFICES ASSUME NEW i \in 1 .. e - 1, b[i] = Newline
               PROVE  FALSE
    OBVIOUS
  <2> HIDE DEF e
  <2>1. i \in 1 .. Len(b) /\ i < e
    BY <1>1, <1>4
  <2>2. i \in Ends(b)
    BY <1>1, <2>1 DEF Ends
  <2> QED BY <1>3, <1>4, <2>1, <2>2
<1>6. /\ first \in Seq(Bytes) /\ Len(first) = e - 1
      /\ \A i \in 1 .. e - 1 : first[i] = b[i]
      /\ LinesIn(first) \subseteq LinesIn(b)
  <2> HIDE DEF e
  <2>1. e - 1 \in 0 .. Len(b) /\ 0 \in Nat /\ 0 + 1 = 1 /\ e - 1 - 0 = e - 1
        /\ 0 <= e - 1
    BY <1>1, <1>4
  <2>2. /\ SubSeq(b, 0 + 1, e - 1) \in Seq(Bytes)
        /\ Len(SubSeq(b, 0 + 1, e - 1)) = IF 0 <= e - 1 THEN e - 1 - 0 ELSE 0
        /\ \A i \in 1 .. e - 1 - 0 : SubSeq(b, 0 + 1, e - 1)[i] = b[0 + i]
        /\ LinesIn(SubSeq(b, 0 + 1, e - 1)) \subseteq LinesIn(b)
    BY <2>1, PieceFacts
  <2>3. \A i \in 1 .. e - 1 : 0 + i = i
    BY <1>4
  <2> QED BY <2>1, <2>2, <2>3
<1>7. /\ later \in Seq(Bytes) /\ Len(later) = Len(b) - e
      /\ \A i \in 1 .. Len(b) - e : later[i] = b[e + i]
      /\ LinesIn(later) \subseteq LinesIn(b)
  <2> HIDE DEF e
  <2>1. e \in Nat /\ e <= Len(b)
    BY <1>1, <1>4
  <2> QED BY <1>1, <2>1, PieceFacts
<1> HIDE DEF e, first, later
<1>8. ASSUME NEW x \in LinesIn(b)
      PROVE  x \in LinesIn(first) \cup LinesIn(later)
  <2>1. PICK i \in 1 .. Len(b) : b[i] = x /\ x # Newline
    BY BytesFacts
  <2>2. CASE i < e
    <3>1. i \in 1 .. Len(first) /\ first[i] = x
      BY <1>4, <1>6, <2>1, <2>2
    <3> QED BY <1>6, <2>1, <3>1, BytesFacts
  <2>3. CASE i > e
    <3> DEFINE j == i - e
    <3>1. j \in 1 .. Len(b) - e /\ e + j = i
      BY <1>1, <1>4, <2>1, <2>3
    <3> HIDE DEF j
    <3>2. j \in 1 .. Len(later) /\ later[j] = x
      BY <1>7, <2>1, <3>1
    <3> QED BY <1>7, <2>1, <3>2, BytesFacts
  <2>4. i # e
    BY <1>4, <2>1
  <2> QED BY <1>4, <2>1, <2>2, <2>3, <2>4
<1>9. Ended(later)
  <2>1. CASE e = Len(b)
    <3>1. Len(later) = 0
      BY <1>1, <1>7, <2>1
    <3> QED BY <1>7, <3>1, BytesFacts DEF Ended
  <2>2. CASE e # Len(b)
    <3>1. Len(b) - e \in 1 .. Len(b) - e /\ e + (Len(b) - e) = Len(b)
      <4>1. Len(b) \in Nat /\ e \in 1 .. Len(b)
        BY <1>1, <1>4
      <4> QED BY <2>2, <4>1
    <3>2. later[Len(later)] = Newline
      BY <1>1, <1>7, <3>1
    <3> QED BY <3>2 DEF Ended
  <2> QED BY <2>1, <2>2
<1> QED BY <1>4, <1>5, <1>6, <1>7, <1>8, <1>9 DEF e, first, later

(* The first of whole ended lines in order is a line as it was written,    *)
(* and older than the others.                                              *)
LEMMA FirstIsWhole ==
  ASSUME NEW b \in Seq(Bytes), b # <<>>, Ended(b), Whole(b), Ordered(b)
  PROVE  LET e == FirstEnd(b)
             first == SubSeq(b, 1, e - 1)
             later == SubSeq(b, e + 1, Len(b))
         IN  /\ Whole(later) /\ Ordered(later)
             /\ first # <<>> =>
                   /\ first = Content(b[1]) /\ Head(first) = b[1]
                   /\ b[1] \in LinesIn(b)
                   /\ \A x \in LinesIn(later) : b[1] < x
<1> DEFINE e == FirstEnd(b)
           first == SubSeq(b, 1, e - 1)
           later == SubSeq(b, e + 1, Len(b))
<1>1. /\ Len(b) \in Nat /\ Len(b) >= 1 /\ DOMAIN b = 1 .. Len(b)
      /\ \A i \in 1 .. Len(b) : b[i] \in Nat
  BY BytesFacts
<1>2. /\ e \in 1 .. Len(b) /\ b[e] = Newline
      /\ \A i \in 1 .. e - 1 : b[i] # Newline
      /\ first \in Seq(Bytes) /\ later \in Seq(Bytes)
      /\ Len(first) = e - 1
      /\ \A i \in 1 .. e - 1 : first[i] = b[i]
  BY FirstAndLater
<1>3. /\ Len(later) = Len(b) - e
      /\ \A i \in 1 .. Len(b) - e : later[i] = b[e + i]
  <2> HIDE DEF e
  <2>1. e \in Nat /\ e <= Len(b) /\ Len(b) \in 0 .. Len(b)
    BY <1>1, <1>2
  <2> QED BY <2>1, PieceFacts
<1>4. Whole(later) /\ Ordered(later)
  <2>1. e \in 0 .. Len(b) /\ Cut(b, e)
    BY <1>1, <1>2 DEF Cut
  <2> QED BY <2>1, WholeFromCut
<1> HIDE DEF e, first, later
<1>5. ASSUME first # <<>>
      PROVE  /\ first = Content(b[1]) /\ Head(first) = b[1]
             /\ b[1] \in LinesIn(b)
             /\ \A x \in LinesIn(later) : b[1] < x
  <2>1. Len(first) # 0
    BY <1>2, <1>5, BytesFacts
  <2>2. e >= 2 /\ 1 \in 1 .. e - 1 /\ 1 \in 1 .. Len(b)
    BY <1>1, <1>2, <2>1
  <2>3. b[1] # Newline /\ first[1] = b[1]
    BY <1>2, <2>2
  <2>4. b[1] \in LinesIn(b) /\ b[1] \in 1 .. MaxLines
    BY <2>2, <2>3, BytesFacts
  <2> DEFINE w == Width(b[1])
  <2>5. w \in 1 .. 2
    BY <2>4, ContentFacts
  <2>6. /\ 1 + w - 1 <= Len(b)
        /\ \A j \in 1 .. 1 + w - 1 : b[j] = b[1]
        /\ 1 + w <= Len(b) => b[1 + w] = Newline
    <3>1. Begins(b, 1)
      BY <1>1, <2>2, <2>3 DEF Begins
    <3> QED BY <1>1, <2>2, <3>1 DEF Whole, LineAt
  <2>7. e = w + 1
    <3> HIDE DEF w
    <3>1. ~(e \in 1 .. w)
      BY <1>2, <2>3, <2>5, <2>6
    <3>2. w + 1 <= Len(b)
      BY <1>1, <1>2, <2>5, <2>6, <3>1
    <3>3. ~(w + 1 \in 1 .. e - 1)
      BY <1>2, <2>5, <2>6, <3>2
    <3> QED BY <1>1, <1>2, <2>5, <3>1, <3>3
  <2>8. first = Content(b[1])
    <3>1. /\ Content(b[1]) \in Seq(Bytes) /\ Len(Content(b[1])) = w
          /\ \A i \in 1 .. w : Content(b[1])[i] = b[1]
      BY <2>4, ContentFacts
    <3> HIDE DEF w
    <3>2. Len(first) = w /\ \A i \in 1 .. w : first[i] = b[1]
      BY <1>2, <2>5, <2>6, <2>7
    <3> QED BY <1>2, <3>1, <3>2, SeqEqual
  <2>9. Head(first) = b[1]
    BY <1>2, <1>5, <2>3
  <2>10. ASSUME NEW x \in LinesIn(later)
         PROVE  b[1] < x
    <3>1. PICK i \in 1 .. Len(later) : later[i] = x /\ x # Newline
      BY <1>2, BytesFacts
    <3>2. /\ e + i \in 1 .. Len(b) /\ 1 < e + i /\ e \in 1 .. e + i
          /\ b[e + i] = x
      BY <1>1, <1>2, <1>3, <2>2, <3>1
    <3> QED BY <1>1, <1>2, <2>2, <2>3, <3>1, <3>2 DEF Ordered
  <2> QED BY <2>4, <2>8, <2>9, <2>10
<1> QED BY <1>4, <1>5 DEF e, first, later

(* The whole lines of some bytes, and the rest. *)
LEMMA CompleteAndPartial ==
  ASSUME NEW b \in Seq(Bytes)
  PROVE  LET e == LastEnd(b)
             complete == SubSeq(b, 1, e)
             partial == SubSeq(b, e + 1, Len(b))
         IN  /\ e \in 0 .. Len(b)
             /\ complete \in Seq(Bytes) /\ partial \in Seq(Bytes)
             /\ Len(complete) = e
             /\ LinesIn(complete) \subseteq LinesIn(b)
             /\ LinesIn(partial) \subseteq LinesIn(b)
             /\ Ended(complete)
             /\ partial = <<>> => complete = b
<1> DEFINE e == LastEnd(b)
           complete == SubSeq(b, 1, e)
           partial == SubSeq(b, e + 1, Len(b))
<1>1. /\ Len(b) \in Nat /\ DOMAIN b = 1 .. Len(b) /\ Len(b) \in 0 .. Len(b)
  BY BytesFacts
<1>2. {0} \cup Ends(b) \subseteq 0 .. Len(b) /\ {0} \cup Ends(b) # {}
  BY <1>1 DEF Ends
<1>3. e \in {0} \cup Ends(b)
  BY <1>1, <1>2, Greatest DEF LastEnd
<1>4. e \in 0 .. Len(b) /\ (e # 0 => b[e] = Newline)
  BY <1>2, <1>3 DEF Ends
<1> HIDE DEF e
<1>5. /\ complete \in Seq(Bytes) /\ Len(complete) = e
      /\ \A i \in 1 .. e : complete[i] = b[i]
      /\ LinesIn(complete) \subseteq LinesIn(b)
  <2>1. 0 \in Nat /\ 0 + 1 = 1 /\ e - 0 = e /\ 0 <= e
    BY <1>4
  <2>2. /\ SubSeq(b, 0 + 1, e) \in Seq(Bytes)
        /\ Len(SubSeq(b, 0 + 1, e)) = IF 0 <= e THEN e - 0 ELSE 0
        /\ \A i \in 1 .. e - 0 : SubSeq(b, 0 + 1, e)[i] = b[0 + i]
        /\ LinesIn(SubSeq(b, 0 + 1, e)) \subseteq LinesIn(b)
    BY <1>4, <2>1, PieceFacts
  <2>3. \A i \in 1 .. e : 0 + i = i
    BY <1>4
  <2> QED BY <2>1, <2>2, <2>3
<1>6. /\ partial \in Seq(Bytes) /\ Len(partial) = Len(b) - e
      /\ LinesIn(partial) \subseteq LinesIn(b)
  <2>1. e \in Nat /\ e <= Len(b)
    BY <1>1, <1>4
  <2> QED BY <1>1, <2>1, PieceFacts
<1> HIDE DEF complete, partial
<1>7. Ended(complete)
  <2>1. CASE e = 0
    BY <1>5, <2>1, BytesFacts DEF Ended
  <2>2. CASE e # 0
    <3>1. e \in 1 .. e
      BY <1>4, <2>2
    <3> QED BY <1>4, <1>5, <2>2, <3>1 DEF Ended
  <2> QED BY <2>1, <2>2
<1>8. ASSUME partial = <<>> PROVE complete = b
  <2>1. Len(partial) = 0
    BY <1>8
  <2>2. e = Len(b)
    <3>1. Len(b) \in Nat /\ e \in Nat
      BY <1>1, <1>4
    <3>2. Len(b) - e = 0
      BY <1>6, <2>1
    <3> QED BY <3>1, <3>2
  <2> QED BY <1>5, <2>2, SeqEqual
<1> QED BY <1>4, <1>5, <1>6, <1>7, <1>8 DEF e, complete, partial

-----------------------------------------------------------------------------
(* The dates.                                                              *)

(* The day after a date is of its year or a later one, and after it.       *)
LEMMA NextDayIsLater ==
    ASSUME NEW now \in Dates
    PROVE  /\ NextDay(now).year \in Int /\ NextDay(now).day \in Int
           /\ NextDay(now).year >= now.year
           /\ After(NextDay(now), now)
<1> USE CalendarAssumption DEF Dates, NextDay, After
<1>1. CASE now.day = YearLength
    BY <1>1
<1>2. CASE now.day # YearLength
    <2> DEFINE next == [now EXCEPT !.day = @ + 1]
               over == [next EXCEPT !.day = @ + 1]
    <2>1. next.year = now.year /\ next.day = now.day + 1
        OBVIOUS
    <2>2. over.year = now.year /\ over.day = now.day + 2
        OBVIOUS
    <2>3. NextDay(now) = IF Exists(next) THEN next ELSE over
        BY <1>2
    <2>4. NextDay(now) = next \/ NextDay(now) = over
        BY <2>3
    <2>5. /\ NextDay(now).year = now.year
          /\ \/ NextDay(now).day = now.day + 1
             \/ NextDay(now).day = now.day + 2
        <3> HIDE DEF NextDay, next, over
        <3> QED
            BY <2>1, <2>2, <2>4
    <2> QED
        BY <2>5
<1> QED
    BY <1>1, <1>2

(* It is a date. *)
LEMMA NextDayIsDate ==
    ASSUME NEW now \in Dates
    PROVE  NextDay(now) \in Dates
<1>1. CASE now.day = YearLength
    BY <1>1, CalendarAssumption DEF Dates, NextDay
<1>2. CASE now.day # YearLength
    <2> DEFINE next == [now EXCEPT !.day = @ + 1]
               over == [next EXCEPT !.day = @ + 1]
    <2>1. next \in Dates /\ next.day = now.day + 1
        BY <1>2, CalendarAssumption DEF Dates
    <2>2. ~Exists(next) => next.day = LeapDay
        BY DEF Exists
    <2>3. NextDay(now) = IF Exists(next) THEN next ELSE over
        BY <1>2 DEF NextDay
    <2>4. next.day = LeapDay => over \in Dates
        <3> HIDE DEF next
        <3> QED
            BY <2>1, CalendarAssumption DEF Dates
    <2> HIDE DEF next, over
    <2> QED
        BY <2>1, <2>2, <2>3, <2>4
<1> QED
    BY <1>1, <1>2

(* A line that was written on date, was read by a poll of the year         *)
(* polled, and is parsed now, in good time and on no earlier day, gets the *)
(* year it was written in: whatever the calendar, and also if New Year     *)
(* falls between the poll and the parsing.                                 *)
THEOREM YearIsRight ==
    ASSUME NEW date \in Dates, NEW now \in Dates, NEW polled \in Int,
           ~After(date, now),
           date.year <= polled, polled <= now.year,
           InGoodTime(date, now)
    PROVE  YearTaken(date.day, polled, now) = date.year
<1> DEFINE next == NextDay(now)
           guess == [year |-> polled, day |-> date.day]
<1>1. /\ next.year \in Int /\ next.day \in Int
      /\ next.year >= now.year
      /\ After(next, now)
    BY NextDayIsLater
<1>2. /\ date.year \in Int /\ date.day \in Int
      /\ now.year \in Int /\ now.day \in Int
    BY CalendarAssumption DEF Dates
<1>3. CASE date.year = now.year
    <2>1. ~After(guess, next)
        BY <1>1, <1>2, <1>3 DEF After
    <2> QED
        BY <1>2, <1>3, <2>1 DEF YearTaken
<1>4. CASE date.year # now.year
    <2>1. After([date EXCEPT !.year = @ + 1], next)
        BY <1>4 DEF InGoodTime
    <2>2. /\ [date EXCEPT !.year = @ + 1].year = date.year + 1
          /\ [date EXCEPT !.year = @ + 1].day = date.day
        BY DEF Dates
    <2>3. date.year + 1 = now.year /\ next.year = now.year /\ date.day > next.day
        BY <1>1, <1>2, <1>4, <2>1, <2>2 DEF After
    <2>4. CASE polled = now.year
        <3>1. After(guess, next)
            BY <2>3, <2>4 DEF After
        <3> QED
            BY <1>2, <2>3, <2>4, <3>1 DEF YearTaken
    <2>5. CASE polled # now.year
        <3>1. polled = date.year
            BY <1>2, <2>3, <2>5
        <3>2. ~After(guess, next)
            BY <1>1, <1>2, <2>3, <3>1 DEF After
        <3> QED
            BY <3>1, <3>2 DEF YearTaken
    <2> QED
        BY <2>4, <2>5
<1> QED
    BY <1>3, <1>4

-----------------------------------------------------------------------------
(* The invariant.                                                          *)

(* The file is whole lines in order, but for the end of one that is still  *)
(* being written, and an inode is not used twice.                          *)
LoggerInv ==
    /\ Len(written) = lines
    /\ Whole(file) /\ Ordered(file)
    /\ LinesIn(file) \subseteq 1 .. lines
    /\ ~exists => file = <<>>
    /\ halfWritten <=> ~Ended(file)
    /\ inode <= rotations + (IF exists THEN 1 ELSE 0)

(* The reader has no line that was not written.                            *)
ReaderInv ==
    /\ LinesIn(buffer) \cup LinesIn(batch) \subseteq 1 .. lines
    /\ LinesYielded \cup dropped \cup rotatedAway \subseteq 1 .. lines
    /\ Ended(batch)
    /\ db.inode <= inode
    /\ started = -1 <=> db.inode = NoInode
    /\ started <= lines

(* Lines are not of the future, neither when written nor when read.        *)
DateInv ==
    /\ \A k \in 1 .. lines : ~After(written[k], today)
    /\ batch # <<>> => now_year <= today.year
    /\ \A k \in LinesIn(batch) : written[k].year <= now_year
    /\ DatedRight

Before(A, B) == \A a \in A, b \in B : a < b

FirstBytes == {Head(yielded[i]) : i \in DOMAIN yielded}

(* What holds until the reader loses its place.                            *)
PlaceInv ==
    /\ buffer = <<>>
    /\ Whole(batch) /\ Ordered(batch)
    /\ exists /\ ~truncated /\ db.inode = inode =>
         db.offset <= Len(file) /\ Cut(file, db.offset)
    /\ LinesIntact /\ NoReplay
    /\ Before(FirstBytes, LinesIn(batch))
    /\ Before(FirstBytes, LinesIn(Unread))
    /\ Before(LinesIn(batch), LinesIn(Unread))

IInv ==
    /\ TypeOK
    /\ LoggerInv
    /\ ReaderInv
    /\ DateInv
    /\ slips = {} => PlaceInv
    /\ InPlaceLosses

-----------------------------------------------------------------------------
(* What the actions do to the bytes.                                       *)

(* Unread bytes are bytes of the file.                                     *)
LEMMA UnreadFacts ==
  ASSUME TypeOK
  PROVE  /\ Unread \in Seq(Bytes)
         /\ LinesIn(Unread) \subseteq LinesIn(file)
<1>1. file \in Seq(Bytes) /\ db.offset \in Nat /\ Len(file) \in 0 .. Len(file)
  BY BytesFacts DEF TypeOK
<1>2. /\ SubSeq(file, db.offset + 1, Len(file)) \in Seq(Bytes)
      /\ LinesIn(SubSeq(file, db.offset + 1, Len(file))) \subseteq LinesIn(file)
  BY <1>1, PieceFacts
<1> QED BY <1>1, <1>2 DEF Unread

(* The empty file.                                                         *)
LEMMA EmptyFacts ==
  /\ <<>> \in Seq(Bytes) /\ LinesIn(<<>>) = {} /\ Len(<<>>) = 0
  /\ Whole(<<>>) /\ Ordered(<<>>) /\ Ended(<<>>)
  /\ \A n \in Nat : SubSeq(<<>>, n + 1, Len(<<>>)) = <<>>
<1>1. <<>> \in Seq(Bytes) /\ Len(<<>>) = 0 /\ DOMAIN <<>> = {}
  OBVIOUS
<1>2. LinesIn(<<>>) = {}
  BY <1>1 DEF LinesIn
<1>3. Whole(<<>>) /\ Ordered(<<>>) /\ Ended(<<>>)
  BY <1>1 DEF Whole, Ordered, Ended
<1>4. ASSUME NEW n \in Nat
      PROVE  SubSeq(<<>>, n + 1, Len(<<>>)) = <<>>
  <2>1. /\ SubSeq(<<>>, n + 1, 0) \in Seq(Bytes)
        /\ Len(SubSeq(<<>>, n + 1, 0)) = IF n <= 0 THEN 0 - n ELSE 0
    BY <1>1, PieceFacts
  <2>2. Len(SubSeq(<<>>, n + 1, 0)) = 0
    BY <2>1
  <2> QED BY <1>1, <2>1, <2>2, BytesFacts
<1> QED BY <1>1, <1>2, <1>3, <1>4

(* A read turns bytes it holds and bytes of the file into a batch, a       *)
(* buffer and an offset.                                                   *)
LEMMA ReadFacts ==
  ASSUME TypeOK, ReaderInv, LoggerInv, Read
  PROVE  LET chunk == SubSeq(file, db.offset + 1, Len(file))
         IN  /\ chunk \in Seq(Bytes)
             /\ LinesIn(chunk) \subseteq LinesIn(file)
             /\ batch' \in Seq(Bytes) /\ buffer' \in Seq(Bytes)
             /\ LinesIn(batch') \subseteq LinesIn(buffer) \cup LinesIn(chunk)
             /\ LinesIn(buffer') \subseteq LinesIn(buffer) \cup LinesIn(chunk)
             /\ Ended(batch')
             /\ db' = [inode |-> db.inode, offset |-> db.offset + Len(batch')]
             /\ pc' = IF batch' = <<>> THEN "poll" ELSE "batch"
             /\ slips' = {} =>
                   /\ slips = {} /\ buffer' = <<>>
                   /\ batch' = buffer \o chunk
                   /\ chunk # <<>> => ~truncated /\ inode = db.inode
<1> DEFINE chunk == SubSeq(file, db.offset + 1, Len(file))
           bytes == buffer \o chunk
           complete == SubSeq(bytes, 1, LastEnd(bytes))
           partial == SubSeq(bytes, LastEnd(bytes) + 1, Len(bytes))
<1>1. /\ batch' = complete
      /\ buffer' = partial
      /\ db' = [db EXCEPT !.offset = @ + Consumed(complete)]
      /\ pc' = IF complete = <<>> THEN "poll" ELSE "batch"
      /\ slips' = slips
            \cup (IF partial # <<>> THEN {"partial"} ELSE {})
            \cup (IF chunk # <<>> /\ (truncated \/ inode # db.inode)
                    THEN {"race"} ELSE {})
  BY DEF Read
<1>2. file \in Seq(Bytes) /\ db \in [inode : Nat, offset : Nat]
      /\ Len(file) \in 0 .. Len(file) /\ buffer \in Seq(Bytes)
  BY BytesFacts DEF TypeOK
<1>3. chunk \in Seq(Bytes) /\ LinesIn(chunk) \subseteq LinesIn(file)
  BY <1>2, PieceFacts
<1> HIDE DEF chunk
<1>4. /\ bytes \in Seq(Bytes)
      /\ LinesIn(bytes) = LinesIn(buffer) \cup LinesIn(chunk)
  BY <1>2, <1>3, BehindFacts
<1> HIDE DEF bytes
<1>5. /\ complete \in Seq(Bytes) /\ partial \in Seq(Bytes)
      /\ LinesIn(complete) \subseteq LinesIn(bytes)
      /\ LinesIn(partial) \subseteq LinesIn(bytes)
      /\ Ended(complete)
      /\ partial = <<>> => complete = bytes
  BY <1>4, CompleteAndPartial
<1> HIDE DEF complete, partial
<1>6. db' = [inode |-> db.inode, offset |-> db.offset + Len(batch')]
  BY <1>1, <1>2 DEF Consumed
<1>7. slips' = {} =>
        /\ slips = {} /\ buffer' = <<>>
        /\ batch' = buffer \o chunk
        /\ chunk # <<>> => ~truncated /\ inode = db.inode
  BY <1>1, <1>5 DEF bytes
<1> QED BY <1>1, <1>3, <1>4, <1>5, <1>6, <1>7 DEF chunk

(* The line that is next, and the later ones.                              *)
LEMMA NextLineFacts ==
  ASSUME TypeOK, ReaderInv, batch # <<>>
  PROVE  /\ NextLine \in Seq(Bytes) /\ LaterLines \in Seq(Bytes)
         /\ LinesIn(batch) = LinesIn(NextLine) \cup LinesIn(LaterLines)
         /\ Ended(LaterLines)
<1>1. batch \in Seq(Bytes) /\ Ended(batch)
  BY DEF TypeOK, ReaderInv
<1> QED BY <1>1, FirstAndLater DEF NextLine, LaterLines

(* One more line yielded.                                                  *)
LEMMA YieldedFacts ==
  ASSUME yielded \in Seq(Seq(Bytes)), NEW s \in Seq(Bytes), s # <<>>,
         yielded' = Append(yielded, s)
  PROVE  /\ yielded' \in Seq(Seq(Bytes))
         /\ Len(yielded) \in Nat
         /\ DOMAIN yielded = 1 .. Len(yielded)
         /\ DOMAIN yielded' = 1 .. Len(yielded) + 1
         /\ \A i \in 1 .. Len(yielded) : yielded'[i] = yielded[i]
         /\ yielded'[Len(yielded) + 1] = s
         /\ LinesYielded' = LinesYielded \cup LinesIn(s)
         /\ FirstBytes' = FirstBytes \cup {Head(s)}
<1> DEFINE n == Len(yielded)
<1>1. /\ yielded' \in Seq(Seq(Bytes)) /\ n \in Nat
      /\ DOMAIN yielded = 1 .. n
      /\ Len(yielded') = n + 1
      /\ \A i \in 1 .. n : yielded'[i] = yielded[i]
      /\ yielded'[n + 1] = s
  BY AppendProperties
<1>2. DOMAIN yielded' = 1 .. n + 1
  BY <1>1
<1> HIDE DEF n
<1>3. 1 .. n + 1 = (1 .. n) \cup {n + 1}
  BY <1>1
<1>4. LinesYielded' = LinesYielded \cup LinesIn(s)
  <2>1. LinesYielded' = UNION {LinesIn(yielded'[i]) : i \in (1 .. n) \cup {n + 1}}
    BY <1>2, <1>3 DEF LinesYielded, LinesIn
  <2>2. LinesYielded = UNION {LinesIn(yielded[i]) : i \in 1 .. n}
    BY <1>1 DEF LinesYielded
  <2>3. LinesYielded' = (UNION {LinesIn(yielded'[i]) : i \in 1 .. n}) \cup LinesIn(yielded'[n + 1])
    BY <2>1
  <2>4. UNION {LinesIn(yielded'[i]) : i \in 1 .. n} = UNION {LinesIn(yielded[i]) : i \in 1 .. n}
    BY <1>1
  <2> QED BY <1>1, <2>2, <2>3, <2>4
<1>5. FirstBytes' = FirstBytes \cup {Head(s)}
  <2>1. FirstBytes' = {Head(yielded'[i]) : i \in (1 .. n) \cup {n + 1}}
    BY <1>2, <1>3 DEF FirstBytes
  <2>2. FirstBytes = {Head(yielded[i]) : i \in 1 .. n}
    BY <1>1 DEF FirstBytes
  <2>3. FirstBytes' = {Head(yielded'[i]) : i \in 1 .. n} \cup {Head(yielded'[n + 1])}
    BY <2>1
  <2>4. {Head(yielded'[i]) : i \in 1 .. n} = {Head(yielded[i]) : i \in 1 .. n}
    BY <1>1
  <2> QED BY <1>1, <2>2, <2>3, <2>4
<1> QED BY <1>1, <1>2, <1>4, <1>5 DEF n

(* A line begun: of the new bytes, none is of another line.                *)
LEMMA BeginFacts ==
  ASSUME TypeOK, LoggerInv, BeginLine
  PROVE  /\ file' \in Seq(Bytes)
         /\ Len(file') >= Len(file) /\ Len(file') \in Nat
         /\ \A i \in 1 .. Len(file) : file'[i] = file[i]
         /\ \A i \in Len(file) + 1 .. Len(file') : file'[i] \in {lines', Newline}
         /\ LinesIn(file') = LinesIn(file) \cup {lines'}
         /\ lines' = lines + 1 /\ lines' \in 1 .. MaxLines
         /\ Whole(file') /\ Ordered(file')
         /\ halfWritten' <=> ~Ended(file')
<1> DEFINE k == lines + 1
           c == file \o Content(k)
<1>1. /\ file \in Seq(Bytes) /\ lines \in 0 .. MaxLines /\ lines < MaxLines
      /\ MaxLines \in Nat
      /\ lines' = k /\ Ended(file)
      /\ halfWritten' = ~WholeLines /\ WholeLines \in BOOLEAN
      /\ file' = c \o (IF WholeLines THEN <<Newline>> ELSE <<>>)
  BY TailAssumption DEF BeginLine, TypeOK, LoggerInv
<1>2. k \in 1 .. MaxLines /\ \A x \in LinesIn(file) : x < k
  BY <1>1 DEF LoggerInv
<1>3. Len(file) \in Nat
  BY <1>1, BytesFacts
<1> HIDE DEF k
<1>4. /\ Content(k) \in Seq(Bytes) /\ Len(Content(k)) \in Nat
      /\ LinesIn(Content(k)) = {k}
  BY <1>2, ContentFacts, BytesFacts
<1>5. /\ c \in Seq(Bytes) /\ Len(c) = Len(file) + Len(Content(k))
      /\ \A i \in 1 .. Len(file) : c[i] = file[i]
      /\ LinesIn(c) = LinesIn(file) \cup {k}
  BY <1>1, <1>4, BehindFacts
<1>6. /\ Whole(c) /\ Ordered(c) /\ ~Ended(c)
      /\ \A i \in Len(file) + 1 .. Len(c) : c[i] = k
  BY <1>1, <1>2, LineAppended DEF LoggerInv
<1>7. Len(c) \in Nat /\ Len(c) >= Len(file)
  BY <1>3, <1>4, <1>5
<1> HIDE DEF c
<1>8. CASE WholeLines
  <2>1. file' = Append(c, Newline)
    <3>1. Newline \in Bytes
      BY TailAssumption DEF Newline, Bytes
    <3>2. file' = c \o <<Newline>>
      BY <1>1, <1>8
    <3> QED BY <1>5, <3>1, <3>2, AppendIsConcat
  <2>2. /\ file' \in Seq(Bytes) /\ Len(file') = Len(c) + 1
        /\ \A i \in 1 .. Len(c) : file'[i] = c[i]
        /\ file'[Len(c) + 1] = Newline
        /\ Ended(file')
        /\ LinesIn(file') = LinesIn(c)
        /\ Whole(file') /\ Ordered(file')
    BY <1>5, <1>6, <2>1, NewlineAppended
  <2>3. \A i \in 1 .. Len(file) : file'[i] = file[i]
    <3>1. \A i \in 1 .. Len(file) : i \in 1 .. Len(c)
      BY <1>3, <1>7
    <3> QED BY <1>5, <2>2, <3>1
  <2>4. \A i \in Len(file) + 1 .. Len(file') : file'[i] \in {k, Newline}
    <3>1. \A i \in Len(file) + 1 .. Len(file') :
             (i \in 1 .. Len(c) /\ i \in Len(file) + 1 .. Len(c)) \/ i = Len(c) + 1
      BY <1>3, <1>7, <2>2
    <3> QED BY <1>6, <2>2, <3>1
  <2>5. Len(file') >= Len(file) /\ Len(file') \in Nat
    BY <1>3, <1>7, <2>2
  <2> QED BY <1>1, <1>2, <1>5, <1>8, <2>2, <2>3, <2>4, <2>5 DEF k
<1>9. CASE ~WholeLines
  <2>1. file' = c
    <3>1. file' = c \o <<>>
      BY <1>1, <1>9
    <3> QED BY <1>5, <3>1, ConcatEmptySeq
  <2> QED BY <1>1, <1>2, <1>5, <1>6, <1>7, <1>9, <2>1 DEF k
<1> QED BY <1>1, <1>8, <1>9

(* The end of a line.                                                      *)
LEMMA EndFacts ==
  ASSUME TypeOK, LoggerInv, EndLine
  PROVE  /\ file' \in Seq(Bytes)
         /\ Len(file') >= Len(file) /\ Len(file') \in Nat
         /\ \A i \in 1 .. Len(file) : file'[i] = file[i]
         /\ \A i \in Len(file) + 1 .. Len(file') : file'[i] = Newline
         /\ LinesIn(file') = LinesIn(file)
         /\ Whole(file') /\ Ordered(file') /\ Ended(file')
<1>1. file \in Seq(Bytes) /\ Len(file) \in Nat /\ file' = Append(file, Newline)
  BY BytesFacts DEF EndLine, TypeOK
<1>2. /\ file' \in Seq(Bytes) /\ Len(file') = Len(file) + 1
      /\ \A i \in 1 .. Len(file) : file'[i] = file[i]
      /\ file'[Len(file) + 1] = Newline
      /\ Ended(file')
      /\ LinesIn(file') = LinesIn(file)
      /\ Whole(file') /\ Ordered(file')
  BY <1>1, NewlineAppended DEF LoggerInv
<1> QED BY <1>1, <1>2

(* The actions of the reader leave the file, its lines and its rotations.  *)
LEMMA ReaderLeaves ==
  ASSUME Reader \/ YieldFails \/ Crash \/ CrashBetweenCommits
  PROVE  UNCHANGED <<exists, inode, file, lines, halfWritten, today, written, rotations>>
BY DEF Reader, Stat, Read, OpenFails, Yield, LineRaises, Retry, YieldFails,
       Crash, CrashBetweenCommits, Fault, Abandon, logFile, writer, counters

LEMMA LoggerStep ==
  ASSUME TypeOK, LoggerInv, [Next]_vars
  PROVE  LoggerInv'
<1> DEFINE seen == <<exists, inode, file, lines, halfWritten, written, rotations>>
<1>1. CASE UNCHANGED seen
  BY <1>1 DEF LoggerInv, LinesIn, Whole, Begins, LineAt, Ordered, Ended
<1>2. CASE UNCHANGED vars
  BY <1>1, <1>2 DEF vars, logFile, writer, counters
<1>3. CASE Reader \/ YieldFails \/ Crash \/ CrashBetweenCommits
  BY <1>1, <1>3, ReaderLeaves
<1>4. CASE DayPasses
  BY <1>1, <1>4 DEF DayPasses, logFile
<1>5. CASE BeginLine
  <2>1. /\ Len(written') = Len(written) + 1
        /\ UNCHANGED <<exists, inode, rotations>> /\ exists
    BY <1>5 DEF BeginLine, TypeOK, counters
  <2>2. /\ LinesIn(file') = LinesIn(file) \cup {lines'}
        /\ lines' = lines + 1 /\ lines' \in 1 .. MaxLines
        /\ Whole(file') /\ Ordered(file')
        /\ halfWritten' <=> ~Ended(file')
    BY <1>5, BeginFacts
  <2>3. LinesIn(file)' = LinesIn(file')
    BY DEF LinesIn
  <2>4. LinesIn(file') \subseteq 1 .. lines'
    <3>1. lines \in Nat /\ LinesIn(file) \subseteq 1 .. lines
      BY DEF TypeOK, LoggerInv
    <3> QED BY <2>2, <3>1
  <2>5. Len(written') = lines'
    BY <2>1, <2>2 DEF LoggerInv
  <2>6. inode' <= rotations' + (IF exists' THEN 1 ELSE 0)
    BY <2>1 DEF LoggerInv
  <2>7. Whole(file)' /\ Ordered(file)' /\ (halfWritten <=> ~Ended(file))'
    BY <2>2 DEF Whole, Begins, LineAt, Ordered, Ended
  <2> QED BY <2>1, <2>3, <2>4, <2>5, <2>6, <2>7 DEF LoggerInv
<1>6. CASE EndLine
  <2>1. UNCHANGED <<exists, inode, lines, written, rotations>> /\ ~halfWritten'
    BY <1>6 DEF EndLine, counters
  <2>2. /\ LinesIn(file') = LinesIn(file)
        /\ Whole(file') /\ Ordered(file') /\ Ended(file')
    BY <1>6, EndFacts
  <2>3. LinesIn(file)' \subseteq 1 .. lines'
    BY <2>1, <2>2 DEF LoggerInv, LinesIn
  <2>4. Whole(file)' /\ Ordered(file)' /\ Ended(file)'
    BY <2>2 DEF Whole, Begins, LineAt, Ordered, Ended
  <2>5. exists
    <3>1. file # <<>>
      BY <1>6 DEF EndLine, LoggerInv, Ended
    <3> QED BY <3>1 DEF LoggerInv
  <2> QED BY <2>1, <2>3, <2>4, <2>5 DEF LoggerInv
<1>7. CASE RotateByRename \/ RotateByTruncation
  <2>1. /\ file' = <<>> /\ ~halfWritten
        /\ UNCHANGED <<inode, lines, halfWritten, written>>
        /\ rotations' = rotations + 1
    BY <1>7 DEF RotateByRename, RotateByTruncation, Rotate, writer
  <2>2. LinesIn(file)' = {} /\ Whole(file)' /\ Ordered(file)' /\ Ended(file)'
    BY <2>1, EmptyFacts DEF LinesIn, Whole, Begins, LineAt, Ordered, Ended
  <2>3. inode' <= rotations' + (IF exists' THEN 1 ELSE 0)
    <3>1. inode \in Nat /\ rotations \in Nat /\ inode <= rotations + 1
      BY TailAssumption DEF TypeOK, LoggerInv
    <3> QED BY <2>1, <3>1
  <2> QED BY <2>1, <2>2, <2>3 DEF LoggerInv
<1>8. CASE Create
  <2>1. /\ exists' /\ ~exists /\ inode' = inode + 1
        /\ UNCHANGED <<file, lines, halfWritten, written, rotations>>
    BY <1>8 DEF Create, writer, counters
  <2>2. Whole(file)' /\ Ordered(file)' /\ LinesIn(file)' = LinesIn(file)
        /\ (Ended(file)' <=> Ended(file))
    BY <2>1 DEF LoggerInv, LinesIn, Whole, Begins, LineAt, Ordered, Ended
  <2>3. inode' <= rotations' + 1
    <3>1. inode \in Nat /\ rotations \in Nat /\ inode <= rotations + 0
      BY <2>1, TailAssumption DEF TypeOK, LoggerInv
    <3> QED BY <2>1, <3>1
  <2> QED BY <2>1, <2>2, <2>3 DEF LoggerInv
<1> QED BY <1>2, <1>3, <1>4, <1>5, <1>6, <1>7, <1>8 DEF Next

(* A fault takes the batch.                                                *)
LEMMA AbandonFacts ==
  ASSUME TypeOK, Abandon
  PROVE  /\ UNCHANGED <<exists, inode, file, lines, halfWritten, today, written,
                        yielded, rotatedAway, truncated, misdated, rotations, days>>
         /\ buffer' = <<>> /\ batch' = <<>> /\ now_year' = 0
         /\ dropped' = dropped \cup LinesIn(batch)
         /\ dropped' \subseteq 1 .. MaxLines
<1>1. LinesIn(batch) \subseteq 1 .. MaxLines
  BY BytesFacts DEF TypeOK
<1> QED BY <1>1 DEF Abandon, TypeOK, logFile, writer

LEMMA TypeStep ==
  ASSUME TypeOK, LoggerInv, ReaderInv, [Next]_vars
  PROVE  TypeOK'
<1> DEFINE LoggerType ==
              /\ exists \in BOOLEAN
              /\ inode \in 1 .. MaxRotations + 1
              /\ file \in Seq(Bytes)
              /\ lines \in 0 .. MaxLines
              /\ halfWritten \in BOOLEAN
              /\ rotations \in 0 .. MaxRotations
              /\ today \in Dates /\ written \in Seq(Dates)
           ReaderType ==
              /\ db \in [inode : Nat, offset : Nat]
              /\ pc \in {"poll", "read", "batch", "backoff"}
              /\ buffer \in Seq(Bytes)
              /\ batch \in Seq(Bytes)
              /\ pc = "batch" <=> batch # <<>>
              /\ now_year \in Int
           HistoryType ==
              /\ yielded \in Seq(Seq(Bytes))
              /\ started \in -1 .. MaxLines
              /\ dropped \subseteq 1 .. MaxLines
              /\ rotatedAway \subseteq 1 .. MaxLines
              /\ truncated \in BOOLEAN
              /\ slips \subseteq {"partial", "truncation", "race", "commit"}
              /\ faults \in 0 .. MaxFaults
              /\ misdated \subseteq 1 .. MaxLines
<1>1. TypeOK <=> LoggerType /\ ReaderType /\ HistoryType
  BY DEF TypeOK
<1>2. TypeOK' <=> LoggerType' /\ ReaderType' /\ HistoryType'
  BY DEF TypeOK
<1>3. /\ MaxLines \in Nat /\ MaxRotations \in Nat /\ MaxFaults \in Nat
      /\ lines \in Nat /\ inode \in Nat /\ rotations \in Nat /\ faults \in Nat
  BY TailAssumption DEF TypeOK
<1>4. LoggerType /\ ReaderType /\ HistoryType
  BY <1>1
<1>5. LoggerType'
  <2>1. CASE UNCHANGED <<exists, inode, file, lines, halfWritten, rotations, today, written>>
    BY <1>4, <2>1
  <2>2. CASE UNCHANGED vars
    BY <2>1, <2>2 DEF vars, logFile, writer, counters
  <2>3. CASE Reader \/ YieldFails \/ Crash \/ CrashBetweenCommits
    BY <2>1, <2>3, ReaderLeaves
  <2>4. CASE DayPasses
    <3>1. today' = NextDay(today) /\ NextDay(today) \in Dates
      BY <1>4, <2>4, NextDayIsDate DEF DayPasses
    <3> QED BY <1>4, <2>4, <3>1 DEF DayPasses, logFile
  <2>5. CASE BeginLine
    <3>1. file' \in Seq(Bytes) /\ lines' \in 0 .. MaxLines
      BY <1>3, <2>5, BeginFacts
    <3>2. written' \in Seq(Dates) /\ halfWritten' \in BOOLEAN
      BY <1>4, <2>5, TailAssumption DEF BeginLine
    <3> QED BY <1>4, <2>5, <3>1, <3>2 DEF BeginLine, counters
  <2>6. CASE EndLine
    <3>1. file' \in Seq(Bytes)
      BY <2>6, EndFacts
    <3> QED BY <1>4, <2>6, <3>1 DEF EndLine, counters
  <2>7. CASE RotateByRename \/ RotateByTruncation
    <3>1. rotations' = rotations + 1 /\ rotations < MaxRotations
      BY <2>7 DEF RotateByRename, RotateByTruncation, Rotate
    <3>2. rotations' \in 0 .. MaxRotations
      BY <1>3, <3>1
    <3>3. /\ exists' \in BOOLEAN /\ file' = <<>>
          /\ UNCHANGED <<inode, lines, halfWritten, today, written>>
      BY <1>4, <2>7 DEF RotateByRename, RotateByTruncation, Rotate, writer
    <3> QED BY <1>4, <3>2, <3>3
  <2>8. CASE Create
    <3>1. inode' = inode + 1 /\ inode <= rotations /\ rotations <= MaxRotations
      BY <1>3, <1>4, <2>8 DEF Create, LoggerInv
    <3>2. inode' \in 1 .. MaxRotations + 1
      BY <1>3, <3>1
    <3> QED BY <1>4, <2>8, <3>2 DEF Create, writer, counters
  <2> QED BY <2>2, <2>3, <2>4, <2>5, <2>6, <2>7, <2>8 DEF Next
<1>6. ReaderType' /\ HistoryType'
  <2>1. CASE UNCHANGED <<db, pc, buffer, batch, now_year, yielded, started, dropped,
                         rotatedAway, truncated, slips, faults, misdated>>
    BY <1>4, <2>1
  <2>2. CASE UNCHANGED vars
    BY <2>1, <2>2 DEF vars, generator, history, counters
  <2>3. CASE BeginLine \/ EndLine \/ DayPasses \/ Create
    BY <2>1, <2>3 DEF BeginLine, EndLine, DayPasses, Create, generator, history, counters
  <2>4. CASE RotateByRename \/ RotateByTruncation
    <3>1. /\ UNCHANGED <<db, pc, buffer, batch, now_year, yielded, started, dropped,
                         slips, faults, misdated>>
          /\ truncated' \in BOOLEAN
          /\ rotatedAway' = rotatedAway \cup
                              (IF db.inode = NoInode THEN {} ELSE LinesIn(Unread))
      BY <1>4, <2>4
         DEF RotateByRename, RotateByTruncation, Rotate, generator
    <3>2. LinesIn(Unread) \subseteq 1 .. MaxLines
      BY UnreadFacts, BytesFacts
    <3> QED BY <1>4, <3>1, <3>2
  <2>5. CASE Stat
    <3>1. /\ UNCHANGED <<batch, now_year, yielded, dropped, rotatedAway, faults, misdated>>
          /\ pc = "poll" /\ pc' \in {"read", "poll"} /\ truncated' = FALSE
          /\ buffer' = buffer \/ buffer' = <<>>
          /\ started' = lines \/ started' = started
          /\ db' = Place
          /\ slips' = slips \/ slips' = slips \cup {"truncation"}
      BY <2>5 DEF Stat, counters
    <3>2. Place \in [inode : Nat, offset : Nat]
      <4>1. Len(file) \in Nat
        BY <1>4, BytesFacts
      <4> QED BY <1>3, <1>4, <4>1 DEF Place
    <3>3. started' \in -1 .. MaxLines
      BY <1>3, <1>4, <3>1
    <3>4. slips' \subseteq {"partial", "truncation", "race", "commit"}
      BY <1>4, <3>1
    <3> QED BY <1>4, <3>1, <3>2, <3>3, <3>4
  <2>6. CASE Read
    <3>1. /\ batch' \in Seq(Bytes) /\ buffer' \in Seq(Bytes)
          /\ db' = [inode |-> db.inode, offset |-> db.offset + Len(batch')]
          /\ pc' = IF batch' = <<>> THEN "poll" ELSE "batch"
      BY <2>6, ReadFacts
    <3>2. db' \in [inode : Nat, offset : Nat]
      <4>1. Len(batch') \in Nat
        BY <3>1, BytesFacts
      <4> QED BY <1>4, <3>1, <4>1
    <3>3. slips' \subseteq {"partial", "truncation", "race", "commit"}
      BY <1>4, <2>6 DEF Read
    <3>4. now_year' \in Int
      BY <1>4, <2>6 DEF Read, Dates
    <3> QED BY <1>4, <2>6, <3>1, <3>2, <3>3, <3>4 DEF Read, counters
  <2>7. CASE OpenFails
    BY <1>4, <2>7 DEF OpenFails, history, counters
  <2>8. CASE Yield
    <3>1. /\ UNCHANGED <<db, buffer, started, dropped, rotatedAway, truncated, slips, faults>>
          /\ pc = "batch" /\ batch' = LaterLines
          /\ pc' = IF LaterLines = <<>> THEN "poll" ELSE "batch"
          /\ now_year' = IF LaterLines = <<>> THEN 0 ELSE now_year
      BY <2>8 DEF Yield, counters
    <3>2. NextLine \in Seq(Bytes) /\ LaterLines \in Seq(Bytes)
      BY <1>4, <3>1, NextLineFacts
    <3>3. LinesIn(NextLine) \subseteq 1 .. MaxLines
      BY <3>2, BytesFacts
    <3>4. yielded' \in Seq(Seq(Bytes)) /\ misdated' \subseteq 1 .. MaxLines
      <4>1. CASE NextLine = <<>>
        BY <1>4, <2>8, <4>1 DEF Yield
      <4>2. CASE NextLine # <<>>
        <5>1. yielded' = Append(yielded, NextLine)
          BY <2>8, <4>2 DEF Yield
        <5>2. misdated' \subseteq misdated \cup LinesIn(NextLine)
          BY <2>8, <4>2 DEF Yield
        <5> QED BY <1>4, <3>2, <3>3, <5>1, <5>2
      <4> QED BY <4>1, <4>2
    <3> HIDE DEF LoggerType
    <3> QED BY <1>4, <3>1, <3>2, <3>4
  <2>9. CASE YieldFails \/ LineRaises \/ Crash \/ CrashBetweenCommits
    <3>1. Abandon
      BY <2>9 DEF YieldFails, LineRaises, Crash, CrashBetweenCommits, Fault
    <3>2. /\ UNCHANGED <<yielded, rotatedAway, truncated, misdated>>
          /\ buffer' = <<>> /\ batch' = <<>> /\ now_year' = 0
          /\ dropped' \subseteq 1 .. MaxLines
      BY <3>1, AbandonFacts
    <3>3. faults' \in 0 .. MaxFaults
      <4>1. faults' = faults \/ (faults < MaxFaults /\ faults' = faults + 1)
        BY <2>9 DEF YieldFails, LineRaises, Crash, CrashBetweenCommits, Fault
      <4> QED BY <1>3, <1>4, <4>1
    <3>4. pc' \in {"poll", "backoff"}
      BY <2>9 DEF YieldFails, LineRaises, Crash, CrashBetweenCommits
    <3>5. db' = db \/ db' = [db EXCEPT !.inode = inode]
      BY <2>9 DEF YieldFails, LineRaises, Crash, CrashBetweenCommits
    <3>6. db' \in [inode : Nat, offset : Nat]
      BY <1>3, <1>4, <3>5
    <3>7. started' \in -1 .. MaxLines
      <4>1. started' = started \/ started' = lines
        BY <2>9 DEF YieldFails, LineRaises, Crash, CrashBetweenCommits
      <4> QED BY <1>3, <1>4, <4>1
    <3>8. slips' \subseteq {"partial", "truncation", "race", "commit"}
      <4>1. slips' = slips \/ slips' = slips \cup {"commit"}
        BY <2>9 DEF YieldFails, LineRaises, Crash, CrashBetweenCommits
      <4> QED BY <1>4, <4>1
    <3> HIDE DEF LoggerType
    <3> QED BY <1>4, <3>2, <3>3, <3>4, <3>6, <3>7, <3>8
  <2>10. CASE Retry
    BY <1>4, <2>10 DEF Retry, PlaceKept, history, counters
  <2> QED BY <2>2, <2>3, <2>4, <2>5, <2>6, <2>7, <2>8, <2>9, <2>10 DEF Next, Reader
<1> QED BY <1>2, <1>5, <1>6

LEMMA ReaderStep ==
  ASSUME TypeOK, LoggerInv, ReaderInv, [Next]_vars
  PROVE  ReaderInv'
<1> DEFINE held == <<buffer, batch, yielded, dropped, rotatedAway, db, started>>
<1>1. /\ LinesIn(buffer) \subseteq 1 .. lines /\ LinesIn(batch) \subseteq 1 .. lines
      /\ LinesYielded \subseteq 1 .. lines /\ dropped \subseteq 1 .. lines
      /\ rotatedAway \subseteq 1 .. lines
      /\ Ended(batch) /\ db.inode <= inode
      /\ started = -1 <=> db.inode = NoInode
      /\ started <= lines
      /\ LinesIn(file) \subseteq 1 .. lines
  BY DEF ReaderInv, LoggerInv
<1>2. /\ lines \in Nat /\ inode \in Nat /\ inode >= 1 /\ db.inode \in Nat
      /\ started \in Int /\ NoInode = 0 /\ lines # -1
  BY TailAssumption DEF TypeOK, NoInode
<1>3. LinesIn(Unread) \subseteq 1 .. lines
  BY <1>1, UnreadFacts
<1>4. CASE UNCHANGED held /\ lines' \in Nat /\ lines' >= lines
           /\ inode' \in Nat /\ inode' >= inode
  <2>1. /\ LinesIn(buffer)' = LinesIn(buffer) /\ LinesIn(batch)' = LinesIn(batch)
        /\ LinesYielded' = LinesYielded /\ Ended(batch)' = Ended(batch)
    BY <1>4 DEF LinesIn, LinesYielded, Ended
  <2>2. 1 .. lines \subseteq 1 .. lines' /\ started' <= lines' /\ db'.inode <= inode'
    BY <1>1, <1>2, <1>4
  <2> QED BY <1>1, <1>4, <2>1, <2>2 DEF ReaderInv
<1>5. CASE UNCHANGED vars
  BY <1>2, <1>4, <1>5 DEF vars, logFile, writer, generator, history
<1>6. CASE BeginLine \/ EndLine \/ DayPasses \/ Create
  BY <1>2, <1>4, <1>6 DEF BeginLine, EndLine, DayPasses, Create,
                          logFile, writer, generator, history
<1>7. CASE RotateByRename \/ RotateByTruncation
  <2>1. /\ UNCHANGED <<lines, inode, buffer, batch, yielded, dropped, db, started>>
        /\ rotatedAway' = rotatedAway \cup
                            (IF db.inode = NoInode THEN {} ELSE LinesIn(Unread))
    BY <1>7 DEF RotateByRename, RotateByTruncation, Rotate, writer, generator
  <2>2. /\ LinesIn(buffer)' = LinesIn(buffer) /\ LinesIn(batch)' = LinesIn(batch)
        /\ LinesYielded' = LinesYielded /\ Ended(batch)' = Ended(batch)
    BY <2>1 DEF LinesIn, LinesYielded, Ended
  <2> QED BY <1>1, <1>3, <2>1, <2>2 DEF ReaderInv
<1>8. CASE Stat
  <2>1. /\ UNCHANGED <<lines, inode, batch, yielded, dropped, rotatedAway>>
        /\ buffer' = buffer \/ buffer' = <<>>
        /\ db' = Place
        /\ started' = IF db.inode = NoInode /\ started = -1 THEN lines ELSE started
    BY <1>8 DEF Stat, logFile, writer
  <2>2. /\ LinesIn(buffer)' \subseteq LinesIn(buffer)
        /\ LinesIn(batch)' = LinesIn(batch)
        /\ LinesYielded' = LinesYielded /\ Ended(batch)' = Ended(batch)
    <3>1. LinesIn(buffer)' \subseteq LinesIn(buffer)
      BY <2>1, EmptyFacts DEF LinesIn
    <3> QED BY <2>1, <3>1 DEF LinesIn, LinesYielded, Ended
  <2>3. db'.inode = inode
    BY <2>1 DEF Place, NewFile, Shrunk
  <2>4. started' # -1 /\ started' <= lines'
    BY <1>1, <1>2, <2>1
  <2>5. db'.inode # NoInode /\ db'.inode <= inode'
    BY <1>2, <2>1, <2>3
  <2> QED BY <1>1, <2>1, <2>2, <2>4, <2>5 DEF ReaderInv
<1>9. CASE Read
  <2>1. UNCHANGED <<lines, inode, yielded, dropped, rotatedAway, started>>
    BY <1>9 DEF Read, logFile, writer
  <2>2. /\ LinesIn(batch') \subseteq 1 .. lines /\ LinesIn(buffer') \subseteq 1 .. lines
        /\ Ended(batch') /\ db'.inode = db.inode
    BY <1>1, <1>9, ReadFacts
  <2>3. /\ LinesIn(buffer)' = LinesIn(buffer') /\ LinesIn(batch)' = LinesIn(batch')
        /\ LinesYielded' = LinesYielded /\ Ended(batch)' = Ended(batch')
    BY <2>1 DEF LinesIn, LinesYielded, Ended
  <2> QED BY <1>1, <2>1, <2>2, <2>3 DEF ReaderInv
<1>10. CASE OpenFails \/ Retry
  <2>1. /\ UNCHANGED <<lines, inode, yielded, dropped, rotatedAway, started, db>>
        /\ buffer' = buffer \/ buffer' = <<>>
        /\ batch' = batch \/ batch' = <<>>
    BY <1>10 DEF OpenFails, Retry, PlaceKept, logFile, writer, history
  <2>2. /\ LinesIn(buffer)' \subseteq LinesIn(buffer)
        /\ LinesIn(batch)' \subseteq LinesIn(batch)
        /\ LinesYielded' = LinesYielded /\ Ended(batch)'
    <3>1. LinesIn(buffer)' \subseteq LinesIn(buffer)
      BY <2>1, EmptyFacts DEF LinesIn
    <3>2. LinesIn(batch)' \subseteq LinesIn(batch)
      BY <2>1, EmptyFacts DEF LinesIn
    <3>3. Ended(batch)'
      BY <1>1, <2>1 DEF Ended
    <3> QED BY <2>1, <3>1, <3>2, <3>3 DEF LinesIn, LinesYielded
  <2> QED BY <1>1, <2>1, <2>2 DEF ReaderInv
<1>11. CASE Yield
  <2>1. /\ UNCHANGED <<lines, inode, buffer, dropped, rotatedAway, started, db>>
        /\ batch' = LaterLines /\ batch # <<>>
        /\ NextLine = <<>> => yielded' = yielded
        /\ NextLine # <<>> => yielded' = Append(yielded, NextLine)
    BY <1>11 DEF Yield, logFile, writer, TypeOK
  <2>2. /\ LinesIn(buffer)' = LinesIn(buffer) /\ LinesIn(batch)' = LinesIn(LaterLines)
        /\ Ended(batch)' = Ended(LaterLines)
    BY <2>1 DEF LinesIn, Ended
  <2>3. /\ LinesIn(NextLine) \subseteq 1 .. lines /\ LinesIn(LaterLines) \subseteq 1 .. lines
        /\ Ended(LaterLines) /\ NextLine \in Seq(Bytes)
    BY <1>1, <2>1, NextLineFacts
  <2>4. LinesYielded' \subseteq 1 .. lines
    <3>1. CASE NextLine = <<>>
      BY <1>1, <2>1, <3>1 DEF LinesYielded, LinesIn
    <3>2. CASE NextLine # <<>>
      <4>1. yielded \in Seq(Seq(Bytes))
        BY DEF TypeOK
      <4>2. LinesYielded' = LinesYielded \cup LinesIn(NextLine)
        BY <2>1, <2>3, <3>2, <4>1, YieldedFacts
      <4> QED BY <1>1, <2>3, <4>2
    <3> QED BY <3>1, <3>2
  <2> QED BY <1>1, <2>1, <2>2, <2>3, <2>4 DEF ReaderInv
<1>12. CASE YieldFails \/ LineRaises \/ Crash \/ CrashBetweenCommits
  <2>1. Abandon
    BY <1>12 DEF YieldFails, LineRaises, Crash, CrashBetweenCommits, Fault
  <2>2. /\ UNCHANGED <<lines, inode, yielded, rotatedAway>>
        /\ buffer' = <<>> /\ batch' = <<>>
        /\ dropped' = dropped \cup LinesIn(batch)
    BY <2>1, AbandonFacts
  <2>3. /\ LinesIn(buffer)' = {} /\ LinesIn(batch)' = {} /\ Ended(batch)'
        /\ LinesYielded' = LinesYielded
    BY <2>2, EmptyFacts DEF LinesIn, Ended, LinesYielded
  <2>4. \/ UNCHANGED <<db, started>>
        \/ /\ db' = [db EXCEPT !.inode = inode]
           /\ started' = IF started = -1 THEN lines ELSE started
    BY <1>12 DEF YieldFails, LineRaises, Crash, CrashBetweenCommits
  <2>5. /\ started' = -1 <=> db'.inode = NoInode
        /\ started' <= lines' /\ db'.inode <= inode'
    <3>1. CASE UNCHANGED <<db, started>>
      BY <1>1, <2>2, <3>1
    <3>2. CASE /\ db' = [db EXCEPT !.inode = inode]
               /\ started' = IF started = -1 THEN lines ELSE started
      <4>1. db'.inode = inode
        BY <3>2 DEF TypeOK
      <4>2. started' # -1 /\ started' <= lines'
        BY <1>1, <1>2, <2>2, <3>2
      <4>3. inode # NoInode /\ inode <= inode'
        BY <1>2, <2>2
      <4> QED BY <4>1, <4>2, <4>3
    <3> QED BY <2>4, <3>1, <3>2
  <2> QED BY <1>1, <2>2, <2>3, <2>5 DEF ReaderInv
<1> QED BY <1>5, <1>6, <1>7, <1>8, <1>9, <1>10, <1>11, <1>12 DEF Next, Reader

(* The dates only the calendar, the logger, the poll and the parser touch. *)
LEMMA DateStep ==
  ASSUME TypeOK, LoggerInv, ReaderInv, DateInv, [Next]_vars
  PROVE  DateInv'
<1>1. /\ \A k \in 1 .. lines : ~After(written[k], today)
      /\ batch # <<>> => now_year <= today.year
      /\ \A k \in LinesIn(batch) : written[k].year <= now_year
      /\ misdated = {}
  BY DEF DateInv, DatedRight
<1>2. /\ today \in Dates /\ lines \in Nat /\ LinesIn(batch) \subseteq 1 .. lines
      /\ today.year \in Int /\ today.day \in Int /\ now_year \in Int
      /\ \A k \in 1 .. lines : /\ written[k] \in Dates
                               /\ written[k].year \in Int /\ written[k].day \in Int
  <2>1. written \in Seq(Dates) /\ Len(written) = lines
    BY DEF TypeOK, LoggerInv
  <2>2. \A k \in 1 .. lines : written[k] \in Dates
    BY <2>1
  <2>3. \A d \in Dates : d.year \in Int /\ d.day \in Int
    BY CalendarAssumption DEF Dates
  <2> QED BY <2>2, <2>3 DEF TypeOK, ReaderInv
<1>3. CASE /\ UNCHANGED <<lines, today, written>>
           /\ (UNCHANGED <<batch, now_year>> \/ batch' = <<>>)
           /\ UNCHANGED misdated
  <2>1. CASE UNCHANGED <<batch, now_year>>
    BY <1>1, <1>3, <2>1 DEF DateInv, DatedRight, LinesIn
  <2>2. CASE batch' = <<>>
    <3>1. LinesIn(batch)' = {}
      BY <2>2, EmptyFacts DEF LinesIn
    <3> QED BY <1>1, <1>3, <2>2, <3>1 DEF DateInv, DatedRight
  <2> QED BY <1>3, <2>1, <2>2
<1>4. CASE UNCHANGED vars
  BY <1>3, <1>4 DEF vars, writer, generator, history
<1>5. CASE EndLine \/ RotateByRename \/ RotateByTruncation \/ Create \/ Stat \/ OpenFails
  BY <1>3, <1>5 DEF EndLine, RotateByRename, RotateByTruncation, Rotate, Create, Stat,
                    OpenFails, writer, generator, history
<1>6. CASE YieldFails \/ LineRaises \/ Crash \/ CrashBetweenCommits
  <2>1. Abandon
    BY <1>6 DEF YieldFails, LineRaises, Crash, CrashBetweenCommits, Fault
  <2> QED BY <1>3, <2>1, AbandonFacts
<1>7. CASE Retry
  BY <1>3, <1>7 DEF Retry, writer, history
<1>8. CASE BeginLine
  <2>1. /\ UNCHANGED <<today, batch, now_year, misdated>>
        /\ lines' = lines + 1 /\ written' = Append(written, today)
    BY <1>8 DEF BeginLine, generator, history
  <2>2. /\ \A k \in 1 .. lines : written'[k] = written[k]
        /\ written'[lines + 1] = today
    BY <2>1, AppendProperties DEF TypeOK, LoggerInv
  <2>3. ~After(today, today)
    BY <1>2 DEF After
  <2>4. \A k \in 1 .. lines' : ~After(written'[k], today')
    <3>1. \A k \in 1 .. lines' : k \in 1 .. lines \/ k = lines + 1
      BY <1>2, <2>1
    <3> QED BY <1>1, <2>1, <2>2, <2>3, <3>1
  <2>5. LinesIn(batch)' = LinesIn(batch)
    BY <2>1 DEF LinesIn
  <2>6. \A k \in LinesIn(batch) : written'[k].year <= now_year
    BY <1>1, <1>2, <2>2
  <2> QED BY <1>1, <2>1, <2>4, <2>5, <2>6 DEF DateInv, DatedRight
<1>9. CASE DayPasses
  <2>1. /\ UNCHANGED <<lines, written, batch, now_year, misdated>>
        /\ today' = NextDay(today)
    BY <1>9 DEF DayPasses, generator, history
  <2>2. /\ today'.year \in Int /\ today'.day \in Int
        /\ today'.year >= today.year /\ After(today', today)
    BY <1>2, <2>1, NextDayIsLater
  <2>3. \A k \in 1 .. lines : ~After(written[k], today')
    <3> SUFFICES ASSUME NEW k \in 1 .. lines, After(written[k], today')
                 PROVE  FALSE
      OBVIOUS
    <3>1. After(written[k], today)
      BY <1>2, <2>2 DEF After
    <3> QED BY <1>1, <3>1
  <2>4. LinesIn(batch)' = LinesIn(batch)
    BY <2>1 DEF LinesIn
  <2>5. batch' # <<>> => now_year' <= today'.year
    BY <1>1, <1>2, <2>1, <2>2
  <2> QED BY <1>1, <2>1, <2>3, <2>4, <2>5 DEF DateInv, DatedRight
<1>10. CASE Read
  <2>1. /\ UNCHANGED <<lines, today, written, misdated>>
        /\ batch' # <<>> => now_year' = today.year
    BY <1>10 DEF Read, writer
  <2>2. LinesIn(batch') \subseteq 1 .. lines
    BY <1>10, ReadFacts DEF ReaderInv, LoggerInv
  <2>3. \A k \in LinesIn(batch') : batch' # <<>> /\ written[k].year <= today.year
    <3>1. \A k \in 1 .. lines : written[k].year <= today.year
      BY <1>1, <1>2 DEF After
    <3>2. batch' = <<>> => LinesIn(batch') = {}
      BY EmptyFacts
    <3> QED BY <2>2, <3>1, <3>2
  <2>4. LinesIn(batch)' = LinesIn(batch')
    BY DEF LinesIn
  <2>5. \A k \in LinesIn(batch)' : written'[k].year <= now_year'
    BY <2>1, <2>3, <2>4
  <2>6. batch' # <<>> => now_year' <= today'.year
    BY <1>2, <2>1
  <2> QED BY <1>1, <2>1, <2>5, <2>6 DEF DateInv, DatedRight
<1>11. CASE Yield
  <2>1. /\ UNCHANGED <<lines, today, written>>
        /\ batch' = LaterLines /\ batch # <<>>
        /\ LaterLines # <<>> => now_year' = now_year
    BY <1>11 DEF Yield, writer, TypeOK
  <2>2. /\ LinesIn(LaterLines) \subseteq LinesIn(batch)
        /\ LinesIn(NextLine) \subseteq LinesIn(batch)
        /\ LinesIn(<<>>) = {}
    BY <2>1, NextLineFacts, EmptyFacts
  <2>3. LinesIn(batch)' = LinesIn(LaterLines)
    BY <2>1 DEF LinesIn
  <2>4. misdated' = {}
    <3>1. CASE NextLine = <<>>
      BY <1>1, <1>11, <3>1 DEF Yield
    <3>2. CASE NextLine # <<>>
      <4>1. ASSUME NEW k \in LinesIn(NextLine), InGoodTime(written[k], today)
            PROVE  YearTaken(written[k].day, now_year, today) = written[k].year
        <5>1. k \in LinesIn(batch) /\ k \in 1 .. lines
          BY <1>2, <2>2
        <5>2. /\ written[k] \in Dates /\ ~After(written[k], today)
              /\ written[k].year <= now_year /\ now_year <= today.year
          BY <1>1, <1>2, <2>1, <5>1
        <5> QED BY <1>2, <4>1, <5>2, YearIsRight
      <4>2. misdated' = misdated \cup
                    {k \in LinesIn(NextLine) :
                        /\ NextLine = Content(k)
                        /\ InGoodTime(written[k], today)
                        /\ YearTaken(written[k].day, now_year, today)
                               # written[k].year}
        BY <1>11, <3>2 DEF Yield
      <4> QED BY <1>1, <4>1, <4>2
    <3> QED BY <3>1, <3>2
  <2>5. \A k \in LinesIn(batch)' : written'[k].year <= now_year'
    <3>1. \A k \in LinesIn(LaterLines) : LaterLines # <<>> /\ k \in LinesIn(batch)
      BY <2>2
    <3> QED BY <1>1, <2>1, <2>3, <3>1
  <2>6. batch' # <<>> => now_year' <= today'.year
    BY <1>1, <2>1
  <2>7. \A k \in 1 .. lines' : ~After(written'[k], today')
    BY <1>1, <2>1
  <2> QED BY <2>4, <2>5, <2>6, <2>7 DEF DateInv, DatedRight
<1> QED BY <1>4, <1>5, <1>6, <1>7, <1>8, <1>9, <1>10, <1>11 DEF Next, Reader

-----------------------------------------------------------------------------
(* In place: what each action does to the lines that are unread.           *)

(* A place is lost for good.                                               *)
LEMMA SlipsGrow ==
  ASSUME [Next]_vars
  PROVE  slips \subseteq slips'
<1>1. CASE UNCHANGED slips
  BY <1>1
<1>2. CASE UNCHANGED vars
  BY <1>1, <1>2 DEF vars, history
<1>3. CASE BeginLine \/ EndLine \/ DayPasses \/ Create \/ RotateByRename \/ RotateByTruncation
  BY <1>1, <1>3 DEF BeginLine, EndLine, DayPasses, Create, RotateByRename,
                    RotateByTruncation, Rotate, history
<1>4. CASE Stat
  BY <1>4 DEF Stat
<1>5. CASE Read
  BY <1>5 DEF Read
<1>6. CASE OpenFails \/ Yield \/ LineRaises \/ Retry \/ YieldFails \/ Crash \/ CrashBetweenCommits
  BY <1>6 DEF OpenFails, Yield, LineRaises, Retry, YieldFails, Crash,
              CrashBetweenCommits, history
<1> QED BY <1>2, <1>3, <1>4, <1>5, <1>6 DEF Next, Reader

(* Behind the n-th byte, a file that has grown has the lines it had there, *)
(* and the new ones; and a cut is still one.                               *)
LEMMA GrownFacts ==
  ASSUME NEW a \in Seq(Bytes), NEW b \in Seq(Bytes), NEW n \in 0 .. Len(a),
         Len(b) >= Len(a), \A i \in 1 .. Len(a) : b[i] = a[i]
  PROVE  LET old == SubSeq(a, n + 1, Len(a))
             new == SubSeq(b, n + 1, Len(b))
         IN  /\ LinesIn(old) \subseteq LinesIn(new)
             /\ \A i \in Len(a) + 1 .. Len(b) : b[i] # Newline => b[i] \in LinesIn(new)
             /\ \A x \in LinesIn(new) :
                   x \in LinesIn(old) \/ \E i \in Len(a) + 1 .. Len(b) : b[i] = x
             /\ Cut(a, n) /\ (Ended(a) \/ b[Len(a) + 1] = Newline) => Cut(b, n)
<1> DEFINE old == SubSeq(a, n + 1, Len(a))
           new == SubSeq(b, n + 1, Len(b))
<1>1. /\ Len(a) \in Nat /\ Len(b) \in Nat /\ n \in Nat /\ n <= Len(a)
      /\ Len(a) \in 0 .. Len(a) /\ Len(b) \in 0 .. Len(b) /\ Len(a) <= Len(b)
  BY BytesFacts
<1>2. /\ old \in Seq(Bytes) /\ Len(old) = Len(a) - n
      /\ \A i \in 1 .. Len(a) - n : old[i] = a[n + i]
  BY <1>1, PieceFacts
<1>3. /\ new \in Seq(Bytes) /\ Len(new) = Len(b) - n
      /\ \A i \in 1 .. Len(b) - n : new[i] = b[n + i]
  BY <1>1, PieceFacts
<1> HIDE DEF old, new
<1>4. ASSUME NEW x \in LinesIn(old)
      PROVE  x \in LinesIn(new)
  <2>1. PICK i \in 1 .. Len(a) - n : old[i] = x /\ x # Newline
    BY <1>2, BytesFacts
  <2>2. i \in 1 .. Len(b) - n /\ n + i \in 1 .. Len(a)
    BY <1>1
  <2>3. new[i] = x
    BY <1>2, <1>3, <2>1, <2>2
  <2> QED BY <1>3, <2>1, <2>2, <2>3, BytesFacts
<1>5. ASSUME NEW i \in Len(a) + 1 .. Len(b), b[i] # Newline
      PROVE  b[i] \in LinesIn(new)
  <2> DEFINE j == i - n
  <2>1. j \in 1 .. Len(b) - n /\ n + j = i
    BY <1>1
  <2> HIDE DEF j
  <2>2. new[j] = b[i]
    BY <1>3, <2>1
  <2> QED BY <1>3, <1>5, <2>1, <2>2, BytesFacts
<1>6. ASSUME NEW x \in LinesIn(new)
      PROVE  x \in LinesIn(old) \/ \E i \in Len(a) + 1 .. Len(b) : b[i] = x
  <2>1. PICK i \in 1 .. Len(b) - n : new[i] = x /\ x # Newline
    BY <1>3, BytesFacts
  <2>2. b[n + i] = x
    BY <1>3, <2>1
  <2>3. CASE n + i <= Len(a)
    <3>1. i \in 1 .. Len(a) - n /\ n + i \in 1 .. Len(a)
      BY <1>1, <2>3
    <3>2. old[i] = x
      BY <1>2, <2>2, <3>1
    <3> QED BY <1>2, <2>1, <3>1, <3>2, BytesFacts
  <2>4. CASE n + i > Len(a)
    <3>1. n + i \in Len(a) + 1 .. Len(b)
      BY <1>1, <2>4
    <3> QED BY <2>2, <3>1
  <2> QED BY <1>1, <2>3, <2>4
<1>7. ASSUME Cut(a, n), Ended(a) \/ b[Len(a) + 1] = Newline
      PROVE  Cut(b, n)
  <2>1. CASE n = Len(a) /\ n # 0
    <3>1. a # <<>> /\ n \in 1 .. Len(a)
      BY <1>1, <2>1, BytesFacts
    <3> QED BY <1>7, <2>1, <3>1 DEF Cut, Ended
  <2>2. CASE n < Len(a) /\ n # 0
    <3>1. n \in 1 .. Len(a) /\ n + 1 \in 1 .. Len(a)
      BY <1>1, <2>2
    <3> QED BY <1>1, <1>7, <2>2, <3>1 DEF Cut
  <2>3. CASE n = 0
    BY <2>3 DEF Cut
  <2> QED BY <1>1, <2>1, <2>2, <2>3
<1> QED BY <1>4, <1>5, <1>6, <1>7 DEF old, new

(* From its first byte on, a file is itself.                               *)
LEMMA FromStart ==
  ASSUME NEW b \in Seq(Bytes)
  PROVE  SubSeq(b, 0 + 1, Len(b)) = b
<1>1. Len(b) \in Nat /\ 0 \in Nat /\ Len(b) \in 0 .. Len(b) /\ Len(b) - 0 = Len(b)
  BY BytesFacts
<1> DEFINE c == SubSeq(b, 0 + 1, Len(b))
<1>2. /\ c \in Seq(Bytes) /\ Len(c) = Len(b)
      /\ \A i \in 1 .. Len(b) : c[i] = b[0 + i]
  BY <1>1, PieceFacts
<1>3. \A i \in 1 .. Len(b) : 0 + i = i
  BY <1>1
<1> HIDE DEF c
<1>4. c = b
  BY <1>2, <1>3, SeqEqual
<1> QED BY <1>4 DEF c

(* What the logger appends is unread.                                      *)
LEMMA UnreadGrows ==
  ASSUME TypeOK, PlaceInv, exists,
         file' \in Seq(Bytes), Len(file') >= Len(file),
         \A i \in 1 .. Len(file) : file'[i] = file[i],
         UNCHANGED <<db, inode, truncated>>
  PROVE  /\ LinesIn(Unread) \subseteq LinesIn(Unread')
         /\ \A i \in Len(file) + 1 .. Len(file') :
               file'[i] # Newline => file'[i] \in LinesIn(Unread')
         /\ \A x \in LinesIn(Unread') :
               \/ x \in LinesIn(Unread)
               \/ \E i \in Len(file) + 1 .. Len(file') : file'[i] = x
         /\ Ended(file) \/ file'[Len(file) + 1] = Newline =>
               (~truncated /\ db.inode = inode =>
                  db.offset <= Len(file') /\ Cut(file', db.offset))
<1>1. /\ file \in Seq(Bytes) /\ Len(file) \in Nat /\ Len(file') \in Nat
      /\ db.offset \in Nat
  BY BytesFacts DEF TypeOK
<1>2. CASE db.inode = inode /\ ~truncated
  <2>1. db.offset <= Len(file) /\ Cut(file, db.offset)
    BY <1>2 DEF PlaceInv
  <2>2. db.offset \in 0 .. Len(file) /\ db.offset <= Len(file')
    BY <1>1, <2>1
  <2>3. /\ Unread = SubSeq(file, db.offset + 1, Len(file))
        /\ Unread' = SubSeq(file', db.offset + 1, Len(file'))
    BY <1>2 DEF Unread
  <2> QED BY <1>1, <2>1, <2>2, <2>3, GrownFacts
<1>3. CASE ~(db.inode = inode /\ ~truncated)
  <2>1. Unread = file /\ Unread' = file'
    BY <1>3 DEF Unread
  <2>2. /\ SubSeq(file, 0 + 1, Len(file)) = file
        /\ SubSeq(file', 0 + 1, Len(file')) = file'
        /\ 0 \in 0 .. Len(file)
    BY <1>1, FromStart
  <2>3. /\ LinesIn(file) \subseteq LinesIn(file')
        /\ \A i \in Len(file) + 1 .. Len(file') :
              file'[i] # Newline => file'[i] \in LinesIn(file')
        /\ \A x \in LinesIn(file') :
              \/ x \in LinesIn(file)
              \/ \E i \in Len(file) + 1 .. Len(file') : file'[i] = x
    <3>1. LET old == SubSeq(file, 0 + 1, Len(file))
              new == SubSeq(file', 0 + 1, Len(file'))
          IN  /\ LinesIn(old) \subseteq LinesIn(new)
              /\ \A i \in Len(file) + 1 .. Len(file') :
                    file'[i] # Newline => file'[i] \in LinesIn(new)
              /\ \A x \in LinesIn(new) :
                    \/ x \in LinesIn(old)
                    \/ \E i \in Len(file) + 1 .. Len(file') : file'[i] = x
      BY <1>1, <2>2, GrownFacts
    <3> QED BY <2>2, <3>1
  <2> QED BY <1>3, <2>1, <2>3
<1> QED BY <1>2, <1>3

(* Nothing of an empty file is unread.                                     *)
LEMMA UnreadOfNone ==
  ASSUME file' = <<>>, db'.offset \in Nat
  PROVE  LinesIn(Unread') = {}
<1>1. Unread' = <<>>
  BY EmptyFacts DEF Unread
<1> QED BY <1>1, EmptyFacts

(* A stat leaves unread what was, but on the first run.                    *)
LEMMA StatFacts ==
  ASSUME TypeOK, PlaceInv, Stat, slips' = {}
  PROVE  /\ buffer' = <<>>
         /\ db'.offset <= Len(file') /\ Cut(file', db'.offset)
         /\ LinesIn(Unread') \subseteq LinesIn(Unread)
         /\ db.inode # NoInode => LinesIn(Unread') = LinesIn(Unread)
<1>1. /\ file \in Seq(Bytes) /\ Len(file) \in Nat /\ db \in [inode : Nat, offset : Nat]
      /\ buffer = <<>>
  BY BytesFacts DEF TypeOK, PlaceInv
<1>2. /\ exists /\ UNCHANGED <<exists, inode, file>> /\ truncated' = FALSE
      /\ db' = Place
      /\ buffer' = IF NewFile \/ Shrunk THEN <<>> ELSE buffer
      /\ ~(truncated /\ db' = db /\ db.offset > 0)
  BY DEF Stat, logFile
<1>3. CASE db.inode = NoInode
  <2>1. db' = [inode |-> inode, offset |-> Len(file)]
    BY <1>2, <1>3 DEF Place
  <2>2. Unread' = SubSeq(file, Len(file) + 1, Len(file))
    BY <1>2, <2>1 DEF Unread
  <2>3. LinesIn(Unread') = {}
    <3>1. Len(file) \in 0 .. Len(file)
      BY <1>1
    <3>2. /\ Unread' \in Seq(Bytes)
          /\ Len(Unread') = IF Len(file) <= Len(file) THEN Len(file) - Len(file) ELSE 0
      BY <1>1, <2>2, <3>1, PieceFacts
    <3>3. Len(Unread') = 0
      BY <1>1, <3>2
    <3> QED BY <3>2, <3>3, BytesFacts, EmptyFacts
  <2>4. db'.offset <= Len(file') /\ Cut(file', db'.offset)
    BY <1>1, <1>2, <2>1 DEF Cut
  <2> QED BY <1>1, <1>2, <1>3, <2>3, <2>4
<1>4. CASE db.inode # NoInode /\ (NewFile \/ Shrunk)
  <2>1. db' = [inode |-> inode, offset |-> 0]
    BY <1>2, <1>4 DEF Place
  <2>2. Unread' = file
    <3>1. Unread' = SubSeq(file, 0 + 1, Len(file))
      BY <1>2, <2>1 DEF Unread
    <3> QED BY <1>1, <3>1, FromStart
  <2>3. Unread = file
    <3>1. CASE db.inode # inode
      BY <3>1 DEF Unread
    <3>2. CASE db.inode = inode
      <4>1. Len(file) < db.offset
        BY <1>4, <3>2 DEF NewFile, Shrunk
      <4>2. ~(db.offset <= Len(file))
        BY <1>1, <4>1
      <4>3. truncated
        BY <1>2, <3>2, <4>2 DEF PlaceInv
      <4> QED BY <4>3 DEF Unread
    <3> QED BY <3>1, <3>2
  <2>4. db'.offset <= Len(file') /\ Cut(file', db'.offset)
    BY <1>1, <1>2, <2>1 DEF Cut
  <2> QED BY <1>1, <1>2, <2>2, <2>3, <2>4
<1>5. CASE db.inode # NoInode /\ ~NewFile /\ ~Shrunk
  <2>1. db' = db /\ db.inode = inode /\ ~(Len(file) < db.offset)
    BY <1>2, <1>5 DEF Place, NewFile, Shrunk
  <2>2. db.offset \in Nat /\ db.offset <= Len(file)
    BY <1>1, <2>1
  <2>3. Unread' = SubSeq(file, db.offset + 1, Len(file))
    BY <1>2, <2>1 DEF Unread
  <2>4. CASE ~truncated
    <3>1. Unread' = Unread
      BY <2>1, <2>3, <2>4 DEF Unread
    <3>2. Cut(file, db.offset)
      BY <1>2, <2>1, <2>4 DEF PlaceInv
    <3> QED BY <1>1, <1>2, <2>1, <2>2, <3>1, <3>2
  <2>5. CASE truncated
    <3>1. db.offset = 0
      BY <1>2, <2>1, <2>2, <2>5
    <3>2. Unread' = Unread
      <4>1. SubSeq(file, 0 + 1, Len(file)) = file
        BY <1>1, FromStart
      <4> QED BY <2>3, <2>5, <3>1, <4>1 DEF Unread
    <3>3. Cut(file, db.offset)
      BY <3>1 DEF Cut
    <3> QED BY <1>1, <1>2, <2>1, <2>2, <3>2, <3>3
  <2> QED BY <2>4, <2>5
<1> QED BY <1>3, <1>4, <1>5

(* A read makes what was unread a batch of whole lines.                    *)
LEMMA ReadInPlace ==
  ASSUME TypeOK, LoggerInv, ReaderInv, PlaceInv, Read, slips' = {}
  PROVE  /\ buffer' = <<>>
         /\ Whole(batch') /\ Ordered(batch')
         /\ exists' /\ ~truncated' /\ db'.inode = inode' =>
              db'.offset <= Len(file') /\ Cut(file', db'.offset)
         /\ LinesIn(batch') \subseteq LinesIn(Unread)
         /\ LinesIn(Unread') \subseteq LinesIn(Unread)
         /\ LinesIn(Unread) \subseteq LinesIn(batch') \cup LinesIn(Unread')
         /\ Before(LinesIn(batch'), LinesIn(Unread'))
<1> DEFINE chunk == SubSeq(file, db.offset + 1, Len(file))
<1>1. /\ file \in Seq(Bytes) /\ Len(file) \in Nat /\ db.offset \in Nat
      /\ buffer = <<>> /\ exists
      /\ Whole(file) /\ Ordered(file)
      /\ UNCHANGED <<exists, inode, file, truncated>>
  BY BytesFacts DEF TypeOK, PlaceInv, LoggerInv, Read, logFile
<1>2. /\ buffer' = <<>> /\ chunk \in Seq(Bytes)
      /\ batch' = <<>> \o chunk
      /\ db' = [inode |-> db.inode, offset |-> db.offset + Len(batch')]
      /\ chunk # <<>> => ~truncated /\ inode = db.inode
  BY <1>1, ReadFacts
<1> HIDE DEF chunk
<1>3. batch' = chunk
  BY <1>2, ConcatEmptySeq
<1>4. CASE chunk = <<>>
  <2>1. batch' = <<>> /\ db'.inode = db.inode /\ db'.offset = db.offset
    BY <1>1, <1>2, <1>3, <1>4, EmptyFacts
  <2>2. Unread' = Unread
    BY <1>1, <2>1 DEF Unread
  <2>3. LinesIn(batch') = {} /\ Whole(batch') /\ Ordered(batch')
    BY <2>1, EmptyFacts
  <2>4. exists /\ ~truncated /\ db.inode = inode =>
              db.offset <= Len(file) /\ Cut(file, db.offset)
    BY DEF PlaceInv
  <2> QED BY <1>1, <1>2, <2>1, <2>2, <2>3, <2>4 DEF Before
<1>5. CASE chunk # <<>>
  <2>1. ~truncated /\ db.inode = inode /\ Unread = chunk
    BY <1>2, <1>5 DEF Unread, chunk
  <2>2. db.offset <= Len(file) /\ Cut(file, db.offset)
    BY <1>1, <2>1 DEF PlaceInv
  <2>3. db.offset \in 0 .. Len(file)
    BY <1>1, <2>2
  <2>4. Whole(chunk) /\ Ordered(chunk)
    BY <1>1, <2>2, <2>3, WholeFromCut DEF chunk
  <2>5. Len(chunk) = Len(file) - db.offset
    <3>1. Len(file) \in 0 .. Len(file)
      BY <1>1
    <3>2. Len(chunk) = IF db.offset <= Len(file) THEN Len(file) - db.offset ELSE 0
      BY <1>1, <3>1, PieceFacts DEF chunk
    <3> QED BY <2>2, <3>2
  <2>6. db'.offset = Len(file) /\ db'.inode = inode
    BY <1>1, <1>2, <1>3, <2>1, <2>5
  <2>7. LinesIn(Unread') = {}
    <3>1. Len(file) \in 0 .. Len(file)
      BY <1>1
    <3>2. Unread' = SubSeq(file, Len(file) + 1, Len(file))
      BY <1>1, <2>1, <2>6 DEF Unread
    <3>3. /\ Unread' \in Seq(Bytes)
          /\ Len(Unread') = IF Len(file) <= Len(file) THEN Len(file) - Len(file) ELSE 0
      BY <1>1, <3>1, <3>2, PieceFacts
    <3>4. Len(Unread') = 0
      BY <1>1, <3>3
    <3> QED BY <3>3, <3>4, BytesFacts, EmptyFacts
  <2>8. Len(file) <= Len(file) /\ Cut(file, Len(file))
    BY <1>1 DEF Cut
  <2> QED BY <1>1, <1>2, <1>3, <2>1, <2>4, <2>6, <2>7, <2>8 DEF Before
<1> QED BY <1>4, <1>5

(* A line yielded in place is whole, and the lines after it are younger.   *)
LEMMA YieldInPlace ==
  ASSUME TypeOK, LoggerInv, ReaderInv, PlaceInv, Yield
  PROVE  /\ Whole(batch') /\ Ordered(batch')
         /\ LinesIntact' /\ NoReplay'
         /\ Before(FirstBytes', LinesIn(batch'))
         /\ LinesIn(batch') \subseteq LinesIn(batch)
         /\ FirstBytes' \subseteq FirstBytes \cup LinesIn(batch)
<1> DEFINE k == batch[1]
<1>1. /\ batch \in Seq(Bytes) /\ batch # <<>> /\ Ended(batch)
      /\ Whole(batch) /\ Ordered(batch) /\ LinesIn(batch) \subseteq 1 .. lines
      /\ UNCHANGED lines /\ batch' = LaterLines
      /\ NextLine = <<>> => yielded' = yielded
      /\ NextLine # <<>> => yielded' = Append(yielded, NextLine)
      /\ yielded \in Seq(Seq(Bytes)) /\ lines \in Nat
      /\ LinesIntact /\ NoReplay /\ Before(FirstBytes, LinesIn(batch))
  BY TailAssumption DEF Yield, TypeOK, ReaderInv, PlaceInv, writer
<1>2. /\ NextLine \in Seq(Bytes) /\ LaterLines \in Seq(Bytes)
      /\ LinesIn(LaterLines) \subseteq LinesIn(batch)
  BY <1>1, NextLineFacts
<1>3. /\ Whole(LaterLines) /\ Ordered(LaterLines)
      /\ NextLine # <<>> =>
            /\ NextLine = Content(k) /\ Head(NextLine) = k
            /\ k \in LinesIn(batch)
            /\ \A x \in LinesIn(LaterLines) : k < x
  BY <1>1, FirstIsWhole DEF NextLine, LaterLines
<1> HIDE DEF k
<1>4. CASE NextLine = <<>>
  <2>1. yielded' = yielded
    BY <1>1, <1>4
  <2>2. FirstBytes' = FirstBytes /\ LinesIntact' /\ NoReplay'
    BY <1>1, <2>1 DEF FirstBytes, LinesIntact, NoReplay
  <2> QED BY <1>1, <1>2, <1>3, <2>2 DEF Before
<1>5. CASE NextLine # <<>>
  <2> DEFINE n == Len(yielded)
  <2>1. yielded' = Append(yielded, NextLine)
    BY <1>1, <1>5
  <2>2. /\ n \in Nat
        /\ DOMAIN yielded = 1 .. n /\ DOMAIN yielded' = 1 .. n + 1
        /\ \A i \in 1 .. n : yielded'[i] = yielded[i]
        /\ yielded'[n + 1] = NextLine
        /\ FirstBytes' = FirstBytes \cup {Head(NextLine)}
    BY <1>1, <1>2, <1>5, <2>1, YieldedFacts
  <2> HIDE DEF n
  <2>3. \A i \in 1 .. n + 1 : i \in 1 .. n \/ i = n + 1
    BY <2>2
  <2>4. k \in 1 .. lines /\ k \in LinesIn(batch)
    BY <1>1, <1>3, <1>5
  <2>5. LinesIntact'
    <3> SUFFICES ASSUME NEW i \in 1 .. n + 1
                 PROVE  \E m \in 1 .. lines : yielded'[i] = Content(m)
      BY <1>1, <2>2 DEF LinesIntact
    <3>1. CASE i \in 1 .. n
      <4>1. \E m \in 1 .. lines : yielded[i] = Content(m)
        BY <1>1, <2>2, <3>1 DEF LinesIntact
      <4> QED BY <2>2, <3>1, <4>1
    <3>2. CASE i = n + 1
      BY <1>3, <1>5, <2>2, <2>4, <3>2
    <3> QED BY <2>3, <3>1, <3>2
  <2>6. NoReplay'
    <3> SUFFICES ASSUME NEW i \in 1 .. n + 1, NEW j \in 1 .. n + 1, i < j
                 PROVE  Head(yielded'[i]) < Head(yielded'[j])
      BY <2>2 DEF NoReplay
    <3>1. i \in 1 .. n
      BY <2>2
    <3>2. CASE j \in 1 .. n
      <4>1. Head(yielded[i]) < Head(yielded[j])
        BY <1>1, <2>2, <3>1, <3>2 DEF NoReplay
      <4> QED BY <2>2, <3>1, <3>2, <4>1
    <3>3. CASE j = n + 1
      <4>1. Head(yielded'[j]) = k
        BY <1>3, <1>5, <2>2, <3>3
      <4>2. Head(yielded'[i]) \in FirstBytes
        BY <2>2, <3>1 DEF FirstBytes
      <4> QED BY <1>1, <2>4, <4>1, <4>2 DEF Before
    <3> QED BY <2>3, <3>2, <3>3
  <2>7. FirstBytes' = FirstBytes \cup {k}
    BY <1>3, <1>5, <2>2
  <2>8. Before(FirstBytes', LinesIn(batch'))
    BY <1>1, <1>2, <1>3, <1>5, <2>7 DEF Before
  <2> QED BY <1>1, <1>2, <1>3, <2>4, <2>5, <2>6, <2>7, <2>8
<1> QED BY <1>4, <1>5

(* Most steps neither yield nor read, and add nothing to what is unread.   *)
LEMMA PlaceKeptBy ==
  ASSUME PlaceInv, UNCHANGED yielded, lines \in Nat, lines' \in Nat, lines' >= lines,
         buffer' = <<>>, batch' = batch \/ batch' = <<>>,
         LinesIn(Unread') \subseteq LinesIn(Unread),
         exists' /\ ~truncated' /\ db'.inode = inode' =>
            db'.offset <= Len(file') /\ Cut(file', db'.offset)
  PROVE  PlaceInv'
<1>1. LinesIn(batch)' \subseteq LinesIn(batch) /\ Whole(batch)' /\ Ordered(batch)'
  <2>1. CASE batch' = batch
    BY <2>1 DEF PlaceInv, LinesIn, Whole, Begins, LineAt, Ordered
  <2>2. CASE batch' = <<>>
    <3>1. LinesIn(batch') = {} /\ Whole(batch') /\ Ordered(batch')
      BY <2>2, EmptyFacts
    <3> QED BY <3>1 DEF LinesIn, Whole, Begins, LineAt, Ordered
  <2> QED BY <2>1, <2>2
<1>2. FirstBytes' = FirstBytes /\ NoReplay'
  BY DEF FirstBytes, NoReplay, PlaceInv
<1>3. LinesIntact'
  <2>1. 1 .. lines \subseteq 1 .. lines'
    OBVIOUS
  <2> QED BY <2>1 DEF LinesIntact, PlaceInv
<1>4. LinesIn(Unread)' \subseteq LinesIn(Unread)
  BY DEF LinesIn
<1>5. /\ Before(FirstBytes, LinesIn(batch))'
      /\ Before(FirstBytes, LinesIn(Unread))'
      /\ Before(LinesIn(batch), LinesIn(Unread))'
  BY <1>1, <1>2, <1>4 DEF Before, PlaceInv
<1>6. (exists /\ ~truncated /\ db.inode = inode =>
         db.offset <= Len(file) /\ Cut(file, db.offset))'
  BY DEF Cut
<1> QED BY <1>1, <1>2, <1>3, <1>5, <1>6 DEF PlaceInv

(* A step that leaves the file and the stored place.                       *)
LEMMA FileLeft ==
  ASSUME PlaceInv, UNCHANGED <<exists, inode, file, truncated, db>>
  PROVE  /\ Unread' = Unread
         /\ exists' /\ ~truncated' /\ db'.inode = inode' =>
              db'.offset <= Len(file') /\ Cut(file', db'.offset)
BY DEF Unread, PlaceInv

LEMMA PlaceStep ==
  ASSUME IInv, [Next]_vars, slips' = {}
  PROVE  PlaceInv'
<1>1. slips = {}
  BY SlipsGrow
<1>2. TypeOK /\ LoggerInv /\ ReaderInv /\ PlaceInv
  BY <1>1 DEF IInv
<1>3. /\ lines \in Nat /\ buffer = <<>> /\ db.offset \in Nat
      /\ file \in Seq(Bytes) /\ Len(file) \in Nat
  BY <1>2, BytesFacts, TailAssumption DEF TypeOK, PlaceInv
<1>4. CASE /\ UNCHANGED <<exists, inode, file, truncated, db, yielded, lines>>
           /\ buffer' = <<>> /\ (batch' = batch \/ batch' = <<>>)
  <2>1. /\ Unread' = Unread
        /\ exists' /\ ~truncated' /\ db'.inode = inode' =>
              db'.offset <= Len(file') /\ Cut(file', db'.offset)
    BY <1>2, <1>4, FileLeft
  <2>2. lines' \in Nat /\ lines' >= lines
    BY <1>3, <1>4
  <2> QED BY <1>2, <1>3, <1>4, <2>1, <2>2, PlaceKeptBy
<1>5. CASE UNCHANGED vars
  BY <1>3, <1>4, <1>5 DEF vars, logFile, writer, generator, history
<1>6. CASE DayPasses \/ OpenFails \/ Retry
  BY <1>3, <1>4, <1>6
     DEF DayPasses, OpenFails, Retry, PlaceKept, logFile, writer, generator, history
<1>7. CASE YieldFails \/ LineRaises \/ Crash \/ CrashBetweenCommits
  <2>1. Abandon
    BY <1>7 DEF YieldFails, LineRaises, Crash, CrashBetweenCommits, Fault
  <2>2. UNCHANGED db
    BY <1>7 DEF YieldFails, LineRaises, Crash, CrashBetweenCommits
  <2> QED BY <1>2, <1>4, <2>1, <2>2, AbandonFacts
<1>8. CASE RotateByRename \/ RotateByTruncation
  <2>1. /\ file' = <<>> /\ (~exists' \/ truncated')
        /\ UNCHANGED <<lines, db, yielded, buffer, batch>>
    BY <1>8 DEF RotateByRename, RotateByTruncation, Rotate, writer, generator
  <2>2. LinesIn(Unread') = {}
    BY <1>3, <2>1, UnreadOfNone
  <2> QED BY <1>2, <1>3, <2>1, <2>2, PlaceKeptBy
<1>9. CASE Create
  <2>1. /\ ~exists /\ file = <<>> /\ inode' = inode + 1
        /\ UNCHANGED <<file, lines, db, yielded, buffer, batch>>
    BY <1>2, <1>9 DEF Create, LoggerInv, writer, generator, history
  <2>2. LinesIn(Unread') = {}
    BY <1>3, <2>1, UnreadOfNone
  <2>3. db'.inode # inode'
    <3>1. db.inode \in Nat /\ inode \in Nat /\ db.inode <= inode
      BY <1>2 DEF TypeOK, ReaderInv
    <3> QED BY <2>1, <3>1
  <2> QED BY <1>2, <1>3, <2>1, <2>2, <2>3, PlaceKeptBy
<1>10. CASE Stat
  <2>1. UNCHANGED <<lines, yielded, batch>>
    BY <1>10 DEF Stat, writer
  <2>2. /\ buffer' = <<>>
        /\ db'.offset <= Len(file') /\ Cut(file', db'.offset)
        /\ LinesIn(Unread') \subseteq LinesIn(Unread)
    BY <1>2, <1>10, StatFacts
  <2> QED BY <1>2, <1>3, <2>1, <2>2, PlaceKeptBy
<1>11. CASE EndLine
  <2>1. /\ UNCHANGED <<exists, inode, truncated, db, lines, yielded, buffer, batch>>
        /\ exists
    <3>1. file # <<>>
      BY <1>2, <1>11 DEF EndLine, LoggerInv, Ended
    <3> QED BY <1>2, <1>11, <3>1 DEF EndLine, LoggerInv, generator, history
  <2>2. /\ file' \in Seq(Bytes) /\ Len(file') >= Len(file) /\ Len(file') \in Nat
        /\ \A i \in 1 .. Len(file) : file'[i] = file[i]
        /\ \A i \in Len(file) + 1 .. Len(file') : file'[i] = Newline
    BY <1>2, <1>11, EndFacts
  <2>3. file'[Len(file) + 1] = Newline
    BY <1>3, <1>11, NewlineAppended DEF EndLine
  <2>4. /\ \A x \in LinesIn(Unread') :
             \/ x \in LinesIn(Unread)
             \/ \E i \in Len(file) + 1 .. Len(file') : file'[i] = x
        /\ ~truncated /\ db.inode = inode =>
             db.offset <= Len(file') /\ Cut(file', db.offset)
    BY <1>2, <2>1, <2>2, <2>3, UnreadGrows
  <2>5. \A x \in LinesIn(Unread') : x # Newline
    BY DEF LinesIn
  <2>6. LinesIn(Unread') \subseteq LinesIn(Unread)
    BY <2>2, <2>4, <2>5
  <2> QED BY <1>2, <1>3, <2>1, <2>4, <2>6, PlaceKeptBy
<1>12. CASE BeginLine
  <2>1. /\ UNCHANGED <<exists, inode, truncated, db, yielded, buffer, batch>>
        /\ exists /\ Ended(file)
    BY <1>2, <1>12 DEF BeginLine, LoggerInv, generator, history
  <2>2. /\ file' \in Seq(Bytes) /\ Len(file') >= Len(file) /\ Len(file') \in Nat
        /\ \A i \in 1 .. Len(file) : file'[i] = file[i]
        /\ \A i \in Len(file) + 1 .. Len(file') : file'[i] \in {lines', Newline}
        /\ lines' = lines + 1
    BY <1>2, <1>12, BeginFacts
  <2>3. /\ \A x \in LinesIn(Unread') :
             \/ x \in LinesIn(Unread)
             \/ \E i \in Len(file) + 1 .. Len(file') : file'[i] = x
        /\ ~truncated /\ db.inode = inode =>
             db.offset <= Len(file') /\ Cut(file', db.offset)
    BY <1>2, <2>1, <2>2, UnreadGrows
  <2>4. \A x \in LinesIn(Unread') : x \in LinesIn(Unread) \/ x = lines + 1
    <3>1. \A x \in LinesIn(Unread') : x # Newline
      BY DEF LinesIn
    <3> QED BY <2>2, <2>3, <3>1
  <2>5. \A x \in FirstBytes \cup LinesIn(batch) : x < lines + 1
    <3>1. LinesIn(batch) \subseteq 1 .. lines
      BY <1>2 DEF ReaderInv
    <3>2. ASSUME NEW x \in FirstBytes
          PROVE  x \in 1 .. lines
      <4>1. PICK i \in DOMAIN yielded : x = Head(yielded[i])
        BY DEF FirstBytes
      <4>2. PICK m \in 1 .. lines : yielded[i] = Content(m)
        BY <1>2, <4>1 DEF PlaceInv, LinesIntact
      <4>3. Head(Content(m)) = m
        <5>1. m \in 1 .. MaxLines
          BY <1>2, TailAssumption DEF TypeOK
        <5>2. /\ Content(m) \in Seq(Bytes) /\ Len(Content(m)) \in 1 .. 2
              /\ Content(m)[1] = m
          <6>1. /\ Content(m) \in Seq(Bytes) /\ Len(Content(m)) = Width(m)
                /\ Width(m) \in 1 .. 2
                /\ \A j \in 1 .. Width(m) : Content(m)[j] = m
            BY <5>1, ContentFacts
          <6>2. 1 \in 1 .. Width(m)
            BY <6>1
          <6> QED BY <6>1, <6>2
        <5> QED BY <5>2
      <4> QED BY <4>1, <4>2, <4>3
    <3> QED BY <1>3, <3>1, <3>2
  <2>6. /\ Before(FirstBytes, LinesIn(Unread'))
        /\ Before(LinesIn(batch), LinesIn(Unread'))
    BY <1>2, <2>4, <2>5 DEF Before, PlaceInv
  <2>7. /\ FirstBytes' = FirstBytes /\ LinesIn(batch)' = LinesIn(batch)
        /\ LinesIn(Unread)' = LinesIn(Unread')
        /\ NoReplay' /\ Whole(batch)' /\ Ordered(batch)'
        /\ Before(FirstBytes, LinesIn(batch))
    BY <1>2, <2>1
       DEF FirstBytes, LinesIn, NoReplay, Whole, Begins, LineAt, Ordered, PlaceInv
  <2>8. LinesIntact'
    <3>1. 1 .. lines \subseteq 1 .. lines'
      BY <1>3, <2>2
    <3> QED BY <1>2, <2>1, <3>1 DEF PlaceInv, LinesIntact
  <2>9. (exists /\ ~truncated /\ db.inode = inode =>
         db.offset <= Len(file) /\ Cut(file, db.offset))'
    BY <2>1, <2>3 DEF Cut
  <2>10. /\ Before(FirstBytes, LinesIn(batch))'
         /\ Before(FirstBytes, LinesIn(Unread))'
         /\ Before(LinesIn(batch), LinesIn(Unread))'
    BY <2>6, <2>7 DEF Before
  <2> QED BY <1>3, <2>1, <2>7, <2>8, <2>9, <2>10 DEF PlaceInv
<1>13. CASE Read
  <2>1. /\ UNCHANGED <<lines, yielded>> /\ pc = "read"
    BY <1>13 DEF Read, writer
  <2>2. /\ buffer' = <<>>
        /\ Whole(batch') /\ Ordered(batch')
        /\ exists' /\ ~truncated' /\ db'.inode = inode' =>
              db'.offset <= Len(file') /\ Cut(file', db'.offset)
        /\ LinesIn(batch') \subseteq LinesIn(Unread)
        /\ LinesIn(Unread') \subseteq LinesIn(Unread)
        /\ Before(LinesIn(batch'), LinesIn(Unread'))
    BY <1>2, <1>13, ReadInPlace
  <2>3. /\ FirstBytes' = FirstBytes /\ NoReplay' /\ LinesIntact'
        /\ LinesIn(batch)' = LinesIn(batch') /\ LinesIn(Unread)' = LinesIn(Unread')
        /\ Before(FirstBytes, LinesIn(Unread))
    BY <1>2, <2>1 DEF FirstBytes, NoReplay, LinesIntact, LinesIn, PlaceInv
  <2>4. /\ Before(FirstBytes, LinesIn(batch))'
        /\ Before(FirstBytes, LinesIn(Unread))'
        /\ Before(LinesIn(batch), LinesIn(Unread))'
    BY <2>2, <2>3 DEF Before
  <2>5. Whole(batch)' /\ Ordered(batch)'
    BY <2>2 DEF Whole, Begins, LineAt, Ordered
  <2>6. (exists /\ ~truncated /\ db.inode = inode =>
         db.offset <= Len(file) /\ Cut(file, db.offset))'
    BY <2>2 DEF Cut
  <2> QED BY <2>2, <2>3, <2>4, <2>5, <2>6 DEF PlaceInv
<1>14. CASE Yield
  <2>1. UNCHANGED <<exists, inode, file, truncated, db, buffer>>
    BY <1>14 DEF Yield, logFile
  <2>2. /\ Unread' = Unread
        /\ exists' /\ ~truncated' /\ db'.inode = inode' =>
              db'.offset <= Len(file') /\ Cut(file', db'.offset)
    BY <1>2, <2>1, FileLeft
  <2>3. /\ Whole(batch') /\ Ordered(batch')
        /\ LinesIntact' /\ NoReplay'
        /\ Before(FirstBytes', LinesIn(batch'))
        /\ LinesIn(batch') \subseteq LinesIn(batch)
        /\ FirstBytes' \subseteq FirstBytes \cup LinesIn(batch)
    BY <1>2, <1>14, YieldInPlace
  <2>4. /\ LinesIn(batch)' = LinesIn(batch') /\ LinesIn(Unread)' = LinesIn(Unread)
        /\ Before(FirstBytes, LinesIn(Unread))
        /\ Before(LinesIn(batch), LinesIn(Unread))
    BY <1>2, <2>2 DEF LinesIn, PlaceInv
  <2>5. /\ Before(FirstBytes, LinesIn(batch))'
        /\ Before(FirstBytes, LinesIn(Unread))'
        /\ Before(LinesIn(batch), LinesIn(Unread))'
    BY <2>3, <2>4 DEF Before
  <2>6. Whole(batch)' /\ Ordered(batch)'
    BY <2>3 DEF Whole, Begins, LineAt, Ordered
  <2>7. (exists /\ ~truncated /\ db.inode = inode =>
         db.offset <= Len(file) /\ Cut(file, db.offset))'
    BY <2>2 DEF Cut
  <2> QED BY <1>3, <2>1, <2>3, <2>5, <2>6, <2>7 DEF PlaceInv
<1> QED BY <1>5, <1>6, <1>7, <1>8, <1>9, <1>10, <1>11, <1>12, <1>13, <1>14 DEF Next, Reader

(* Where a line may be that was written since the first poll.              *)
Somewhere == LinesYielded \cup LinesIn(batch) \cup dropped \cup rotatedAway
               \cup LinesIn(Unread)

(* In place no step takes a line from where it is without putting it       *)
(* somewhere else.                                                         *)
LEMMA NothingVanishes ==
  ASSUME TypeOK, LoggerInv, ReaderInv, PlaceInv, [Next]_vars, slips' = {},
         started # -1
  PROVE  Somewhere \subseteq Somewhere'
<1> DEFINE P == LinesYielded' \cup LinesIn(batch') \cup dropped' \cup rotatedAway'
                  \cup LinesIn(Unread')
<1>1. P = Somewhere'
  BY DEF Somewhere, LinesIn
<1>2. /\ exists \in BOOLEAN /\ file \in Seq(Bytes) /\ yielded \in Seq(Seq(Bytes))
      /\ db.offset \in Nat /\ db.inode # NoInode
  BY DEF TypeOK, ReaderInv
<1>3. SUFFICES Somewhere \subseteq P
  BY <1>1
<1>4. ASSUME UNCHANGED yielded
      PROVE  LinesYielded' = LinesYielded
  BY <1>4 DEF LinesYielded, LinesIn
<1>5. CASE /\ UNCHANGED <<inode, file, truncated, db, yielded, batch, dropped, rotatedAway>>
  <2>1. Unread' = Unread /\ LinesIn(batch') = LinesIn(batch)
    BY <1>5 DEF Unread
  <2> QED BY <1>4, <1>5, <2>1 DEF Somewhere
<1>6. CASE UNCHANGED vars
  BY <1>5, <1>6 DEF vars, logFile, generator, history
<1>7. CASE DayPasses \/ OpenFails
  BY <1>5, <1>7 DEF DayPasses, OpenFails, logFile, generator, history
<1>8. CASE Retry
  <2>1. batch = <<>>
    BY <1>8 DEF Retry, TypeOK
  <2> QED BY <1>5, <1>8, <2>1 DEF Retry, PlaceKept, logFile, history
<1>9. CASE YieldFails \/ LineRaises \/ Crash \/ CrashBetweenCommits
  <2>1. Abandon
    BY <1>9 DEF YieldFails, LineRaises, Crash, CrashBetweenCommits, Fault
  <2>2. /\ UNCHANGED <<inode, file, truncated, yielded, rotatedAway>>
        /\ dropped' = dropped \cup LinesIn(batch)
    BY <2>1, AbandonFacts
  <2>3. UNCHANGED db
    BY <1>9 DEF YieldFails, LineRaises, Crash, CrashBetweenCommits
  <2>4. Unread' = Unread
    BY <2>2, <2>3 DEF Unread
  <2> QED BY <1>4, <2>2, <2>4 DEF Somewhere
<1>10. CASE RotateByRename \/ RotateByTruncation
  <2>1. /\ UNCHANGED <<db, yielded, batch, dropped>>
        /\ rotatedAway' = rotatedAway \cup LinesIn(Unread)
    BY <1>2, <1>10 DEF RotateByRename, RotateByTruncation, Rotate, generator
  <2> QED BY <1>4, <2>1 DEF Somewhere
<1>11. CASE Create
  <2>1. /\ ~exists /\ UNCHANGED <<yielded, batch, dropped, rotatedAway>>
    BY <1>11 DEF Create, generator, history
  <2>2. LinesIn(Unread) = {}
    BY <1>2, <2>1, UnreadFacts, EmptyFacts DEF LoggerInv
  <2> QED BY <1>4, <2>1, <2>2 DEF Somewhere
<1>12. CASE Stat
  <2>1. UNCHANGED <<yielded, batch, dropped, rotatedAway>>
    BY <1>12 DEF Stat
  <2>2. LinesIn(Unread') = LinesIn(Unread)
    BY <1>2, <1>12, StatFacts
  <2> QED BY <1>4, <2>1, <2>2 DEF Somewhere
<1>13. CASE EndLine
  <2>1. /\ UNCHANGED <<exists, inode, truncated, db, yielded, batch, dropped, rotatedAway>>
        /\ exists
    <3>1. file # <<>>
      BY <1>13 DEF EndLine, LoggerInv, Ended
    <3> QED BY <1>13, <3>1 DEF EndLine, LoggerInv, generator, history
  <2>2. LinesIn(Unread) \subseteq LinesIn(Unread')
    <3>1. /\ file' \in Seq(Bytes) /\ Len(file') >= Len(file)
          /\ \A i \in 1 .. Len(file) : file'[i] = file[i]
      BY <1>13, EndFacts
    <3> QED BY <2>1, <3>1, UnreadGrows
  <2> QED BY <1>4, <2>1, <2>2 DEF Somewhere
<1>14. CASE BeginLine
  <2>1. /\ UNCHANGED <<exists, inode, truncated, db, yielded, batch, dropped, rotatedAway>>
        /\ exists
    BY <1>14 DEF BeginLine, generator, history
  <2>2. LinesIn(Unread) \subseteq LinesIn(Unread')
    <3>1. /\ file' \in Seq(Bytes) /\ Len(file') >= Len(file)
          /\ \A i \in 1 .. Len(file) : file'[i] = file[i]
      BY <1>14, BeginFacts
    <3> QED BY <2>1, <3>1, UnreadGrows
  <2> QED BY <1>4, <2>1, <2>2 DEF Somewhere
<1>15. CASE Read
  <2>1. UNCHANGED <<yielded, dropped, rotatedAway>> /\ pc = "read"
    BY <1>15 DEF Read
  <2>2. LinesIn(batch) = {}
    <3>1. batch = <<>>
      BY <2>1 DEF TypeOK
    <3> QED BY <3>1, EmptyFacts
  <2>3. LinesIn(Unread) \subseteq LinesIn(batch') \cup LinesIn(Unread')
    BY <1>15, ReadInPlace
  <2> QED BY <1>4, <2>1, <2>2, <2>3 DEF Somewhere
<1>16. CASE Yield
  <2>1. /\ UNCHANGED <<inode, file, truncated, db, dropped, rotatedAway>>
        /\ batch # <<>> /\ batch' = LaterLines
        /\ NextLine = <<>> => yielded' = yielded
        /\ NextLine # <<>> => yielded' = Append(yielded, NextLine)
    BY <1>16 DEF Yield, TypeOK, logFile
  <2>2. Unread' = Unread
    BY <2>1 DEF Unread
  <2>3. /\ NextLine \in Seq(Bytes)
        /\ LinesIn(batch) = LinesIn(NextLine) \cup LinesIn(LaterLines)
    BY <2>1, NextLineFacts
  <2>4. LinesYielded' = LinesYielded \cup LinesIn(NextLine)
    <3>1. CASE NextLine = <<>>
      <4>1. LinesIn(NextLine) = {}
        BY <3>1, EmptyFacts
      <4> QED BY <1>4, <2>1, <3>1, <4>1
    <3>2. CASE NextLine # <<>>
      BY <1>2, <2>1, <2>3, <3>2, YieldedFacts
    <3> QED BY <3>1, <3>2
  <2> QED BY <2>1, <2>2, <2>3, <2>4 DEF Somewhere
<1> QED BY <1>6, <1>7, <1>8, <1>9, <1>10, <1>11, <1>12, <1>13, <1>14, <1>15, <1>16
        DEF Next, Reader

LEMMA LossStep ==
  ASSUME IInv, [Next]_vars
  PROVE  InPlaceLosses'
<1>1. SUFFICES ASSUME slips' = {}, started' # -1,
                      NEW k \in started' + 1 .. lines'
               PROVE  k \in Somewhere'
  BY DEF InPlaceLosses, Accounted, Somewhere
<1>2. slips = {}
  BY <1>1, SlipsGrow
<1>3. TypeOK /\ LoggerInv /\ ReaderInv /\ PlaceInv
  BY <1>2 DEF IInv
<1>4. started # -1 => \A m \in started + 1 .. lines : m \in Somewhere
  BY <1>2 DEF IInv, InPlaceLosses, Accounted, Somewhere
<1>5. started # -1 => Somewhere \subseteq Somewhere'
  BY <1>1, <1>3, NothingVanishes
<1>6. started \in Int /\ lines \in Nat
  BY <1>3, TailAssumption DEF TypeOK
<1>7. CASE UNCHANGED <<started, lines>>
  BY <1>1, <1>4, <1>5, <1>7
<1>8. CASE UNCHANGED vars
  BY <1>7, <1>8 DEF vars, writer, history
<1>9. CASE EndLine \/ DayPasses \/ RotateByRename \/ RotateByTruncation \/ Create
           \/ Read \/ OpenFails \/ Yield \/ Retry
  BY <1>7, <1>9 DEF EndLine, DayPasses, RotateByRename, RotateByTruncation, Rotate,
                    Create, Read, OpenFails, Yield, Retry, writer, history
<1>10. CASE YieldFails \/ LineRaises \/ Crash \/ CrashBetweenCommits
  <2>1. Abandon
    BY <1>10 DEF YieldFails, LineRaises, Crash, CrashBetweenCommits, Fault
  <2>2. UNCHANGED started
    BY <1>1, <1>10 DEF YieldFails, LineRaises, Crash, CrashBetweenCommits
  <2> QED BY <1>3, <1>7, <2>1, <2>2, AbandonFacts
<1>11. CASE Stat
  <2>1. lines' = lines /\ (started' = started \/ started' = lines)
    BY <1>11 DEF Stat, writer
  <2>2. CASE started' = lines
    BY <1>1, <1>6, <2>1, <2>2
  <2> QED BY <1>7, <2>1, <2>2
<1>12. CASE BeginLine
  <2>1. /\ started' = started /\ lines' = lines + 1
        /\ UNCHANGED <<exists, inode, truncated, db>> /\ exists
    BY <1>12 DEF BeginLine, generator, history
  <2>2. CASE k \in started + 1 .. lines
    BY <1>1, <1>4, <1>5, <2>1, <2>2
  <2>3. CASE k = lines'
    <3>1. /\ file' \in Seq(Bytes) /\ Len(file') >= Len(file) /\ Len(file') \in Nat
          /\ \A i \in 1 .. Len(file) : file'[i] = file[i]
          /\ LinesIn(file') = LinesIn(file) \cup {lines'}
          /\ lines' \in 1 .. MaxLines
      BY <1>3, <1>12, BeginFacts
    <3>2. k \in LinesIn(file') /\ k \notin LinesIn(file) /\ k # Newline
      <4>1. k \in Nat /\ k > lines
        BY <1>6, <2>1, <2>3
      <4>2. LinesIn(file) \subseteq 1 .. lines
        BY <1>3 DEF LoggerInv
      <4>3. k \notin 1 .. lines /\ k # Newline
        BY <1>6, <4>1 DEF Newline
      <4> QED BY <2>3, <3>1, <4>2, <4>3
    <3>3. PICK i \in 1 .. Len(file') : file'[i] = k
      BY <3>1, <3>2, BytesFacts
    <3>4. file \in Seq(Bytes)
      BY <1>3 DEF TypeOK
    <3>5. i \in Len(file) + 1 .. Len(file')
      <4>1. Len(file) \in Nat
        BY <3>4, BytesFacts
      <4>2. ~(i \in 1 .. Len(file))
        BY <3>1, <3>2, <3>3, <3>4, BytesFacts
      <4> QED BY <3>1, <4>1, <4>2
    <3>6. file'[i] \in LinesIn(Unread')
      BY <1>3, <2>1, <3>1, <3>2, <3>3, <3>5, UnreadGrows
    <3> QED BY <3>3, <3>6 DEF Somewhere, LinesIn
  <2> QED BY <1>1, <1>6, <2>1, <2>2, <2>3
<1> QED BY <1>8, <1>9, <1>10, <1>11, <1>12 DEF Next, Reader

-----------------------------------------------------------------------------
(* Theorems.                                                               *)

LEMMA Start == Init => IInv
<1> SUFFICES ASSUME Init
             PROVE  IInv
  OBVIOUS
<1>1. /\ exists = TRUE /\ inode = 1 /\ file = <<>> /\ lines = 0 /\ halfWritten = FALSE
      /\ today = [year |-> 0, day |-> FirstDay] /\ written = <<>>
      /\ db = [inode |-> NoInode, offset |-> 0] /\ pc = "poll" /\ buffer = <<>>
      /\ batch = <<>> /\ now_year = 0 /\ yielded = <<>> /\ started = -1
      /\ dropped = {} /\ rotatedAway = {} /\ truncated = FALSE /\ slips = {}
      /\ misdated = {} /\ rotations = 0 /\ faults = 0
  BY DEF Init
<1>2. /\ <<>> \in Seq(Bytes) /\ LinesIn(<<>>) = {} /\ Len(<<>>) = 0
      /\ Whole(<<>>) /\ Ordered(<<>>) /\ Ended(<<>>)
  BY EmptyFacts
<1>3. /\ MaxLines \in Nat /\ MaxRotations \in Nat /\ MaxFaults \in Nat
      /\ FirstDay \in 1 .. YearLength
  BY TailAssumption
<1>4. TypeOK
  <2>1. today \in Dates
    BY <1>1, <1>3 DEF Dates
  <2>2. /\ written \in Seq(Dates) /\ yielded \in Seq(Seq(Bytes))
        /\ file \in Seq(Bytes) /\ buffer \in Seq(Bytes) /\ batch \in Seq(Bytes)
    BY <1>1
  <2>3. /\ inode \in 1 .. MaxRotations + 1 /\ lines \in 0 .. MaxLines
        /\ started \in -1 .. MaxLines
        /\ rotations \in 0 .. MaxRotations /\ faults \in 0 .. MaxFaults
    BY <1>1, <1>3
  <2>4. /\ exists \in BOOLEAN /\ halfWritten \in BOOLEAN /\ truncated \in BOOLEAN
        /\ pc \in {"poll", "read", "batch", "backoff"}
        /\ dropped \subseteq 1 .. MaxLines /\ rotatedAway \subseteq 1 .. MaxLines
        /\ slips \subseteq {"partial", "truncation", "race", "commit"}
        /\ now_year \in Int /\ misdated \subseteq 1 .. MaxLines
    <3>1. exists \in BOOLEAN /\ halfWritten \in BOOLEAN /\ truncated \in BOOLEAN
      BY <1>1
    <3>2. pc \in {"poll", "read", "batch", "backoff"}
      BY <1>1
    <3>3. now_year \in Int
      BY <1>1
    <3> QED BY <1>1, <3>1, <3>2, <3>3
  <2>5. db \in [inode : Nat, offset : Nat]
    BY <1>1 DEF NoInode
  <2>6. pc = "batch" <=> batch # <<>>
    BY <1>1
  <2> QED BY <2>1, <2>2, <2>3, <2>4, <2>5, <2>6 DEF TypeOK
<1>5. LoggerInv
  BY <1>1, <1>2 DEF LoggerInv
<1>6. LinesYielded = {} /\ FirstBytes = {} /\ LinesIntact /\ NoReplay
  BY <1>1 DEF LinesYielded, FirstBytes, LinesIntact, NoReplay
<1>7. ReaderInv
  BY <1>1, <1>2, <1>6 DEF ReaderInv, NoInode
<1>8. DateInv
  BY <1>1, <1>2 DEF DateInv, DatedRight
<1>9. PlaceInv
  BY <1>1, <1>2, <1>6 DEF PlaceInv, Before, NoInode
<1>10. InPlaceLosses
  BY <1>1 DEF InPlaceLosses
<1> QED BY <1>4, <1>5, <1>7, <1>8, <1>9, <1>10 DEF IInv

THEOREM Inductive == Spec => []IInv
<1>1. IInv /\ [Next]_vars => IInv'
  <2> SUFFICES ASSUME IInv, [Next]_vars
               PROVE  IInv'
    OBVIOUS
  <2>1. TypeOK /\ LoggerInv /\ ReaderInv /\ DateInv
    BY DEF IInv
  <2>2. TypeOK' /\ LoggerInv' /\ ReaderInv' /\ DateInv'
    BY <2>1, TypeStep, LoggerStep, ReaderStep, DateStep
  <2>3. slips' = {} => PlaceInv'
    BY PlaceStep
  <2>4. InPlaceLosses'
    BY LossStep
  <2> QED BY <2>2, <2>3, <2>4 DEF IInv
<1> QED BY <1>1, Start, PTL DEF Spec

(* The values of the state are of their types, whatever is rotated, lost   *)
(* or raised under _tail_auth_log.                                         *)
THEOREM TypeCorrect == Spec => []TypeOK
<1>1. IInv => TypeOK
  BY DEF IInv
<1> QED BY <1>1, Inductive, PTL

(* A reader that has not lost its place yields lines as they were written, *)
(* each once and in order: _tail_auth_log keeps its offset at the end of a *)
(* line, and between polls, rotations, restarts and retries reads on from  *)
(* there or from the start of a new file.                                  *)
THEOREM ReadsInPlace == Spec => []InPlaceReading
<1>1. IInv => InPlaceReading
  BY DEF IInv, PlaceInv, InPlaceReading
<1> QED BY <1>1, Inductive, PTL

(* In place, a line written since the first poll is yielded, waits to be   *)
(* read or to be yielded, was taken from a batch by a fault (the offset is *)
(* saved before the lines are yielded) or was rotated away unread.         *)
THEOREM LosesNothingInPlace == Spec => []InPlaceLosses
<1>1. IInv => InPlaceLosses
  BY DEF IInv
<1> QED BY <1>1, Inductive, PTL

(* Every line read in good time gets the year it was written in from       *)
(* parse_syslog_line, in any calendar and over any New Year.               *)
THEOREM DatesAreRight == Spec => []DatedRight
<1>1. IInv => DatedRight
  BY DEF IInv, DateInv
<1> QED BY <1>1, Inductive, PTL

=============================================================================
