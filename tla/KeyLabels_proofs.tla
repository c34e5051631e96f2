--------------------------- MODULE KeyLabels_proofs ---------------------------
(***************************************************************************)
(* Proofs about KeyLabels for any keys, comments, places and slack, and    *)
(* any number of edits and logins: type correctness, the cache, what is    *)
(* given out, and the two places the panel shows it.                       *)
(*                                                                         *)
(* CacheCurrent alone does not survive an edit: the invariant adds that    *)
(* the cache's mtime is one the file has had (FileInv).  LastUsedRight     *)
(* needs that the labels of rows and the listed comments of keys whose     *)
(* comment is their own have kept up (OwnInv).                             *)
(***************************************************************************)
EXTENDS KeyLabels, WellFoundedInduction, TLAPS

FileInv ==
    /\ {file.mtime, cache.mtime, seen} \subseteq mtimes \cup {Missing}
    /\ file.mtime = Missing => file.lines = Empty
    /\ cache.mtime = Missing => cache.lines = Empty

OwnInv ==
    /\ own \subseteq Own(file.lines)
    /\ ~disguised =>
        \A k \in own :
            /\ listed[k] \in {file.lines[k], NotListed}
            /\ \A r \in rows :
                  r.key = k <=> r.label = <<"comment", file.lines[k]>>

SessionInv == \A s \in sessions : s.ts <= s.start + Slack

IInv == TypeOK /\ FileInv /\ CacheCurrent /\ OwnInv /\ SessionInv

-----------------------------------------------------------------------------
(* The file's lines when there is no file, or none has been read. *)
LEMMA EmptyType == Empty \in Contents
  BY DEF Empty, Contents

(* The inductive invariant holds initially. *)
LEMMA InitInv == Init => IInv
<1> SUFFICES ASSUME Init PROVE IInv
  OBVIOUS
<1> USE LabelAssumption DEF Init
<1>1. file \in [mtime : {0}, lines : Contents]
  OBVIOUS
<1>2. TypeOK
  <2>1. file \in Stored /\ cache \in Stored
    BY <1>1, EmptyType DEF Stored, Time
  <2>2. now \in Time /\ logged \in Seq(LoginType) /\ mtimes \subseteq Time
    BY DEF Time
  <2>3. own \subseteq Keys
    BY DEF Own
  <2>4. /\ doing = "none" /\ seen = -1 /\ disguised = FALSE
        /\ rows = {} /\ sessions = {} /\ listed \in Contents
        /\ edits \in 0 .. MaxEdits /\ logins \in 0 .. MaxLogins
    BY EmptyType DEF Missing
  <2> HIDE DEF Init
  <2> QED BY <2>1, <2>2, <2>3, <2>4 DEF TypeOK, Missing
<1>3. FileInv /\ CacheCurrent
  BY <1>1 DEF FileInv, CacheCurrent, Missing
<1>4. OwnInv /\ SessionInv
  BY DEF OwnInv, SessionInv, Empty, Own
<1> QED BY <1>2, <1>3, <1>4 DEF IInv

-----------------------------------------------------------------------------
(* A login's label has the type of labels. *)
LEMMA LabelType ==
  ASSUME NEW lines \in Contents, NEW key \in Keys
  PROVE  Label(lines, key) \in Labels
  BY LabelAssumption DEF Contents, Label, Labels

(* A label is a comment's iff it is of a key whose line has that comment.  *)
LEMMA LabelOwn ==
  ASSUME NEW lines \in Contents, NEW k \in Own(lines), NEW j \in Keys
  PROVE  j = k <=> Label(lines, j) = <<"comment", lines[k]>>
<1>1. /\ k \in Keys /\ lines[k] \in Comments
      /\ \A other \in Keys \ {k} : lines[other] # lines[k]
      /\ lines[j] \in Comments \cup {NoComment, NotListed}
  BY DEF Own, Contents
<1>2. CASE lines[j] \in Comments
  <2>1. Label(lines, j) = <<"comment", lines[j]>>
    BY <1>2, LabelAssumption DEF Label
  <2> QED BY <1>1, <2>1
<1>3. CASE lines[j] \in {NoComment, NotListed}
  <2>1. Label(lines, j)[1] \in {"unlabeled", "unknown"}
    BY <1>3, LabelAssumption DEF Label
  <2>2. j # k
    BY <1>1, <1>3, LabelAssumption
  <2>3. <<"comment", lines[k]>>[1] = "comment"
    OBVIOUS
  <2> QED BY <2>1, <2>2, <2>3
<1> QED BY <1>1, <1>2, <1>3

(* What is given out: one login's row, or the answer of get_keys.          *)
LEMMA DeliverFacts ==
  ASSUME IInv, NEW what \in Uses, NEW lines \in Contents, Deliver(what, lines),
         what = "label" => logged # <<>>
  PROVE  /\ logged' \in Seq(LoginType)
         /\ rows' \subseteq [key : Keys, place : Places, ts : Time, label : Labels]
         /\ listed' \in Contents
         /\ \A r \in rows' \ rows : r.label = Label(lines, r.key)
         /\ listed' = lines \/ listed' = listed
<1>1. CASE what = "label"
  <2> DEFINE login == Head(logged)
             row == [key |-> login.key, place |-> login.place,
                     ts |-> login.ts, label |-> Label(lines, login.key)]
  <2>1. /\ logged \in Seq(LoginType) /\ logged # <<>>
        /\ login \in LoginType /\ Tail(logged) \in Seq(LoginType)
    BY <1>1 DEF IInv, TypeOK
  <2>2. rows' = rows \cup {row} /\ logged' = Tail(logged) /\ listed' = listed
    BY <1>1 DEF Deliver
  <2>3. login.key \in Keys /\ login.place \in Places /\ login.ts \in Time
    BY <2>1 DEF LoginType
  <2>4. /\ row \in [key : Keys, place : Places, ts : Time, label : Labels]
        /\ row.label = Label(lines, row.key)
    BY <2>3, LabelType
  <2> HIDE DEF row, login
  <2> QED BY <2>1, <2>2, <2>4 DEF IInv, TypeOK
<1>2. CASE what = "get_keys"
  BY <1>2 DEF Deliver, IInv, TypeOK
<1> QED BY <1>1, <1>2 DEF Uses

(* Giving out by the file's lines keeps the labels of own comments right.  *)
LEMMA DeliverOwn ==
  ASSUME IInv, NEW what \in Uses, NEW lines \in Contents, Deliver(what, lines),
         what = "label" => logged # <<>>,
         ~disguised => lines = file.lines,
         UNCHANGED <<file, own, disguised>>
  PROVE  OwnInv'
<1>1. own' \subseteq Own(file'.lines)
  BY DEF IInv, OwnInv
<1>2. ASSUME ~disguised, NEW k \in own
      PROVE  /\ listed'[k] \in {file.lines[k], NotListed}
             /\ \A r \in rows' : r.key = k <=> r.label = <<"comment", file.lines[k]>>
  <2>1. /\ \A r \in rows' \ rows : r.label = Label(file.lines, r.key)
        /\ listed' = file.lines \/ listed' = listed
        /\ \A r \in rows' : r.key \in Keys
    BY <1>2, DeliverFacts
  <2>2. k \in Own(file.lines) /\ file.lines \in Contents
    BY DEF IInv, OwnInv, TypeOK, Stored
  <2>3. \A r \in rows' \ rows : r.key = k <=> r.label = <<"comment", file.lines[k]>>
    <3> SUFFICES ASSUME NEW r \in rows' \ rows
                 PROVE  r.key = k <=> r.label = <<"comment", file.lines[k]>>
      OBVIOUS
    <3>1. r.key \in Keys /\ r.label = Label(file.lines, r.key)
      BY <2>1
    <3> QED BY <2>2, <3>1, LabelOwn
  <2>4. /\ listed[k] \in {file.lines[k], NotListed}
        /\ \A r \in rows : r.key = k <=> r.label = <<"comment", file.lines[k]>>
    BY <1>2 DEF IInv, OwnInv
  <2> QED BY <2>1, <2>3, <2>4
<1> QED BY <1>1, <1>2 DEF OwnInv

-----------------------------------------------------------------------------
(* Every step keeps the invariant. *)
LEMMA NextInv == IInv /\ [Next]_vars => IInv'
<1> SUFFICES ASSUME IInv, [Next]_vars PROVE IInv'
  OBVIOUS
<1> USE LabelAssumption DEF Missing
<1>T. TypeOK /\ FileInv /\ CacheCurrent /\ OwnInv /\ SessionInv
  BY DEF IInv
<1>F. /\ file \in Stored /\ cache \in Stored /\ seen \in Time \cup {-1}
      /\ file.lines \in Contents /\ cache.lines \in Contents
      /\ file.mtime \in Time \cup {-1} /\ mtimes \subseteq Time
  BY <1>T DEF TypeOK, Stored
<1>1. ASSUME NEW lines \in Contents, NEW mtime \in 0 .. now, Edit(lines, mtime)
      PROVE  IInv'
  <2>1. /\ file' = [mtime |-> mtime, lines |-> lines]
        /\ file'.mtime = mtime /\ file'.lines = lines
        /\ own' = {k \in own \cap Own(lines) : lines[k] = file.lines[k]}
        /\ mtimes' = mtimes \cup {mtime}
        /\ disguised' = (disguised \/ mtime \in mtimes)
        /\ edits' \in 0 .. MaxEdits /\ mtime \in Time
        /\ UNCHANGED <<now, store, logged, rows, sessions, listed, logins>>
    BY <1>1, <1>T DEF Edit, TypeOK, Time
  <2>2. TypeOK'
    BY <1>T, <1>F, <2>1 DEF TypeOK, Stored, store
  <2>3. FileInv'
    BY <1>T, <1>F, <2>1 DEF FileInv, Time, store
  <2>4. CacheCurrent'
    <3> SUFFICES ASSUME ~disguised' PROVE cache'.mtime # file'.mtime
      BY DEF CacheCurrent
    <3>1. mtime \notin mtimes
      BY <2>1
    <3>2. mtime # -1
      BY <2>1 DEF Time
    <3>3. cache' = cache
      BY <2>1 DEF store
    <3> QED BY <1>T, <2>1, <3>1, <3>2, <3>3 DEF FileInv
  <2>5. OwnInv'
    <3>1. own' \subseteq Own(lines)
      BY <2>1
    <3>2. ~disguised' => ~disguised
      BY <2>1
    <3>3. \A k \in own' : k \in own /\ file'.lines[k] = file.lines[k]
      BY <2>1
    <3> QED BY <1>T, <2>1, <3>1, <3>2, <3>3 DEF OwnInv
  <2>6. SessionInv'
    BY <1>T, <2>1 DEF SessionInv
  <2> QED BY <2>2, <2>3, <2>4, <2>5, <2>6 DEF IInv
<1>2. CASE Delete
  <2>1. /\ file' = [mtime |-> -1, lines |-> Empty]
        /\ file'.mtime = -1 /\ file'.lines = Empty
        /\ own' = {} /\ edits' \in 0 .. MaxEdits
        /\ UNCHANGED <<now, store, logged, rows, sessions, listed, logins,
                       mtimes, disguised>>
    BY <1>2, <1>T DEF Delete, TypeOK
  <2>2. TypeOK'
    BY <1>T, <1>F, <2>1, EmptyType DEF TypeOK, Stored, store
  <2>3. FileInv' /\ CacheCurrent'
    BY <1>T, <2>1 DEF FileInv, CacheCurrent, store
  <2>4. OwnInv' /\ SessionInv'
    BY <1>T, <2>1 DEF OwnInv, SessionInv
  <2> QED BY <2>2, <2>3, <2>4 DEF IInv
<1>3. ASSUME NEW k \in Keys, NEW p \in Places, NEW skew \in 0 .. Slack,
             skew <= now, Login(k, p, skew)
      PROVE  IInv'
  <2> DEFINE login == [key |-> k, place |-> p, ts |-> now]
             session == [place |-> p, start |-> now - skew, key |-> k, ts |-> now]
  <2>1. /\ login \in LoginType
        /\ session \in [place : Places, start : Time, key : Keys, ts : Time]
        /\ session.ts <= session.start + Slack
    BY <1>3, <1>T DEF LoginType, Time, TypeOK
  <2>2. /\ logged' = Append(logged, login) /\ sessions' = sessions \cup {session}
        /\ logins' \in 0 .. MaxLogins
        /\ UNCHANGED <<now, file, store, rows, listed, edits, history>>
    BY <1>3, <1>T DEF Login, TypeOK
  <2> HIDE DEF login, session
  <2>3. logged' \in Seq(LoginType) /\ logged' # <<>>
    BY <1>T, <2>1, <2>2 DEF TypeOK
  <2>4. TypeOK'
    BY <1>T, <2>1, <2>2, <2>3 DEF TypeOK, store, history
  <2>5. FileInv' /\ CacheCurrent' /\ OwnInv' /\ SessionInv'
    BY <1>T, <2>1, <2>2
    DEF FileInv, CacheCurrent, OwnInv, SessionInv, store, history
  <2> QED BY <2>4, <2>5 DEF IInv
<1>4. CASE Tick \/ UNCHANGED vars
  <2>1. /\ now' \in Time
        /\ UNCHANGED <<file, store, logged, rows, sessions, listed, counters, history>>
    BY <1>4, <1>T DEF Tick, vars, TypeOK, Time
  <2>2. TypeOK'
    BY <1>T, <2>1 DEF TypeOK, store, counters, history
  <2>3. FileInv' /\ CacheCurrent' /\ OwnInv' /\ SessionInv'
    BY <1>T, <2>1 DEF FileInv, CacheCurrent, OwnInv, SessionInv, store, history
  <2> QED BY <2>2, <2>3 DEF IInv
<1>5. ASSUME NEW what \in Uses, FindsNoFile(what) PROVE IInv'
  <2>1. /\ file.mtime = -1 /\ cache' = [mtime |-> -1, lines |-> Empty]
        /\ cache'.mtime = -1 /\ cache'.lines = Empty
        /\ Deliver(what, Empty) /\ doing = "none"
        /\ what = "label" => logged # <<>>
        /\ UNCHANGED <<now, file, doing, seen, sessions, counters, history>>
    BY <1>5 DEF FindsNoFile, Wanted
  <2>2. file.lines = Empty
    BY <1>T, <2>1 DEF FileInv
  <2>3. TypeOK'
    BY <1>T, <2>1, EmptyType, DeliverFacts DEF TypeOK, Stored, counters, history, Uses
  <2>4. FileInv' /\ CacheCurrent' /\ SessionInv'
    BY <1>T, <2>1, <2>2 DEF FileInv, CacheCurrent, SessionInv, history
  <2>5. OwnInv'
    BY <2>1, <2>2, EmptyType, DeliverOwn DEF history
  <2> QED BY <2>3, <2>4, <2>5 DEF IInv
<1>6. ASSUME NEW what \in Uses, FindsCached(what) PROVE IInv'
  <2>1. /\ file.mtime = cache.mtime /\ Deliver(what, cache.lines) /\ doing = "none"
        /\ what = "label" => logged # <<>>
        /\ UNCHANGED <<now, file, store, sessions, counters, history>>
    BY <1>6 DEF FindsCached, Wanted, NeedsReload
  <2>2. ~disguised => cache.lines = file.lines
    BY <1>T, <2>1 DEF CacheCurrent
  <2>3. TypeOK'
    BY <1>T, <1>F, <2>1, DeliverFacts DEF TypeOK, store, counters, history, Uses
  <2>4. FileInv' /\ CacheCurrent' /\ SessionInv'
    BY <1>T, <2>1 DEF FileInv, CacheCurrent, SessionInv, store, history
  <2>5. OwnInv'
    BY <1>F, <2>1, <2>2, DeliverOwn DEF history
  <2> QED BY <2>3, <2>4, <2>5 DEF IInv
<1>7. ASSUME NEW what \in Uses, FindsChanged(what) PROVE IInv'
  <2>1. /\ doing' = what /\ seen' = file.mtime /\ file.mtime # -1
        /\ what = "label" => logged # <<>>
        /\ UNCHANGED <<now, file, cache, logged, rows, sessions, listed, counters, history>>
    BY <1>7 DEF FindsChanged, Wanted
  <2>2. TypeOK'
    BY <1>T, <1>F, <2>1 DEF TypeOK, counters, history, Uses
  <2>3. FileInv' /\ CacheCurrent' /\ OwnInv' /\ SessionInv'
    BY <1>T, <2>1 DEF FileInv, CacheCurrent, OwnInv, SessionInv, history
  <2> QED BY <2>2, <2>3 DEF IInv
<1>8. CASE Reload
  <2>1. /\ doing \in Uses /\ seen # -1
        /\ doing = "label" => logged # <<>>
        /\ cache' = [mtime |-> seen, lines |-> file.lines]
        /\ cache'.mtime = seen /\ cache'.lines = file.lines
        /\ Deliver(doing, file.lines) /\ doing' = "none" /\ seen' = -1
        /\ UNCHANGED <<now, file, sessions, counters, history>>
    BY <1>8, <1>T DEF Reload, Reloaded, TypeOK
  <2>2. TypeOK'
    BY <1>T, <1>F, <2>1, DeliverFacts DEF TypeOK, Stored, counters, history, Uses
  <2>3. FileInv' /\ CacheCurrent' /\ SessionInv'
    BY <1>T, <2>1 DEF FileInv, CacheCurrent, SessionInv, history
  <2>4. OwnInv'
    BY <1>F, <2>1, DeliverOwn DEF history
  <2> QED BY <2>2, <2>3, <2>4 DEF IInv
<1>9. CASE ReloadFails
  <2>1. /\ doing \in Uses
        /\ doing = "label" => logged # <<>>
        /\ doing' = "none" /\ seen' = -1
        /\ logged' = IF doing = "label" THEN Tail(logged) ELSE logged
        /\ UNCHANGED <<now, file, cache, rows, sessions, listed, counters, history>>
    BY <1>9, <1>T DEF ReloadFails, TypeOK
  <2>2. logged' \in Seq(LoginType)
    BY <1>T, <2>1 DEF TypeOK
  <2>3. TypeOK'
    BY <1>T, <2>1, <2>2 DEF TypeOK, counters, history, Uses
  <2>4. FileInv' /\ CacheCurrent' /\ OwnInv' /\ SessionInv'
    BY <1>T, <2>1 DEF FileInv, CacheCurrent, OwnInv, SessionInv, history
  <2> QED BY <2>3, <2>4 DEF IInv
<1> QED
  BY <1>1, <1>2, <1>3, <1>4, <1>5, <1>6, <1>7, <1>8, <1>9 DEF Next

(* IInv is an invariant. *)
LEMMA Inductive == Spec => []IInv
<1>1. Init => IInv
  BY InitInv
<1>2. IInv /\ [Next]_vars => IInv'
  BY NextInv
<1> QED BY <1>1, <1>2, PTL DEF Spec

(* Every variable keeps its type.                                          *)
THEOREM TypeCorrect == Spec => []TypeOK
<1>1. IInv => TypeOK
  BY DEF IInv
<1> QED BY <1>1, Inductive, PTL

(* A cache that will be used as it is holds the file's lines.              *)
THEOREM CacheIsCurrent == Spec => []CacheCurrent
<1>1. IInv => CacheCurrent
  BY DEF IInv
<1> QED BY <1>1, Inductive, PTL

(* What is given out is by the lines the file has at that moment.          *)
THEOREM OnlyCurrentIsGivenOut == Spec => GivenOutCurrent
<1> DEFINE Given == ~disguised =>
                      /\ \A r \in rows' \ rows : r.label = Label(file.lines, r.key)
                      /\ listed' # listed => listed' = file.lines
<1>1. ASSUME IInv, [Next]_vars PROVE [Given]_vars
  <2> SUFFICES ASSUME Next, ~disguised
               PROVE  /\ \A r \in rows' \ rows : r.label = Label(file.lines, r.key)
                      /\ listed' # listed => listed' = file.lines
    BY <1>1
  <2>1. file.lines \in Contents
    BY <1>1 DEF IInv, TypeOK, Stored
  <2>2. ASSUME NEW what \in Uses, what = "label" => logged # <<>>,
               Deliver(what, file.lines)
        PROVE  /\ \A r \in rows' \ rows : r.label = Label(file.lines, r.key)
               /\ listed' # listed => listed' = file.lines
    BY <1>1, <2>1, <2>2, DeliverFacts
  <2>3. ASSUME NEW what \in Uses, FindsNoFile(what)
        PROVE  Deliver(what, file.lines) /\ (what = "label" => logged # <<>>)
    BY <1>1, <2>3 DEF FindsNoFile, Wanted, IInv, FileInv
  <2>4. ASSUME NEW what \in Uses, FindsCached(what)
        PROVE  Deliver(what, file.lines) /\ (what = "label" => logged # <<>>)
    BY <1>1, <2>4 DEF FindsCached, Wanted, NeedsReload, IInv, CacheCurrent
  <2>5. CASE Reload
    <3>1. Deliver(doing, file.lines) /\ doing \in Uses /\ (doing = "label" => logged # <<>>)
      BY <1>1, <2>5 DEF Reload, Reloaded, IInv, TypeOK
    <3> QED BY <2>2, <3>1
  <2>6. CASE rows' = rows /\ listed' = listed
    BY <2>6
  <2> QED BY <2>2, <2>3, <2>4, <2>5, <2>6
          DEF Next, Edit, Delete, Login, Tick, FindsChanged, ReloadFails
<1> QED BY <1>1, Inductive, PTL DEF Spec, GivenOutCurrent

(* The panel shows of a listed key the time of its last login, if its      *)
(* comment has always been its own.                                        *)
THEOREM LastUsedIsRight == Spec => []LastUsedRight
<1>1. ASSUME IInv PROVE LastUsedRight
  <2> SUFFICES ASSUME NEW k \in own, ~disguised, listed[k] # NotListed
               PROVE  LastUsed(k) = {r.ts : r \in
                         {q \in rows : /\ q.key = k
                                       /\ \A o \in rows : o.key = k => o.ts <= q.ts}}
    BY DEF LastUsedRight
  <2>1. /\ listed[k] = file.lines[k] /\ file.lines[k] \in Comments
        /\ \A r \in rows : r.key = k <=> r.label = <<"comment", file.lines[k]>>
    BY <1>1 DEF IInv, OwnInv, Own
  <2>2. DisplayLabel(k) = <<"comment", file.lines[k]>>
    BY <2>1 DEF DisplayLabel
  <2>3. \A q \in rows : q.label = DisplayLabel(k) <=> q.key = k
    BY <2>1, <2>2
  <2>4. Newest({q \in rows : q.label = DisplayLabel(k)})
          = {q \in rows : /\ q.key = k
                          /\ \A o \in rows : o.key = k => o.ts <= q.ts}
    BY <2>3 DEF Newest
  <2> QED BY <2>4 DEF LastUsed
<1> QED BY <1>1, Inductive, PTL

(* Of rows there are always some that none is newer than.                  *)
LEMMA NewestExists ==
  ASSUME NEW R, R # {}, \A r \in R : r.ts \in 0 .. MaxNow
  PROVE  Newest(R) # {}
<1> DEFINE less == {ss \in Nat \X Nat : ss[1] < ss[2]}
           left == {MaxNow - r.ts : r \in R}
<1>1. IsWellFoundedOn(less, Nat)
  BY NatLessThanWellFounded DEF OpToRel
<1>2. left \subseteq Nat /\ left # {}
  BY LabelAssumption
<1>3. PICK x \in left : \A y \in left : ~ (<<y, x>> \in less)
  <2> HIDE DEF less, left
  <2> QED BY <1>1, <1>2, WFMin
<1>4. \A y \in left : x <= y
  <2> SUFFICES ASSUME NEW y \in left PROVE x <= y
    OBVIOUS
  <2>1. x \in Nat /\ y \in Nat
    BY <1>2
  <2>2. <<y, x>> \notin less
    BY <1>3
  <2>3. /\ <<y, x>> \in Nat \X Nat
        /\ <<y, x>>[1] = y /\ <<y, x>>[2] = x
    BY <2>1
  <2>4. ~(y < x)
    BY <2>2, <2>3
  <2> QED BY <2>1, <2>4
<1>5. PICK q \in R : x = MaxNow - q.ts
  OBVIOUS
<1>6. ASSUME NEW r \in R PROVE r.ts <= q.ts
  <2>1. MaxNow - r.ts \in left
    OBVIOUS
  <2>2. x <= MaxNow - r.ts
    BY <1>4, <2>1
  <2> QED BY <1>5, <2>2, LabelAssumption
<1> QED BY <1>6 DEF Newest

(* An open session is shown with the key it was opened with, or with that  *)
(* of a later login of its user from its address within the slack.         *)
THEOREM SessionsShowTheirKeys == Spec => []SessionShowsItsKey
<1>1. ASSUME IInv PROVE SessionShowsItsKey
  <2> SUFFICES ASSUME NEW s \in sessions, NEW mine \in rows,
                      mine.key = s.key, mine.place = s.place, mine.ts = s.ts
               PROVE  /\ SessionsShown[s] # {}
                      /\ \A r \in SessionsShown[s] :
                            r.key = s.key \/ r.ts \in s.ts .. s.start + Slack
    BY DEF SessionShowsItsKey
  <2> DEFINE R == {r \in rows : r.place = s.place /\ r.ts <= s.start + Slack}
  <2>1. SessionsShown[s] = Newest(R)
    BY DEF SessionsShown, LatestAccepted
  <2>2. /\ \A r \in rows : r.ts \in 0 .. MaxNow
        /\ s.ts \in Nat /\ s.start \in Nat /\ s.ts <= s.start + Slack
    BY <1>1, LabelAssumption DEF IInv, TypeOK, SessionInv, Time
  <2>3. mine \in R
    BY <2>2
  <2>4. Newest(R) # {}
    <3>1. R # {} /\ \A r \in R : r.ts \in 0 .. MaxNow
      BY <2>2, <2>3
    <3> HIDE DEF R
    <3> QED BY <3>1, NewestExists
  <2>5. \A r \in Newest(R) : r.ts \in s.ts .. s.start + Slack
    BY <2>2, <2>3, LabelAssumption DEF Newest
  <2> QED BY <2>1, <2>4, <2>5
<1> QED BY <1>1, Inductive, PTL

=============================================================================
