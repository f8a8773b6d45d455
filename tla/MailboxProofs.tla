---------------------------- MODULE MailboxProofs ----------------------------
(***************************************************************************)
(* First the queue, for every set of handlers and messages and every       *)
(* arrival order: msgtmp keeps its type; as long as no push overlaps       *)
(* another push or a drain the hand-off is an exact FIFO queue; and while  *)
(* one handler alone feeds the node, nothing is taken twice or out of      *)
(* order, overlaps or not.  Then the mailbox, for every set of clients     *)
(* too: it takes its messages from msgtmp exactly as NodeQueue specifies,  *)
(* and a dump during which outbox did not move is a snapshot.  At the end, *)
(* what becomes of an answered message when nothing overlaps.              *)
(***************************************************************************)
EXTENDS Mailbox, SequenceTheorems, TLAPS

USE ArrivalsAssumption, GarbageAssumption

String == Msg \cup {Garbage}

LEMMA CellType ==
    ASSUME NEW v \in V!Vector(Msg), NEW i
    PROVE  V!Cell(v, i) \in String
BY ElementOfSeq DEF V!Vector, V!Cell, String

LEMMA BuildType ==
    ASSUME NEW v \in V!Vector(Msg), NEW k \in 1 .. Len(v.cells), NEW x \in String
    PROVE  /\ V!Build(v, k, x) \in V!Vector(Msg)
           /\ V!Build(v, k, x).fin = v.fin
           /\ V!Build(v, k, x).gen = v.gen
           /\ Len(V!Build(v, k, x).cells) = Len(v.cells)
           /\ V!Build(v, k, x).cells[k] = x
           /\ \A i \in 1 .. Len(v.cells) \ {k} : V!Build(v, k, x).cells[i] = v.cells[i]
<1>1. v.cells \in Seq(String)
  BY DEF V!Vector, String
<1>3. [v.cells EXCEPT ![k] = x] \in Seq(String)
  BY <1>1, ExceptSeq
<1>4. /\ Len([v.cells EXCEPT ![k] = x]) = Len(v.cells)
      /\ [v.cells EXCEPT ![k] = x][k] = x
      /\ \A i \in 1 .. Len(v.cells) \ {k} : [v.cells EXCEPT ![k] = x][i] = v.cells[i]
  BY <1>1, ExceptSeq
<1> QED
  BY <1>3, <1>4 DEF V!Build, V!Vector, String

LEMMA StoreFinishType ==
    ASSUME NEW v \in V!Vector(Msg), NEW n \in Nat
    PROVE  /\ V!StoreFinish(v, n) \in V!Vector(Msg)
           /\ V!StoreFinish(v, n) = [cells |-> v.cells, fin |-> n, gen |-> v.gen]
BY DEF V!StoreFinish, V!Vector

LEMMA GrowType ==
    ASSUME NEW v \in V!Vector(Msg), NEW k \in Nat, NEW x \in String
    PROVE  /\ V!Grow(v, k, x) \in V!Vector(Msg)
           /\ V!Grow(v, k, x).fin = k + 1
           /\ Len(V!Grow(v, k, x).cells) >= k + 1
           /\ \A i \in 1 .. k : V!Grow(v, k, x).cells[i] = V!Cell(v, i)
           /\ V!Grow(v, k, x).cells[k + 1] = x
<1> DEFINE N == IF k = 0 THEN 1 ELSE 2 * k
           c(i) == IF i <= k THEN V!Cell(v, i) ELSE IF i = k + 1 THEN x ELSE Garbage
<1>1. \A i \in 1 .. N : c(i) \in String
  BY CellType DEF String
<1>2. N \in Nat /\ N >= k + 1
  OBVIOUS
<1>3. V!Grow(v, k, x) = [cells |-> [i \in 1 .. N |-> c(i)], fin |-> k + 1, gen |-> v.gen + 1]
  BY DEF V!Grow
<1> HIDE DEF N, c
<1>4. [i \in 1 .. N |-> c(i)] \in Seq(String) /\ Len([i \in 1 .. N |-> c(i)]) = N
  <2> DEFINE s == [i \in 1 .. N |-> c(i)]
  <2>1. s \in [1 .. N -> String]
    BY <1>1
  <2> HIDE DEF s
  <2>2. s \in Seq(String) /\ Len(s) = N
    BY <2>1, <1>2
  <2> QED BY <2>2 DEF s
<1>5. \A i \in 1 .. k + 1 : V!Grow(v, k, x).cells[i] = c(i)
  BY <1>2, <1>3
<1>6. V!Grow(v, k, x) \in V!Vector(Msg)
  BY <1>3, <1>4 DEF V!Vector, String
<1> QED
  BY <1>2, <1>3, <1>4, <1>5, <1>6 DEF c

LEMMA ClearType ==
    ASSUME NEW v \in V!Vector(Msg)
    PROVE  /\ V!Clear(v) \in V!Vector(Msg)
           /\ V!Clear(v).fin = 0
           /\ V!Clear(v).gen = v.gen
           /\ Len(V!Clear(v).cells) = Len(v.cells)
<1>1. v.cells \in Seq(String) /\ DOMAIN v.cells = 1 .. Len(v.cells) /\ Len(v.cells) \in Nat
  BY LenProperties DEF V!Vector, String
<1>2. V!Destroyed(v) \in [1 .. Len(v.cells) -> String]
  BY <1>1, ElementOfSeq DEF String, V!Destroyed
<1>3. V!Destroyed(v) \in Seq(String) /\ Len(V!Destroyed(v)) = Len(v.cells)
  BY <1>1, <1>2
<1> QED
  BY <1>3 DEF V!Clear, V!Vector, String
-----------------------------------------------------------------------------
\* Every variable keeps its type: msgtmp stays a vector of strings and garbage,
\* whatever the pushes and drains do to each other.
LEMMA TypeSafe == Init /\ [][Next]_vars => []TypeOK
<1>1. Init => TypeOK
  <2> SUFFICES ASSUME Init PROVE TypeOK
    OBVIOUS
  <2>1. msgtmp \in V!Vector(Msg)
    BY DEF Init, V!NoStrings, V!Vector
  <2>2. todo \in [Handlers -> Seq(Msg)]
    BY DEF Init
  <2>3. taken \in Seq(Msg \cup {Garbage}) /\ pushed \in Seq(Msg)
    BY DEF Init
  <2>4. call \in [Handlers -> SUBSET Msg] /\ acked \in SUBSET Msg
    BY DEF Init
  <2> QED
    BY <2>1, <2>2, <2>3, <2>4 DEF Init, TypeOK
<1>2. TypeOK /\ [Next]_vars => TypeOK'
  <2> SUFFICES ASSUME TypeOK, [Next]_vars PROVE TypeOK'
    OBVIOUS
  <2> USE DEF TypeOK, loopVars, handlerVars
  <2>1. ASSUME NEW h \in Handlers, Read(h) PROVE TypeOK'
    <3>1. Head(todo[h]) \in Msg /\ Tail(todo[h]) \in Seq(Msg)
      BY <2>1, HeadTailProperties DEF Read
    <3> QED BY <2>1, <3>1 DEF Read
  <2>2. ASSUME NEW h \in Handlers, Load(h) PROVE TypeOK'
    BY <2>2 DEF Load, V!Vector
  <2>3. ASSUME NEW h \in Handlers, Build(h) PROVE TypeOK'
    <3>1. msgtmp' \in V!Vector(Msg)
      <4>1. CASE hgen[h] = msgtmp.gen /\ at[h] < Len(msgtmp.cells)
        <5>1. at[h] + 1 \in 1 .. Len(msgtmp.cells)
          BY <4>1, LenProperties DEF V!Vector
        <5>2. m[h] \in String
          BY <2>3 DEF Build, String
        <5> QED BY <2>3, <4>1, <5>1, <5>2, BuildType DEF Build
      <4>2. CASE ~(hgen[h] = msgtmp.gen /\ at[h] < Len(msgtmp.cells))
        BY <2>3, <4>2 DEF Build
      <4> QED BY <4>1, <4>2
    <3> QED BY <2>3, <3>1 DEF Build
  <2>4. ASSUME NEW h \in Handlers, Pushed(h), hpc[h] # "read",
               msgtmp' \in V!Vector(Msg), alive' \in BOOLEAN
        PROVE  TypeOK'
    <3>1. m[h] \in Msg
      BY <2>4
    <3>2. pushed' \in Seq(Msg)
      BY <2>4, <3>1, AppendProperties DEF Pushed
    <3> QED BY <2>4, <3>1, <3>2 DEF Pushed
  <2>5. ASSUME NEW h \in Handlers, Bump(h) PROVE TypeOK'
    <3>1. PICK f \in {at[h], msgtmp.fin} : msgtmp' = V!StoreFinish(msgtmp, f + 1)
      BY <2>5 DEF Bump
    <3>2. f + 1 \in Nat
      BY DEF V!Vector
    <3>3. msgtmp' \in V!Vector(Msg)
      BY <3>1, <3>2, StoreFinishType
    <3> QED BY <2>4, <2>5, <3>3 DEF Bump
  <2>6. ASSUME NEW h \in Handlers, Grow(h) PROVE TypeOK'
    <3>1. m[h] \in String /\ at[h] \in Nat
      BY <2>6 DEF Grow, String
    <3>2. msgtmp' \in V!Vector(Msg)
      BY <2>6, <3>1, GrowType DEF Grow
    <3> QED BY <2>4, <2>6, <3>2 DEF Grow
  <2>7. ASSUME NEW h \in Handlers, Answer(h) PROVE TypeOK'
    BY <2>7 DEF Answer
  <2>8. CASE Poll
    BY <2>8 DEF Poll, V!Vector
  <2>12. CASE PollEnd
    BY <2>12 DEF PollEnd, V!Vector
  <2>9. CASE Copy
    <3> DEFINE x == IF lgen = msgtmp.gen THEN V!Cell(msgtmp, pos + 1) ELSE Garbage
    <3>1. x \in String
      BY CellType DEF String
    <3>2. taken' = Append(taken, x)
      BY <2>9 DEF Copy
    <3> HIDE DEF x
    <3>3. taken' \in Seq(String)
      BY <3>1, <3>2, AppendProperties DEF String
    <3>4. pos' \in Nat
      BY <2>9 DEF Copy
    <3>5. alive' \in BOOLEAN
      <4>1. CASE lgen = msgtmp.gen
        BY <2>9, <4>1 DEF Copy
      <4>2. CASE lgen # msgtmp.gen
        BY <2>9, <4>2 DEF Copy
      <4> QED BY <4>1, <4>2
    <3>6. UNCHANGED <<msgtmp, todo, hpc, m, at, hgen, call, acked, lpc, end, lgen, pushed, raced>>
      BY <2>9 DEF Copy
    <3> QED BY <3>3, <3>4, <3>5, <3>6 DEF String
  <2>10. CASE Clear
    BY <2>10, ClearType DEF Clear
  <2>11. CASE UNCHANGED vars
    BY <2>11 DEF vars
  <2> QED
    BY <2>1, <2>2, <2>3, <2>5, <2>6, <2>7, <2>8, <2>9, <2>10, <2>11, <2>12
       DEF Next, PutMessages, Loop
<1> QED BY <1>1, <1>2, PTL

\* For any handlers, messages and arrivals: msgtmp and every thread's local
\* state keep their types.
THEOREM TypeCorrect == Spec => []TypeOK
BY TypeSafe, PTL DEF Spec
-----------------------------------------------------------------------------
(***************************************************************************)
(* The inductive invariant behind FifoUnlessRaced.  FifoUnlessRaced alone  *)
(* is not inductive: that Bump appends the pushed string needs the cell it *)
(* uncovers to hold that string, which needs the handler's loaded position *)
(* to be current, which needs no other push and no drain to be under way.  *)
(***************************************************************************)
Exclusive ==
    \A h \in Handlers : Pushing(h) => /\ lpc = "poll"
                                      /\ \A g \in Handlers \ {h} : ~Pushing(g)

Current ==
    /\ msgtmp.fin <= Len(msgtmp.cells)
    /\ \A h \in Handlers :
         /\ Pushing(h) => at[h] = msgtmp.fin /\ hgen[h] = msgtmp.gen
         /\ hpc[h] \in {"build", "bump"} => msgtmp.fin < Len(msgtmp.cells)
         /\ hpc[h] = "bump" => msgtmp.cells[msgtmp.fin + 1] = m[h]
    /\ Draining => lgen = msgtmp.gen
    /\ lpc = "end" => pos = 0
    /\ Copying => end = msgtmp.fin /\ pos <= end

Content ==
    /\ Copied <= Len(taken)
    /\ Len(pushed) = Len(taken) - Copied + msgtmp.fin
    /\ \A i \in 1 .. Len(taken) : pushed[i] = taken[i]
    /\ \A i \in 1 .. msgtmp.fin : pushed[Len(taken) - Copied + i] = msgtmp.cells[i]

Quiet == ~raced => alive /\ Exclusive /\ Current /\ Content

LEMMA QuietInit == Init => Quiet
BY DEF Init, Quiet, Exclusive, Current, Content, Copied, Pushing, Draining, Copying, V!NoStrings

\* What a finished push_back adds to the history.
LEMMA PushedAppends ==
    ASSUME TypeOK, NEW h \in Handlers, Pushed(h), hpc[h] # "read"
    PROVE  /\ Len(pushed') = Len(pushed) + 1
           /\ \A i \in 1 .. Len(pushed) : pushed'[i] = pushed[i]
           /\ pushed'[Len(pushed) + 1] = m[h]
BY AppendProperties DEF TypeOK, Pushed

LEMMA CellsInRange ==
    ASSUME TypeOK, msgtmp.fin <= Len(msgtmp.cells)
    PROVE  \A i \in 1 .. msgtmp.fin : V!Cell(msgtmp, i) = msgtmp.cells[i]
<1>1. /\ DOMAIN msgtmp.cells = 1 .. Len(msgtmp.cells)
      /\ msgtmp.fin \in Nat /\ Len(msgtmp.cells) \in Nat
  BY LenProperties DEF TypeOK, V!Vector
<1> QED BY <1>1 DEF V!Cell

LEMMA QuietStep == TypeOK /\ TypeOK' /\ Quiet /\ [Next]_vars => Quiet'
<1> SUFFICES ASSUME TypeOK, TypeOK', Quiet, [Next]_vars, ~raced'
             PROVE  (alive /\ Exclusive /\ Current /\ Content)'
  BY DEF Quiet
<1> USE DEF loopVars, handlerVars
<1>n. /\ msgtmp.fin \in Nat /\ msgtmp.gen \in Nat /\ Len(msgtmp.cells) \in Nat
      /\ Len(taken) \in Nat /\ Len(pushed) \in Nat /\ pos \in Nat /\ Copied \in Nat
  BY LenProperties DEF TypeOK, V!Vector, Copied, Copying
<1>r. ~raced
  BY DEF Next, PutMessages, Loop, Read, Load, Build, Bump, Grow, Pushed, Answer,
         Poll, PollEnd, Copy, Clear, vars
<1>q. alive /\ Exclusive /\ Current /\ Content
  BY <1>r DEF Quiet
<1>1. ASSUME NEW h \in Handlers, Read(h)
      PROVE  (alive /\ Exclusive /\ Current /\ Content)'
  <2>1. /\ \A g \in Handlers : Pushing(g)' = Pushing(g)
        /\ \A g \in Handlers : hpc'[g] = "bump" => hpc[g] = "bump" /\ m'[g] = m[g]
        /\ \A g \in Handlers : hpc'[g] = "build" => hpc[g] = "build"
    BY <1>1 DEF Read, Pushing, TypeOK
  <2>2. UNCHANGED <<msgtmp, at, hgen, lpc, end, lgen, pos, taken, alive, pushed>>
    BY <1>1 DEF Read
  <2>3. Exclusive'
    BY <1>q, <2>1, <2>2 DEF Exclusive
  <2>4. Current'
    BY <1>q, <2>1, <2>2 DEF Current, Draining, Copying
  <2>5. Content' /\ alive'
    BY <1>q, <2>2 DEF Content, Copied, Draining, Copying
  <2> QED BY <2>3, <2>4, <2>5
<1>2. ASSUME NEW h \in Handlers, Load(h)
      PROVE  (alive /\ Exclusive /\ Current /\ Content)'
  <2>1. ~Overlap'
    BY <1>2 DEF Load
  <2>2. /\ Pushing(h)'
        /\ \A g \in Handlers \ {h} : hpc'[g] = hpc[g]
    BY <1>2 DEF Load, Pushing, TypeOK
  <2>3. lpc' = "poll" /\ lpc = "poll" /\ \A g \in Handlers \ {h} : ~Pushing(g)'
    BY <1>2, <2>1, <2>2 DEF Load, Overlap, Draining, Copying, TypeOK
  <2>4. Exclusive'
    BY <2>3 DEF Exclusive
  <2>5. /\ at'[h] = msgtmp.fin /\ hgen'[h] = msgtmp.gen /\ hpc'[h] # "bump"
        /\ hpc'[h] = "build" => msgtmp.fin < Len(msgtmp.cells)
    BY <1>2, <1>q, <1>n DEF Load, Current, TypeOK, V!IsFull
  <2>6. Current'
    BY <1>2, <1>q, <2>2, <2>3, <2>5 DEF Load, Current, Pushing, Draining, Copying
  <2>7. Content' /\ alive'
    BY <1>2, <1>q DEF Load, Content, Copied, Draining, Copying
  <2> QED BY <2>4, <2>6, <2>7
<1>3. ASSUME NEW h \in Handlers, Build(h)
      PROVE  (alive /\ Exclusive /\ Current /\ Content)'
  <2>1. /\ hpc[h] = "build" /\ Pushing(h)
        /\ \A g \in Handlers : Pushing(g)' = Pushing(g)
        /\ \A g \in Handlers \ {h} : hpc'[g] = hpc[g]
    BY <1>3 DEF Build, Pushing, TypeOK
  <2>2. /\ at[h] = msgtmp.fin /\ hgen[h] = msgtmp.gen /\ msgtmp.fin < Len(msgtmp.cells)
        /\ lpc = "poll" /\ \A g \in Handlers \ {h} : ~Pushing(g)
    BY <1>q, <2>1 DEF Current, Exclusive
  <2>3. msgtmp' = V!Build(msgtmp, msgtmp.fin + 1, m[h]) /\ alive'
    BY <1>3, <1>q, <2>2 DEF Build
  <2>4. /\ m[h] \in String /\ msgtmp \in V!Vector(Msg)
        /\ msgtmp.fin + 1 \in 1 .. Len(msgtmp.cells)
    <3>1. m[h] \in String /\ msgtmp \in V!Vector(Msg)
      BY <2>1 DEF TypeOK, String
    <3>2. msgtmp.fin + 1 \in 1 .. Len(msgtmp.cells)
      BY <1>n, <2>2
    <3> QED BY <3>1, <3>2
  <2>5. /\ msgtmp'.fin = msgtmp.fin /\ msgtmp'.gen = msgtmp.gen
        /\ Len(msgtmp'.cells) = Len(msgtmp.cells)
        /\ msgtmp'.cells[msgtmp.fin + 1] = m[h]
        /\ \A i \in 1 .. msgtmp.fin : msgtmp'.cells[i] = msgtmp.cells[i]
    <3> DEFINE w == V!Build(msgtmp, msgtmp.fin + 1, m[h])
    <3>1. w.fin = msgtmp.fin BY <2>4, BuildType
    <3>2. w.gen = msgtmp.gen BY <2>4, BuildType
    <3>3. Len(w.cells) = Len(msgtmp.cells) BY <2>4, BuildType
    <3>4. w.cells[msgtmp.fin + 1] = m[h] BY <2>4, BuildType
    <3>5. \A i \in 1 .. Len(msgtmp.cells) \ {msgtmp.fin + 1} : w.cells[i] = msgtmp.cells[i]
      BY <2>4, BuildType
    <3>6. \A i \in 1 .. msgtmp.fin : i \in 1 .. Len(msgtmp.cells) \ {msgtmp.fin + 1}
      BY <1>n, <2>4
    <3> HIDE DEF w
    <3> QED BY <2>3, <3>1, <3>2, <3>3, <3>4, <3>5, <3>6 DEF w
  <2>6. UNCHANGED <<lpc, taken, pushed, m, at, hgen, end, lgen, pos>>
    BY <1>3 DEF Build
  <2>7. Exclusive'
    BY <1>q, <2>1, <2>6 DEF Exclusive
  <2>8. Current'
    BY <1>n, <1>q, <2>1, <2>2, <2>5, <2>6 DEF Current, Pushing, Draining, Copying
  <2>9. Content'
    BY <1>q, <2>2, <2>5, <2>6 DEF Content, Copied, Draining, Copying
  <2> QED BY <2>3, <2>7, <2>8, <2>9
<1>4. ASSUME NEW h \in Handlers, Pushed(h), Pushing(h), alive',
             msgtmp'.fin = msgtmp.fin + 1, msgtmp'.fin <= Len(msgtmp'.cells),
             msgtmp'.cells[msgtmp.fin + 1] = m[h],
             \A i \in 1 .. msgtmp.fin : msgtmp'.cells[i] = msgtmp.cells[i]
      PROVE  (alive /\ Exclusive /\ Current /\ Content)'
  <2>1. lpc = "poll" /\ \A g \in Handlers \ {h} : ~Pushing(g)
    BY <1>q, <1>4 DEF Exclusive
  <2>2. /\ \A g \in Handlers : ~Pushing(g)'
        /\ lpc' = "poll" /\ taken' = taken /\ Copied = 0 /\ Copied' = 0
    BY <1>4, <2>1 DEF Pushed, Pushing, TypeOK, Copied, Draining, Copying
  <2>3. Exclusive' /\ Current'
    BY <1>4, <2>2 DEF Exclusive, Current, Pushing, Draining, Copying
  <2>4. /\ Len(pushed') = Len(pushed) + 1
        /\ \A i \in 1 .. Len(pushed) : pushed'[i] = pushed[i]
        /\ pushed'[Len(pushed) + 1] = m[h]
    BY <1>4, PushedAppends DEF Pushing
  <2>5. Len(pushed) = Len(taken) + msgtmp.fin
    BY <1>n, <1>q, <2>2 DEF Content
  <2>6. Len(pushed') = Len(taken') + msgtmp'.fin
    BY <1>n, <1>4, <2>2, <2>4, <2>5
  <2>7. \A i \in 1 .. Len(taken') : pushed'[i] = taken'[i]
    BY <1>n, <1>q, <2>2, <2>4, <2>5 DEF Content
  <2>8. \A i \in 1 .. msgtmp'.fin : pushed'[Len(taken') + i] = msgtmp'.cells[i]
    <3> SUFFICES ASSUME NEW i \in 1 .. msgtmp.fin + 1
                 PROVE  pushed'[Len(taken) + i] = msgtmp'.cells[i]
      BY <1>4, <2>2
    <3>1. CASE i = msgtmp.fin + 1
      BY <1>n, <1>4, <2>4, <2>5, <3>1
    <3>2. CASE i \in 1 .. msgtmp.fin
      <4>1. Len(taken) + i \in 1 .. Len(pushed)
        BY <1>n, <2>5, <3>2
      <4>2. pushed[Len(taken) + i] = msgtmp.cells[i]
        <5>1. pushed[Len(taken) - Copied + i] = msgtmp.cells[i]
          BY <1>q, <3>2 DEF Content
        <5>2. Len(taken) - Copied + i = Len(taken) + i
          BY <1>n, <2>2
        <5> QED BY <5>1, <5>2
      <4>3. pushed'[Len(taken) + i] = pushed[Len(taken) + i]
        BY <2>4, <4>1
      <4>4. msgtmp'.cells[i] = msgtmp.cells[i]
        BY <1>4, <3>2
      <4> QED BY <4>2, <4>3, <4>4
    <3>3. i = msgtmp.fin + 1 \/ i \in 1 .. msgtmp.fin
      BY <1>n
    <3> QED BY <3>1, <3>2, <3>3
  <2>9. Len(taken') \in Nat /\ msgtmp'.fin \in Nat
    BY <1>n, <1>4, <2>2
  <2>10. Content'
    BY <2>2, <2>6, <2>7, <2>8, <2>9 DEF Content
  <2> QED BY <1>4, <2>3, <2>10
<1>5. ASSUME NEW h \in Handlers, Bump(h)
      PROVE  (alive /\ Exclusive /\ Current /\ Content)'
  <2>1. Pushing(h) /\ hpc[h] = "bump"
    BY <1>5 DEF Bump, Pushing
  <2>2. /\ at[h] = msgtmp.fin /\ msgtmp.fin < Len(msgtmp.cells)
        /\ msgtmp.cells[msgtmp.fin + 1] = m[h]
    BY <1>q, <2>1 DEF Current
  <2>3. msgtmp' = [cells |-> msgtmp.cells, fin |-> msgtmp.fin + 1, gen |-> msgtmp.gen]
    <3>1. msgtmp' = V!StoreFinish(msgtmp, msgtmp.fin + 1)
      BY <1>5, <2>2 DEF Bump
    <3>2. msgtmp \in V!Vector(Msg)
      BY DEF TypeOK
    <3>3. msgtmp.fin + 1 \in Nat
      BY <1>n
    <3> QED BY <3>1, <3>2, <3>3, StoreFinishType
  <2> QED BY <1>4, <1>5, <1>n, <1>q, <2>1, <2>2, <2>3 DEF Bump
<1>6. ASSUME NEW h \in Handlers, Grow(h)
      PROVE  (alive /\ Exclusive /\ Current /\ Content)'
  <2>1. Pushing(h) /\ m[h] \in String
    BY <1>6 DEF Grow, Pushing, TypeOK, String
  <2>2. at[h] = msgtmp.fin /\ hgen[h] = msgtmp.gen /\ msgtmp.fin <= Len(msgtmp.cells)
    BY <1>q, <2>1 DEF Current
  <2>3. alive' /\ msgtmp' = V!Grow(msgtmp, msgtmp.fin, m[h])
    BY <1>6, <2>2 DEF Grow
  <2>4. /\ msgtmp'.fin = msgtmp.fin + 1 /\ Len(msgtmp'.cells) >= msgtmp.fin + 1
        /\ msgtmp'.cells[msgtmp.fin + 1] = m[h]
        /\ \A i \in 1 .. msgtmp.fin : msgtmp'.cells[i] = V!Cell(msgtmp, i)
    <3>1. msgtmp \in V!Vector(Msg)
      BY DEF TypeOK
    <3> DEFINE k == msgtmp.fin
    <3>2. k \in Nat BY <1>n
    <3> HIDE DEF k
    <3>3. V!Grow(msgtmp, k, m[h]).fin = k + 1 BY <2>1, <3>1, <3>2, GrowType
    <3>4. Len(V!Grow(msgtmp, k, m[h]).cells) >= k + 1 BY <2>1, <3>1, <3>2, GrowType
    <3>5. V!Grow(msgtmp, k, m[h]).cells[k + 1] = m[h] BY <2>1, <3>1, <3>2, GrowType
    <3>6. \A i \in 1 .. k : V!Grow(msgtmp, k, m[h]).cells[i] = V!Cell(msgtmp, i)
      BY <2>1, <3>1, <3>2, GrowType
    <3> QED BY <2>3, <3>3, <3>4, <3>5, <3>6 DEF k
  <2>5. \A i \in 1 .. msgtmp.fin : V!Cell(msgtmp, i) = msgtmp.cells[i]
    BY <2>2, CellsInRange
  <2>6. msgtmp'.fin <= Len(msgtmp'.cells)
    <3>1. Len(msgtmp'.cells) \in Nat
      BY LenProperties DEF TypeOK, V!Vector
    <3> QED BY <1>n, <2>4, <3>1
  <2> QED BY <1>4, <1>6, <2>1, <2>3, <2>4, <2>5, <2>6 DEF Grow
<1>7. ASSUME NEW h \in Handlers, Answer(h)
      PROVE  (alive /\ Exclusive /\ Current /\ Content)'
  BY <1>7, <1>q DEF Answer, Exclusive, Current, Content, Copied, Pushing, Draining, Copying
<1>8. CASE Poll
  <2>1. ~Overlap' /\ Draining'
    BY <1>8 DEF Poll, Draining, Copying
  <2>2. \A h \in Handlers : ~Pushing(h)' /\ ~Pushing(h)
    BY <1>8, <2>1 DEF Poll, Overlap, Pushing
  <2>3. Exclusive' /\ Current'
    BY <1>8, <1>n, <1>q, <2>2 DEF Poll, Exclusive, Current, Pushing, Draining, Copying
  <2>4. Copied = 0 /\ Copied' = 0
    BY <1>8 DEF Poll, Copied, Draining, Copying
  <2>5. Content'
    BY <1>8, <1>q, <2>4 DEF Poll, Content
  <2> QED BY <1>8, <2>3, <2>5 DEF Poll
<1>12. CASE PollEnd
  <2>1. \A h \in Handlers : ~Pushing(h)' /\ ~Pushing(h)
    BY <1>12, <1>q DEF PollEnd, Exclusive, Pushing
  <2>2. Exclusive' /\ Current'
    BY <1>12, <1>n, <1>q, <2>1 DEF PollEnd, Exclusive, Current, Pushing, Draining, Copying
  <2>3. Copied = 0 /\ Copied' = 0
    BY <1>12, <1>q DEF PollEnd, Copied, Copying, Current
  <2>4. Content'
    BY <1>12, <1>q, <2>3 DEF PollEnd, Content
  <2> QED BY <1>12, <1>q, <2>2, <2>4 DEF PollEnd
<1>9. CASE Copy
  <2>1. /\ Copying /\ Copying' /\ end = msgtmp.fin /\ lgen = msgtmp.gen /\ alive'
        /\ pos < msgtmp.fin /\ pos' = pos + 1 /\ pushed' = pushed /\ msgtmp' = msgtmp
    BY <1>9, <1>q DEF Copy, Draining, Copying, Current
  <2>2. \A h \in Handlers : ~Pushing(h) /\ ~Pushing(h)'
    BY <1>9, <1>q DEF Copy, Exclusive, Pushing
  <2>3. Exclusive' /\ Current'
    BY <1>9, <1>n, <1>q, <2>1, <2>2 DEF Copy, Exclusive, Current, Pushing, Draining, Copying
  <2>4. Copied = pos /\ Copied' = pos + 1
    BY <2>1 DEF Copied, Copying
  <2>5. taken' = Append(taken, msgtmp.cells[pos + 1])
    <3>1. pos + 1 \in 1 .. msgtmp.fin
      BY <1>n, <2>1
    <3>2. V!Cell(msgtmp, pos + 1) = msgtmp.cells[pos + 1]
      BY <1>q, <3>1, CellsInRange DEF Current
    <3> QED BY <1>9, <2>1, <3>2 DEF Copy
  <2>6. /\ Len(taken') = Len(taken) + 1
        /\ taken'[Len(taken) + 1] = msgtmp.cells[pos + 1]
        /\ \A i \in 1 .. Len(taken) : taken'[i] = taken[i]
    <3>1. taken \in Seq(String) /\ taken' \in Seq(String)
      BY DEF TypeOK, String
    <3> QED BY <2>5, <3>1, AppendProperties
  <2>7. pushed[Len(taken) + 1] = msgtmp.cells[pos + 1]
    <3>1. pos + 1 \in 1 .. msgtmp.fin /\ Len(taken) - pos + (pos + 1) = Len(taken) + 1
      BY <1>n, <2>1
    <3>2. pushed[Len(taken) - Copied + (pos + 1)] = msgtmp.cells[pos + 1]
      BY <1>q, <3>1 DEF Content
    <3> QED BY <2>4, <3>1, <3>2
  <2>8. Len(taken') - Copied' = Len(taken) - Copied /\ Copied' <= Len(taken')
    BY <1>n, <1>q, <2>4, <2>6 DEF Content
  <2>9. \A i \in 1 .. Len(taken') : pushed'[i] = taken'[i]
    <3> SUFFICES ASSUME NEW i \in 1 .. Len(taken) + 1
                 PROVE  pushed[i] = taken'[i]
      BY <2>1, <2>6
    <3>1. i = Len(taken) + 1 \/ i \in 1 .. Len(taken)
      BY <1>n
    <3> QED BY <1>q, <2>6, <2>7, <3>1 DEF Content
  <2>10. /\ Len(pushed') = Len(taken') - Copied' + msgtmp'.fin
         /\ \A i \in 1 .. msgtmp'.fin :
              pushed'[Len(taken') - Copied' + i] = msgtmp'.cells[i]
    BY <1>q, <2>1, <2>8 DEF Content
  <2>11. Content'
    BY <2>8, <2>9, <2>10 DEF Content
  <2> QED BY <2>1, <2>3, <2>11
<1>10. CASE Clear
  <2>1. \A h \in Handlers : ~Pushing(h) /\ ~Pushing(h)'
    BY <1>10, <1>q DEF Clear, Exclusive, Pushing
  <2>2. msgtmp'.fin = 0 /\ Len(msgtmp'.cells) = Len(msgtmp.cells)
    BY <1>10, ClearType DEF Clear, TypeOK
  <2>3. Exclusive' /\ Current'
    BY <1>10, <1>n, <2>1, <2>2 DEF Clear, Exclusive, Current, Pushing, Draining, Copying
  <2>4. Copied = msgtmp.fin /\ Copied' = 0
    BY <1>10, <1>q DEF Clear, Copied, Draining, Copying, Current
  <2>5. Content'
    BY <1>10, <1>n, <1>q, <2>2, <2>4 DEF Clear, Content
  <2> QED BY <1>10, <1>q, <2>3, <2>5 DEF Clear
<1>11. CASE UNCHANGED vars
  BY <1>11, <1>q DEF vars, Exclusive, Current, Content, Copied, Pushing, Draining, Copying
<1> QED
  BY <1>1, <1>2, <1>3, <1>5, <1>6, <1>7, <1>8, <1>9, <1>10, <1>11, <1>12
     DEF Next, PutMessages, Loop

LEMMA QuietImplies == TypeOK /\ Quiet => FifoUnlessRaced
<1> SUFFICES ASSUME TypeOK, Quiet, ~raced
             PROVE  alive /\ taken \o Waiting = pushed
  BY DEF FifoUnlessRaced
<1>1. alive /\ Current /\ Content
  BY DEF Quiet
<1>2. msgtmp.fin \in Nat /\ Len(msgtmp.cells) \in Nat /\ Len(taken) \in Nat
  BY LenProperties DEF TypeOK, V!Vector
<1>3. taken \in Seq(String) /\ pushed \in Seq(String)
  BY DEF TypeOK, String
<1> DEFINE n == msgtmp.fin - Copied
<1>c. Copied \in Nat /\ Copied <= msgtmp.fin /\ n \in Nat
  BY <1>1, <1>2 DEF Copied, Draining, Copying, Current, TypeOK
<1>4. /\ Waiting \in Seq(String) /\ Len(Waiting) = n
      /\ \A i \in 1 .. n : Waiting[i] = V!Cell(msgtmp, Copied + i)
  <2> DEFINE e == V!Elems(msgtmp)
  <2>1. e \in [1 .. msgtmp.fin -> String]
    BY CellType DEF V!Elems, TypeOK, String
  <2>2. \A i \in 1 .. msgtmp.fin : e[i] = V!Cell(msgtmp, i)
    BY DEF V!Elems
  <2> HIDE DEF e
  <2>3. e \in Seq(String) /\ Len(e) = msgtmp.fin
    BY <1>2, <2>1
  <2>4. Waiting = SubSeq(e, Copied + 1, msgtmp.fin)
    BY DEF Waiting, e
  <2>5. /\ Waiting \in Seq(String) /\ Len(Waiting) = n
        /\ \A i \in 1 .. n : Waiting[i] = e[Copied + i]
    <3>1. \A i \in Copied + 1 .. msgtmp.fin : i \in 1 .. Len(e)
      BY <1>2, <1>c, <2>3
    <3>2. /\ SubSeq(e, Copied + 1, msgtmp.fin) \in Seq(String)
          /\ Len(SubSeq(e, Copied + 1, msgtmp.fin)) =
               IF Copied + 1 <= msgtmp.fin THEN msgtmp.fin - (Copied + 1) + 1 ELSE 0
          /\ \A i \in 1 .. msgtmp.fin - (Copied + 1) + 1 :
               SubSeq(e, Copied + 1, msgtmp.fin)[i] = e[Copied + 1 + i - 1]
      BY <1>2, <1>c, <2>3, <3>1, SubSeqProperties
    <3>3. n = msgtmp.fin - (Copied + 1) + 1 /\ (~(Copied + 1 <= msgtmp.fin) => n = 0)
      BY <1>2, <1>c
    <3>4. \A i \in 1 .. n : Copied + 1 + i - 1 = Copied + i
      BY <1>2, <1>c
    <3> QED BY <2>4, <3>2, <3>3, <3>4
  <2>6. \A i \in 1 .. n : Copied + i \in 1 .. msgtmp.fin
    BY <1>2, <1>c
  <2> QED BY <2>2, <2>5, <2>6
<1>5. \A i \in 1 .. n : Waiting[i] = pushed[Len(taken) + i]
  <2> SUFFICES ASSUME NEW i \in 1 .. n PROVE Waiting[i] = pushed[Len(taken) + i]
    OBVIOUS
  <2>1. Copied + i \in 1 .. msgtmp.fin /\ Len(taken) - Copied + (Copied + i) = Len(taken) + i
    BY <1>2, <1>c
  <2>2. V!Cell(msgtmp, Copied + i) = msgtmp.cells[Copied + i]
    BY <1>1, <2>1, CellsInRange DEF Current
  <2>3. pushed[Len(taken) - Copied + (Copied + i)] = msgtmp.cells[Copied + i]
    BY <1>1, <2>1 DEF Content
  <2> QED BY <1>4, <2>1, <2>2, <2>3
<1>p. Len(pushed) = Len(taken) + n
  BY <1>1, <1>2, <1>c DEF Content
<1>6. Len(taken \o Waiting) = Len(pushed)
  <2> HIDE DEF n
  <2> QED BY <1>3, <1>4, <1>p, ConcatProperties
<1>7. \A i \in 1 .. Len(pushed) : (taken \o Waiting)[i] = pushed[i]
  <2> SUFFICES ASSUME NEW i \in 1 .. Len(taken) + n
               PROVE  (taken \o Waiting)[i] = pushed[i]
    BY <1>p
  <2>1. (taken \o Waiting)[i] = IF i <= Len(taken) THEN taken[i]
                                                  ELSE Waiting[i - Len(taken)]
    BY <1>3, <1>4, ConcatProperties
  <2>2. CASE i <= Len(taken)
    BY <1>1, <1>2, <2>1, <2>2 DEF Content
  <2>3. CASE ~(i <= Len(taken))
    <3>1. i - Len(taken) \in 1 .. n /\ Len(taken) + (i - Len(taken)) = i
      BY <1>2, <1>c, <2>3
    <3> HIDE DEF n
    <3> QED BY <1>5, <2>1, <2>3, <3>1
  <2> QED BY <2>2, <2>3
<1>8. taken \o Waiting \in Seq(String)
  BY <1>3, <1>4, ConcatProperties
<1> QED BY <1>1, <1>3, <1>6, <1>7, <1>8, SeqEqual

LEMMA FifoSafe == Init /\ [][Next]_vars => []FifoUnlessRaced
<1>1. Init /\ [][Next]_vars => [](TypeOK /\ Quiet)
  <2>1. Init /\ [][Next]_vars => []TypeOK
    BY TypeSafe
  <2>2. Init => Quiet
    BY QuietInit
  <2>3. TypeOK /\ TypeOK' /\ Quiet /\ [Next]_vars => Quiet'
    BY QuietStep
  <2> QED BY <2>1, <2>2, <2>3, PTL
<1>2. TypeOK /\ Quiet => FifoUnlessRaced
  BY QuietImplies
<1> QED BY <1>1, <1>2, PTL

\* For any handlers, messages and arrivals: as long as no push has overlapped
\* another push or a drain, msgtmp hands over exactly what was pushed, in order.
THEOREM FifoCorrect == Spec => []FifoUnlessRaced
BY FifoSafe, PTL DEF Spec
-----------------------------------------------------------------------------
(***************************************************************************)
(* The inductive invariant behind OneFeedInOrder: for each message that is *)
(* waiting or has been taken, its position among those pushed.  It does    *)
(* not assume that pushes and drains do not overlap.                       *)
(***************************************************************************)
\* A handler in push_back has read a message.
Fed == \A h \in Handlers : /\ Len(todo[h]) <= Len(Arrivals[h])
                           /\ hpc[h] # "read" => Len(todo[h]) < Len(Arrivals[h])

\* The message that counts as the k-th of the vector is that many before the last.
Index(k) == Len(pushed) - (msgtmp.fin - k)

Cells ==
    /\ msgtmp.fin <= Len(msgtmp.cells)
    /\ \A k \in 1 .. msgtmp.fin :
         msgtmp.cells[k] # Garbage => Index(k) \in DOMAIN pushed /\ pushed[Index(k)] = msgtmp.cells[k]
    /\ Draining => 0 < msgtmp.fin
    /\ lpc = "end" => pos = 0
    /\ Copying => pos <= end /\ end <= msgtmp.fin /\ 0 < end

\* The handler's position is the vector's end, unless the loop has cleared the
\* vector meanwhile; then nothing is left in front of it.
Position(h) ==
    /\ Pushing(h) =>
         /\ hgen[h] = msgtmp.gen /\ at[h] <= Len(msgtmp.cells)
         /\ \/ msgtmp.fin = at[h]
            \/ /\ msgtmp.fin = 0 /\ lpc = "poll"
               /\ \A k \in 1 .. at[h] : msgtmp.cells[k] = Garbage
    /\ hpc[h] \in {"build", "bump"} => at[h] < Len(msgtmp.cells)
    /\ hpc[h] = "bump" => msgtmp.cells[at[h] + 1] = m[h]

\* A message taken is the f-th pushed; they are in order, and before all that
\* are still waiting.
Ordered(f) ==
    \A i \in DOMAIN taken : taken[i] # Garbage =>
      /\ f[i] \in DOMAIN pushed /\ pushed[f[i]] = taken[i]
      /\ \A j \in DOMAIN taken : i < j /\ taken[j] # Garbage => f[i] < f[j]
      /\ \A k \in Copied + 1 .. msgtmp.fin : msgtmp.cells[k] # Garbage => f[i] < Index(k)

InOrder == \E f \in [DOMAIN taken -> Nat] : Ordered(f)

FeedInv == Fed /\ \A h \in Handlers : OneFeedBy(h) => Cells /\ Position(h) /\ InOrder

Single(h) == Cells /\ Position(h) /\ InOrder

LEMMA VectorParts ==
    ASSUME NEW v \in V!Vector(Msg)
    PROVE  /\ v.cells \in Seq(String) /\ v.fin \in Nat /\ v.gen \in Nat
           /\ Len(v.cells) \in Nat /\ DOMAIN v.cells = 1 .. Len(v.cells)
BY LenProperties DEF V!Vector, String

LEMMA FedInit == Init => FeedInv
<1> SUFFICES ASSUME Init PROVE FeedInv
  OBVIOUS
<1>1. \A h \in Handlers : Len(todo[h]) \in Nat /\ todo[h] = Arrivals[h] /\ hpc[h] = "read"
  BY LenProperties DEF Init
<1>2. Fed
  BY <1>1 DEF Fed
<1>3. msgtmp.fin = 0 /\ Len(msgtmp.cells) = 0 /\ lpc = "poll" /\ DOMAIN taken = {}
  BY DEF Init, V!NoStrings
<1>4. Cells /\ \A h \in Handlers : Position(h)
  BY <1>1, <1>3 DEF Cells, Position, Draining, Copying, Pushing
<1>5. InOrder
  <2>1. [i \in DOMAIN taken |-> 0] \in [DOMAIN taken -> Nat]
    OBVIOUS
  <2>2. Ordered([i \in DOMAIN taken |-> 0])
    BY <1>3 DEF Ordered
  <2> QED BY <2>1, <2>2 DEF InOrder
<1> QED BY <1>2, <1>4, <1>5 DEF FeedInv

LEMMA FedStep == TypeOK /\ Fed /\ [Next]_vars => Fed'
<1> SUFFICES ASSUME TypeOK, Fed, [Next]_vars PROVE Fed'
  OBVIOUS
<1>1. CASE Loop \/ UNCHANGED vars
  BY <1>1 DEF Loop, Poll, PollEnd, Copy, Clear, vars, handlerVars, Fed
<1>2. ASSUME NEW h \in Handlers, PutMessages(h) PROVE Fed'
  <2> SUFFICES ASSUME NEW g \in Handlers
               PROVE  /\ Len(todo'[g]) <= Len(Arrivals[g])
                      /\ hpc'[g] # "read" => Len(todo'[g]) < Len(Arrivals[g])
    BY DEF Fed
  <2>1. CASE Read(h)
    <3>1. /\ todo[h] # <<>> /\ todo' = [todo EXCEPT ![h] = Tail(todo[h])]
          /\ hpc' = [hpc EXCEPT ![h] = "push"]
      BY <2>1 DEF Read
    <3>2. todo[h] \in Seq(Msg) /\ Len(todo[h]) \in Nat /\ Len(Arrivals[h]) \in Nat
      BY LenProperties DEF TypeOK
    <3>3. Len(Tail(todo[h])) = Len(todo[h]) - 1
      BY <3>1, <3>2, HeadTailProperties
    <3>4. CASE g = h
      BY <3>1, <3>2, <3>3, <3>4 DEF Fed, TypeOK
    <3>5. CASE g # h
      BY <3>1, <3>5 DEF Fed, TypeOK
    <3> QED BY <3>4, <3>5
  <2>2. CASE Load(h) \/ Build(h) \/ Bump(h) \/ Grow(h) \/ Answer(h)
    <3>1. todo' = todo /\ (hpc'[g] # "read" => hpc[g] # "read")
      BY <2>2 DEF Load, Build, Bump, Grow, Answer, Pushed, TypeOK
    <3> QED BY <3>1 DEF Fed
  <2> QED BY <1>2, <2>1, <2>2 DEF PutMessages
<1> QED BY <1>1, <1>2 DEF Next

\* While h alone has fed the node, only h and the loop change msgtmp.
LEMMA OnlyFeeder ==
    ASSUME TypeOK, Fed, Next, NEW h \in Handlers, OneFeedBy(h)'
    PROVE  OneFeedBy(h) /\ (Loop \/ PutMessages(h) \/ \E g \in Handlers : Answer(g))
<1>1. CASE Loop
  BY <1>1 DEF Loop, Poll, PollEnd, Copy, Clear, handlerVars, OneFeedBy
<1>2. ASSUME NEW g \in Handlers, PutMessages(g), g # h
      PROVE  OneFeedBy(h) /\ Answer(g)
  <2>1. hpc'[g] = "read" /\ todo'[g] = Arrivals[g]
    BY <1>2 DEF OneFeedBy
  <2>2. ~Read(g) /\ ~Load(g) /\ ~Build(g)
    BY <2>1 DEF Read, Load, Build, TypeOK
  <2>3. ~Bump(g) /\ ~Grow(g)
    <3> SUFFICES ASSUME Bump(g) \/ Grow(g) PROVE FALSE
      OBVIOUS
    <3>1. hpc[g] # "read" /\ todo' = todo
      BY DEF Bump, Grow, Pushed
    <3>2. Len(todo[g]) < Len(Arrivals[g]) /\ Len(Arrivals[g]) \in Nat
      BY <3>1, LenProperties DEF Fed
    <3> QED BY <2>1, <3>1, <3>2
  <2>4. Answer(g)
    BY <1>2, <2>2, <2>3 DEF PutMessages
  <2> QED BY <2>4 DEF Answer, OneFeedBy
<1>3. ASSUME PutMessages(h) PROVE OneFeedBy(h)
  BY <1>3 DEF PutMessages, Read, Load, Build, Bump, Grow, Answer, Pushed, OneFeedBy, TypeOK
<1> QED BY <1>1, <1>2, <1>3 DEF Next

LEMMA CopiedType == TypeOK => Copied \in Nat
BY DEF TypeOK, Copied, Copying

\* What is taken and what is waiting stay in order when neither changes.
LEMMA OrderKept ==
    ASSUME TypeOK, InOrder, UNCHANGED <<taken, pushed>>, Copied' = Copied,
           msgtmp'.fin = msgtmp.fin,
           \A k \in 1 .. msgtmp.fin : msgtmp'.cells[k] = msgtmp.cells[k]
    PROVE  InOrder'
<1>1. PICK f \in [DOMAIN taken -> Nat] : Ordered(f)
  BY DEF InOrder
<1>2. \A k \in Copied + 1 .. msgtmp.fin : k \in 1 .. msgtmp.fin
  <2>1. Copied \in Nat /\ msgtmp.fin \in Nat
    BY VectorParts, CopiedType DEF TypeOK
  <2> QED BY <2>1
<1>3. \A k \in Copied + 1 .. msgtmp.fin : msgtmp'.cells[k] = msgtmp.cells[k]
  BY <1>2
<1>4. Ordered(f)'
  <2> SUFFICES ASSUME NEW i \in DOMAIN taken, taken[i] # Garbage
               PROVE  /\ f[i] \in DOMAIN pushed /\ pushed[f[i]] = taken[i]
                      /\ \A j \in DOMAIN taken : i < j /\ taken[j] # Garbage => f[i] < f[j]
                      /\ \A k \in Copied + 1 .. msgtmp.fin : msgtmp'.cells[k] # Garbage => f[i] < Index(k)
    BY DEF Ordered, Index
  <2> QED BY <1>1, <1>3 DEF Ordered
<1> QED BY <1>1, <1>4 DEF InOrder

-----------------------------------------------------------------------------
LEMMA ReadSingle ==
    ASSUME TypeOK, NEW h \in Handlers, Single(h), Read(h)
    PROVE  Single(h)'
<1>1. hpc'[h] = "push" /\ UNCHANGED <<msgtmp, taken, pushed, lpc, end, pos>>
  BY DEF Read, loopVars, TypeOK
<1>2. Cells' /\ Position(h)'
  BY <1>1 DEF Single, Cells, Position, Index, Draining, Copying, Pushing
<1>3. Copied' = Copied
  BY <1>1 DEF Copied, Draining, Copying
<1>4. InOrder'
  BY <1>1, <1>3, OrderKept DEF Single
<1> QED BY <1>2, <1>4 DEF Single

LEMMA LoadSingle ==
    ASSUME TypeOK, NEW h \in Handlers, Single(h), Load(h)
    PROVE  Single(h)'
<1>1. /\ at'[h] = msgtmp.fin /\ hgen'[h] = msgtmp.gen
      /\ hpc'[h] = IF msgtmp.fin = Len(msgtmp.cells) THEN "grow" ELSE "build"
      /\ UNCHANGED <<msgtmp, taken, pushed, lpc, end, pos>>
  BY DEF Load, loopVars, TypeOK, V!IsFull
<1>2. msgtmp.fin \in Nat /\ Len(msgtmp.cells) \in Nat /\ msgtmp.fin <= Len(msgtmp.cells)
  BY VectorParts DEF TypeOK, Single, Cells
<1>3. Cells' /\ Position(h)'
  BY <1>1, <1>2 DEF Single, Cells, Position, Index, Draining, Copying, Pushing
<1>4. Copied' = Copied
  BY <1>1 DEF Copied, Draining, Copying
<1>5. InOrder'
  BY <1>1, <1>4, OrderKept DEF Single
<1> QED BY <1>3, <1>5 DEF Single

LEMMA BuildSingle ==
    ASSUME TypeOK, NEW h \in Handlers, Single(h), Build(h)
    PROVE  Single(h)'
<1>1. /\ msgtmp.fin \in Nat /\ Len(msgtmp.cells) \in Nat /\ msgtmp \in V!Vector(Msg)
      /\ at[h] \in Nat /\ m[h] \in String
  BY VectorParts DEF TypeOK, String
<1>2. /\ hpc[h] = "build" /\ hgen[h] = msgtmp.gen /\ at[h] < Len(msgtmp.cells)
      /\ \/ msgtmp.fin = at[h]
         \/ /\ msgtmp.fin = 0 /\ lpc = "poll"
            /\ \A k \in 1 .. at[h] : msgtmp.cells[k] = Garbage
  BY DEF Build, Single, Position, Pushing
<1>3. /\ msgtmp' = V!Build(msgtmp, at[h] + 1, m[h]) /\ hpc'[h] = "bump"
      /\ UNCHANGED <<at, hgen, m, taken, pushed, lpc, end, pos>>
  BY <1>2 DEF Build, loopVars, TypeOK
<1>4. at[h] + 1 \in 1 .. Len(msgtmp.cells)
  BY <1>1, <1>2
<1>5. /\ msgtmp'.fin = msgtmp.fin /\ msgtmp'.gen = msgtmp.gen
      /\ Len(msgtmp'.cells) = Len(msgtmp.cells) /\ msgtmp'.cells[at[h] + 1] = m[h]
      /\ \A i \in 1 .. Len(msgtmp.cells) \ {at[h] + 1} : msgtmp'.cells[i] = msgtmp.cells[i]
  BY <1>1, <1>3, <1>4, BuildType
<1>6. \A k \in 1 .. at[h] : msgtmp'.cells[k] = msgtmp.cells[k]
  <2>1. \A k \in 1 .. at[h] : k \in 1 .. Len(msgtmp.cells) \ {at[h] + 1}
    BY <1>1, <1>2
  <2> QED BY <1>5, <2>1
<1>7. \A k \in 1 .. msgtmp.fin : k \in 1 .. at[h]
  BY <1>1, <1>2
<1>8. Cells'
  BY <1>3, <1>5, <1>6, <1>7 DEF Single, Cells, Index, Draining, Copying
<1>9. Position(h)'
  <2>1. at'[h] = at[h] /\ hgen'[h] = hgen[h] /\ m'[h] = m[h]
    BY <1>3
  <2>2. hgen'[h] = msgtmp'.gen /\ at'[h] < Len(msgtmp'.cells) /\ at'[h] <= Len(msgtmp'.cells)
    BY <1>1, <1>2, <1>5, <2>1
  <2>3. msgtmp'.cells[at'[h] + 1] = m'[h]
    BY <1>5, <2>1
  <2>4. \/ msgtmp'.fin = at'[h]
        \/ /\ msgtmp'.fin = 0 /\ lpc' = "poll"
           /\ \A k \in 1 .. at'[h] : msgtmp'.cells[k] = Garbage
    BY <1>2, <1>3, <1>5, <1>6, <2>1
  <2> QED BY <1>3, <2>2, <2>3, <2>4 DEF Position
<1>10. Copied' = Copied
  BY <1>3 DEF Copied, Draining, Copying
<1>11. InOrder'
  BY <1>3, <1>5, <1>6, <1>7, <1>10, OrderKept DEF Single
<1> QED BY <1>8, <1>9, <1>11 DEF Single

\* A push_back that ends: the message counts as the last pushed.
LEMMA PushSingle ==
    ASSUME TypeOK, TypeOK', NEW h \in Handlers, Single(h), Pushed(h), hpc[h] # "read", NEW f \in Nat,
           UNCHANGED loopVars, msgtmp'.fin = f + 1, f + 1 <= Len(msgtmp'.cells), msgtmp.fin <= f + 1,
           msgtmp'.cells[f + 1] \in {m[h], Garbage},
           f = msgtmp.fin \/ \A k \in 1 .. f : msgtmp'.cells[k] = Garbage,
           \A k \in 1 .. f : msgtmp'.cells[k] # Garbage =>
             k \in 1 .. msgtmp.fin /\ msgtmp'.cells[k] = msgtmp.cells[k]
    PROVE  Single(h)'
<1>1. /\ Len(pushed') = Len(pushed) + 1
      /\ \A i \in 1 .. Len(pushed) : pushed'[i] = pushed[i]
      /\ pushed'[Len(pushed) + 1] = m[h]
  BY PushedAppends
<1>2. /\ Len(pushed) \in Nat /\ DOMAIN pushed = 1 .. Len(pushed) /\ DOMAIN pushed' = 1 .. Len(pushed')
      /\ msgtmp.fin \in Nat
  BY VectorParts, LenProperties DEF TypeOK
<1>3. /\ hpc'[h] = "read" /\ lpc' = lpc /\ end' = end /\ pos' = pos /\ taken' = taken
  BY DEF Pushed, loopVars, TypeOK
<1> DEFINE L == Len(pushed)
<1>a. L \in Nat /\ DOMAIN pushed = 1 .. L /\ DOMAIN pushed' = 1 .. L + 1
  BY <1>1, <1>2
<1>b. \A k : Index(k) = L - (msgtmp.fin - k)
  BY DEF Index
<1>c. \A k : Index(k)' = (L + 1) - ((f + 1) - k)
  BY <1>1 DEF Index
<1>d. /\ \A i \in 1 .. L : pushed'[i] = pushed[i]
      /\ pushed'[L + 1] = m[h]
  BY <1>1
<1> HIDE DEF L
\* What counted before keeps its position among the pushed.
<1>4. ASSUME NEW k \in 1 .. f, msgtmp'.cells[k] # Garbage
      PROVE  k \in 1 .. msgtmp.fin /\ msgtmp'.cells[k] = msgtmp.cells[k] /\ Index(k)' = Index(k)
  <2>1. k \in 1 .. msgtmp.fin /\ msgtmp'.cells[k] = msgtmp.cells[k] /\ f = msgtmp.fin
    BY <1>4
  <2>2. \A x, y, z \in Nat : (x + 1) - ((y + 1) - z) = x - (y - z)
    OBVIOUS
  <2>3. k \in Nat
    OBVIOUS
  <2>4. (L + 1) - ((f + 1) - k) = L - (f - k)
    BY <1>a, <2>2, <2>3, Zenon
  <2>5. Index(k)' = Index(k)
    BY <1>b, <1>c, <2>1, <2>4, Zenon
  <2> QED BY <2>1, <2>5
<1>5. Index(f + 1)' = L + 1
  <2>1. \A x, y \in Nat : (x + 1) - ((y + 1) - (y + 1)) = x + 1
    OBVIOUS
  <2> QED BY <1>a, <1>c, <2>1, Zenon
<1>6. Cells'
  <2>1. ASSUME NEW k \in 1 .. f + 1, msgtmp'.cells[k] # Garbage
        PROVE  Index(k)' \in DOMAIN pushed' /\ pushed'[Index(k)'] = msgtmp'.cells[k]
    <3>1. CASE k = f + 1
      <4>1. L + 1 \in 1 .. L + 1
        BY <1>2, <1>a, <1>d
      <4> QED BY <1>a, <1>d, <1>5, <2>1, <3>1, <4>1
    <3>2. CASE k # f + 1
      <4>1. k \in 1 .. f
        BY <3>2
      <4>2. k \in 1 .. msgtmp.fin /\ msgtmp'.cells[k] = msgtmp.cells[k] /\ Index(k)' = Index(k)
        BY <1>4, <2>1, <4>1
      <4>3. Index(k) \in DOMAIN pushed /\ pushed[Index(k)] = msgtmp.cells[k]
        BY <2>1, <4>2 DEF Single, Cells
      <4>4. Index(k) \in 1 .. L /\ Index(k) \in 1 .. L + 1
        BY <1>2, <1>a, <1>d, <4>3
      <4> QED BY <1>a, <1>d, <4>2, <4>3, <4>4
    <3> QED BY <3>1, <3>2
  <2>2. /\ Draining' => 0 < msgtmp'.fin
        /\ lpc' = "end" => pos' = 0
        /\ Copying' => pos' <= end' /\ end' <= msgtmp'.fin /\ 0 < end'
    <3>1. end \in Nat
      BY DEF TypeOK
    <3> QED BY <1>2, <1>a, <1>d, <1>3, <3>1 DEF Draining, Copying, Single, Cells
  <2> QED BY <2>1, <2>2 DEF Cells
<1>7. Position(h)'
  BY <1>3 DEF Position, Pushing
<1>8. InOrder'
  <2>1. PICK w \in [DOMAIN taken -> Nat] : Ordered(w)
    BY DEF Single, InOrder
  <2>2. Copied' = Copied /\ Copied \in Nat
    BY <1>3, CopiedType DEF Copied, Draining, Copying
  <2>3. ASSUME NEW i \in DOMAIN taken, taken[i] # Garbage
        PROVE  /\ w[i] \in DOMAIN pushed' /\ pushed'[w[i]] = taken[i]
               /\ \A k \in Copied + 1 .. f + 1 : msgtmp'.cells[k] # Garbage => w[i] < Index(k)'
    <3>1. w[i] \in 1 .. L /\ pushed[w[i]] = taken[i]
      BY <1>2, <1>a, <1>d, <2>1, <2>3 DEF Ordered
    <3>2. w[i] \in 1 .. L + 1
      BY <1>2, <1>a, <1>d, <3>1
    <3>3. ASSUME NEW k \in Copied + 1 .. f + 1, msgtmp'.cells[k] # Garbage PROVE w[i] < Index(k)'
      <4>1. CASE k = f + 1
        BY <1>2, <1>a, <1>d, <1>5, <3>1, <4>1
      <4>2. CASE k # f + 1
        <5>1. k \in 1 .. f
          BY <2>2, <4>2
        <5>2. k \in 1 .. msgtmp.fin /\ msgtmp'.cells[k] = msgtmp.cells[k] /\ Index(k)' = Index(k)
          BY <1>4, <3>3, <5>1
        <5>3. k \in Copied + 1 .. msgtmp.fin
          BY <1>2, <1>a, <1>d, <2>2, <5>2
        <5> QED BY <2>1, <2>3, <3>3, <5>2, <5>3 DEF Ordered
      <4> QED BY <4>1, <4>2
    <3> QED BY <1>a, <1>d, <3>1, <3>2, <3>3
  <2>4. Ordered(w)'
    <3> SUFFICES ASSUME NEW i \in DOMAIN taken, taken[i] # Garbage
                 PROVE  /\ w[i] \in DOMAIN pushed' /\ pushed'[w[i]] = taken[i]
                        /\ \A j \in DOMAIN taken : i < j /\ taken[j] # Garbage => w[i] < w[j]
                        /\ \A k \in Copied + 1 .. f + 1 : msgtmp'.cells[k] # Garbage => w[i] < Index(k)'
      BY <1>3, <2>2 DEF Ordered
    <3>1. \A j \in DOMAIN taken : i < j /\ taken[j] # Garbage => w[i] < w[j]
      BY <2>1 DEF Ordered
    <3> QED BY <2>3, <3>1
  <2> QED BY <1>3, <2>1, <2>4 DEF InOrder
<1> QED BY <1>6, <1>7, <1>8 DEF Single

LEMMA BumpSingle ==
    ASSUME TypeOK, TypeOK', NEW h \in Handlers, Single(h), Bump(h)
    PROVE  Single(h)'
<1>1. /\ msgtmp.fin \in Nat /\ Len(msgtmp.cells) \in Nat /\ msgtmp \in V!Vector(Msg) /\ at[h] \in Nat
  BY VectorParts DEF TypeOK
<1>2. /\ hpc[h] = "bump" /\ at[h] < Len(msgtmp.cells) /\ msgtmp.cells[at[h] + 1] = m[h]
      /\ \/ msgtmp.fin = at[h]
         \/ msgtmp.fin = 0 /\ \A k \in 1 .. at[h] : msgtmp.cells[k] = Garbage
  BY DEF Bump, Single, Position, Pushing
<1>3. PICK f \in {at[h], msgtmp.fin} : msgtmp' = V!StoreFinish(msgtmp, f + 1)
  BY DEF Bump
<1>4. f \in Nat /\ msgtmp'.fin = f + 1 /\ msgtmp'.cells = msgtmp.cells
  <2>1. f \in Nat /\ f + 1 \in Nat
    BY <1>1, <1>3
  <2>2. msgtmp' = [cells |-> msgtmp.cells, fin |-> f + 1, gen |-> msgtmp.gen]
    BY <1>1, <1>3, <2>1, StoreFinishType
  <2> QED BY <2>1, <2>2
<1>5. Pushed(h) /\ UNCHANGED loopVars /\ hpc[h] # "read"
  BY <1>2 DEF Bump, Pushed
<1>6. f + 1 <= Len(msgtmp'.cells) /\ msgtmp.fin <= f + 1
  BY <1>1, <1>2, <1>3, <1>4
\* The finish pointer it loaded may be the one from before the loop's clear.
<1>7. CASE f = at[h]
  <2>1. msgtmp'.cells[f + 1] \in {m[h], Garbage}
    BY <1>2, <1>4, <1>7
  <2>2. f = msgtmp.fin \/ \A k \in 1 .. f : msgtmp'.cells[k] = Garbage
    BY <1>2, <1>4, <1>7
  <2>3. \A k \in 1 .. f : msgtmp'.cells[k] # Garbage =>
          k \in 1 .. msgtmp.fin /\ msgtmp'.cells[k] = msgtmp.cells[k]
    BY <1>2, <1>4, <1>7
  <2> QED BY <1>4, <1>5, <1>6, <2>1, <2>2, <2>3, PushSingle
<1>8. CASE f # at[h]
  <2>1. f = 0 /\ msgtmp.fin = 0 /\ f + 1 \in 1 .. at[h]
    BY <1>1, <1>2, <1>3, <1>8
  <2>2. msgtmp'.cells[f + 1] \in {m[h], Garbage}
    BY <1>2, <1>4, <1>8, <1>3, <2>1
  <2>3. f = msgtmp.fin \/ \A k \in 1 .. f : msgtmp'.cells[k] = Garbage
    BY <2>1
  <2>4. \A k \in 1 .. f : msgtmp'.cells[k] # Garbage =>
          k \in 1 .. msgtmp.fin /\ msgtmp'.cells[k] = msgtmp.cells[k]
    BY <2>1
  <2> QED BY <1>4, <1>5, <1>6, <2>2, <2>3, <2>4, PushSingle
<1> QED BY <1>7, <1>8

LEMMA GrowSingle ==
    ASSUME TypeOK, TypeOK', NEW h \in Handlers, Single(h), Grow(h)
    PROVE  Single(h)'
<1>1. /\ msgtmp.fin \in Nat /\ Len(msgtmp.cells) \in Nat /\ msgtmp \in V!Vector(Msg) /\ at[h] \in Nat
      /\ m[h] \in String /\ DOMAIN msgtmp.cells = 1 .. Len(msgtmp.cells)
  BY VectorParts DEF TypeOK, String
<1>2. /\ hpc[h] = "grow" /\ hgen[h] = msgtmp.gen /\ at[h] <= Len(msgtmp.cells)
      /\ \/ msgtmp.fin = at[h]
         \/ msgtmp.fin = 0 /\ \A k \in 1 .. at[h] : msgtmp.cells[k] = Garbage
  BY DEF Grow, Single, Position, Pushing
<1>3. msgtmp' = V!Grow(msgtmp, at[h], m[h])
  BY <1>2 DEF Grow
<1>0. PICK f \in Nat : f = at[h]
  BY <1>1
<1>4. /\ f \in Nat /\ msgtmp'.fin = f + 1 /\ Len(msgtmp'.cells) >= f + 1
      /\ \A i \in 1 .. f : msgtmp'.cells[i] = V!Cell(msgtmp, i)
      /\ msgtmp'.cells[f + 1] \in {m[h], Garbage}
  <2> DEFINE v == V!Grow(msgtmp, f, m[h])
  <2>1. f \in Nat /\ msgtmp' = v
    BY <1>0, <1>3
  <2>2. \A u \in V!Vector(Msg), k \in Nat, x \in String :
          V!Grow(u, k, x).fin = k + 1 /\ V!Grow(u, k, x).cells[k + 1] = x
    BY GrowType
  <2>3. \A u \in V!Vector(Msg), k \in Nat, x \in String :
          /\ Len(V!Grow(u, k, x).cells) >= k + 1
          /\ \A i \in 1 .. k : V!Grow(u, k, x).cells[i] = V!Cell(u, i)
    BY GrowType
  <2>4. /\ v.fin = f + 1 /\ v.cells[f + 1] = m[h] /\ Len(v.cells) >= f + 1
        /\ \A i \in 1 .. f : v.cells[i] = V!Cell(msgtmp, i)
    BY <1>1, <2>2, <2>3, Zenon
  <2> HIDE DEF v
  <2> QED BY <2>1, <2>4
<1>5. \A i \in 1 .. f : msgtmp'.cells[i] = msgtmp.cells[i]
  BY <1>0, <1>1, <1>2, <1>4 DEF V!Cell
<1>6. Pushed(h) /\ UNCHANGED loopVars /\ hpc[h] # "read"
  BY <1>2 DEF Grow, Pushed
<1>7. msgtmp.fin <= f + 1 /\ f + 1 <= Len(msgtmp'.cells)
  <2>1. Len(msgtmp'.cells) \in Nat
    BY VectorParts DEF TypeOK
  <2> QED BY <1>0, <1>1, <1>2, <1>4, <2>1
<1>8. f = msgtmp.fin \/ \A k \in 1 .. f : msgtmp'.cells[k] = Garbage
  BY <1>0, <1>2, <1>5
<1>9. \A k \in 1 .. f : msgtmp'.cells[k] # Garbage =>
        k \in 1 .. msgtmp.fin /\ msgtmp'.cells[k] = msgtmp.cells[k]
  BY <1>0, <1>2, <1>5
<1> QED BY <1>4, <1>6, <1>7, <1>8, <1>9, PushSingle

LEMMA AnswerSingle ==
    ASSUME TypeOK, NEW h \in Handlers, NEW g \in Handlers, Single(h), Answer(g)
    PROVE  Single(h)'
<1>1. UNCHANGED <<msgtmp, hpc, m, at, hgen, taken, pushed, lpc, end, pos>>
  BY DEF Answer, loopVars
<1>2. Cells' /\ Position(h)'
  BY <1>1 DEF Single, Cells, Position, Index, Draining, Copying, Pushing
<1>3. Copied' = Copied
  BY <1>1 DEF Copied, Draining, Copying
<1>4. InOrder'
  BY <1>1, <1>3, OrderKept DEF Single
<1> QED BY <1>2, <1>4 DEF Single

LEMMA PollSingle ==
    ASSUME TypeOK, NEW h \in Handlers, Single(h), Poll
    PROVE  Single(h)'
<1>1. /\ lpc = "poll" /\ msgtmp.fin # 0 /\ lpc' = "end" /\ pos' = 0
      /\ UNCHANGED <<msgtmp, hpc, m, at, hgen, taken, pushed>>
  BY DEF Poll, NotEmpty, handlerVars
<1>2. msgtmp.fin \in Nat
  BY VectorParts DEF TypeOK
<1>3. Cells'
  BY <1>1, <1>2 DEF Single, Cells, Index, Draining, Copying
<1>4. Position(h)'
  BY <1>1 DEF Single, Position, Pushing
<1>5. Copied' = Copied
  BY <1>1 DEF Copied, Draining, Copying
<1>6. InOrder'
  BY <1>1, <1>5, OrderKept DEF Single
<1> QED BY <1>3, <1>4, <1>6 DEF Single

LEMMA PollEndSingle ==
    ASSUME TypeOK, NEW h \in Handlers, Single(h), PollEnd
    PROVE  Single(h)'
<1>1. /\ lpc = "end" /\ lpc' = "copy" /\ end' = msgtmp.fin
      /\ UNCHANGED <<msgtmp, hpc, m, at, hgen, pos, taken, pushed>>
  BY DEF PollEnd, handlerVars
<1>2. msgtmp.fin \in Nat
  BY VectorParts DEF TypeOK
<1>3. Cells'
  BY <1>1, <1>2 DEF Single, Cells, Index, Draining, Copying
<1>4. Position(h)'
  BY <1>1 DEF Single, Position, Pushing
<1>5. Copied' = Copied
  BY <1>1 DEF Copied, Copying, Single, Cells
<1>6. InOrder'
  BY <1>1, <1>5, OrderKept DEF Single
<1> QED BY <1>3, <1>4, <1>6 DEF Single

\* The string copied next is later than all that were taken.
LEMMA CopySingle ==
    ASSUME TypeOK, NEW h \in Handlers, Single(h), Copy
    PROVE  Single(h)'
<1> DEFINE x == IF lgen = msgtmp.gen THEN V!Cell(msgtmp, pos + 1) ELSE Garbage
           L == Len(taken)
           new == IF x # Garbage THEN Index(pos + 1) ELSE 0
<1>1. /\ lpc = "copy" /\ lpc' = "copy" /\ pos < end /\ pos' = pos + 1 /\ taken' = Append(taken, x)
      /\ UNCHANGED <<msgtmp, hpc, m, at, hgen, end, pushed>>
  BY DEF Copy, handlerVars
<1>2. /\ msgtmp.fin \in Nat /\ Len(msgtmp.cells) \in Nat /\ pos \in Nat /\ end \in Nat
      /\ DOMAIN msgtmp.cells = 1 .. Len(msgtmp.cells)
  BY VectorParts DEF TypeOK
<1>3. end <= msgtmp.fin /\ msgtmp.fin <= Len(msgtmp.cells)
  BY <1>1 DEF Single, Cells, Draining, Copying
<1>4. Cells'
  BY <1>1, <1>2 DEF Single, Cells, Index, Draining, Copying
<1>5. Position(h)'
  BY <1>1 DEF Single, Position, Pushing
<1>6. Copied = pos /\ Copied' = pos + 1
  BY <1>1 DEF Copied, Draining, Copying
<1>7. pos + 1 \in 1 .. msgtmp.fin /\ pos + 1 \in 1 .. Len(msgtmp.cells) /\ pos + 1 \in pos + 1 .. msgtmp.fin
  BY <1>1, <1>2, <1>3
<1>8. x # Garbage => /\ msgtmp.cells[pos + 1] # Garbage /\ Index(pos + 1) \in DOMAIN pushed
                     /\ pushed[Index(pos + 1)] = x
  <2>1. x # Garbage => x = msgtmp.cells[pos + 1]
    BY <1>2, <1>7 DEF V!Cell
  <2> HIDE DEF x
  <2> QED BY <2>1, <1>7 DEF Single, Cells
<1>9. x \in String
  BY CellType DEF TypeOK, String
<1>10. new \in Nat
  <2>1. DOMAIN pushed = 1 .. Len(pushed) /\ Len(pushed) \in Nat
    BY LenProperties DEF TypeOK
  <2> HIDE DEF x
  <2> QED BY <1>8, <2>1
<1> HIDE DEF x
<1>11. /\ L \in Nat /\ DOMAIN taken = 1 .. L /\ DOMAIN taken' = 1 .. L + 1
       /\ \A i \in 1 .. L : taken'[i] = taken[i]
       /\ taken'[L + 1] = x
  BY <1>1, <1>9, LenProperties, AppendProperties DEF TypeOK, String
<1>12. x # Garbage => new = Index(pos + 1)
  OBVIOUS
<1> HIDE DEF L, new
<1>13. InOrder'
  <2>1. PICK f \in [DOMAIN taken -> Nat] : Ordered(f)
    BY DEF Single, InOrder
  <2>2. PICK g \in [DOMAIN taken' -> Nat] : g[L + 1] = new /\ \A i \in 1 .. L : g[i] = f[i]
    <3> DEFINE G == [i \in 1 .. L + 1 |-> IF i = L + 1 THEN new ELSE f[i]]
    <3>1. G \in [DOMAIN taken' -> Nat]
      BY <1>10, <1>11, <2>1
    <3>2. G[L + 1] = new /\ \A i \in 1 .. L : G[i] = f[i]
      BY <1>11
    <3> HIDE DEF G
    <3> QED BY <3>1, <3>2
  <2>3. g[L + 1] = new /\ \A i \in 1 .. L : g[i] = f[i]
    BY <2>2
  <2>4. \A i \in 1 .. L + 1 : i \in 1 .. L \/ i = L + 1
    BY <1>11
  <2>5. ASSUME NEW i \in 1 .. L, taken[i] # Garbage
        PROVE  /\ g[i] \in DOMAIN pushed /\ pushed[g[i]] = taken'[i]
               /\ \A j \in 1 .. L + 1 : i < j /\ taken'[j] # Garbage => g[i] < g[j]
               /\ \A k \in pos + 1 + 1 .. msgtmp.fin : msgtmp.cells[k] # Garbage => g[i] < Index(k)
    <3>1. /\ f[i] \in DOMAIN pushed /\ pushed[f[i]] = taken[i]
          /\ \A j \in 1 .. L : i < j /\ taken[j] # Garbage => f[i] < f[j]
          /\ \A k \in pos + 1 .. msgtmp.fin : msgtmp.cells[k] # Garbage => f[i] < Index(k)
      BY <1>6, <1>11, <2>1, <2>5 DEF Ordered
    <3>2. x # Garbage => f[i] < new
      BY <1>7, <1>8, <1>12, <3>1
    <3>3. \A j \in 1 .. L + 1 : i < j /\ taken'[j] # Garbage => g[i] < g[j]
      BY <1>11, <2>3, <2>4, <3>1, <3>2
    <3>4. \A k \in pos + 1 + 1 .. msgtmp.fin : k \in pos + 1 .. msgtmp.fin
      BY <1>2
    <3> QED BY <1>11, <2>3, <3>1, <3>3, <3>4
  <2>6. ASSUME x # Garbage
        PROVE  /\ new \in DOMAIN pushed /\ pushed[new] = x
               /\ \A k \in pos + 1 + 1 .. msgtmp.fin : msgtmp.cells[k] # Garbage => new < Index(k)
    <3>1. ASSUME NEW k \in pos + 1 + 1 .. msgtmp.fin PROVE Index(pos + 1) < Index(k)
      <4>1. Len(pushed) \in Nat
        BY LenProperties DEF TypeOK
      <4>2. \A a, b, c, d \in Nat : c < d => a - (b - c) < a - (b - d)
        OBVIOUS
      <4>3. pos + 1 \in Nat /\ k \in Nat /\ pos + 1 < k
        BY <1>2
      <4>4. Len(pushed) - (msgtmp.fin - (pos + 1)) < Len(pushed) - (msgtmp.fin - k)
        BY <1>2, <4>1, <4>2, <4>3, Zenon
      <4> QED BY <4>4, Zenon DEF Index
    <3> QED BY <1>8, <1>12, <2>6, <3>1
  <2>7. Ordered(g)'
    <3> SUFFICES ASSUME NEW i \in 1 .. L + 1, taken'[i] # Garbage
                 PROVE  /\ g[i] \in DOMAIN pushed /\ pushed[g[i]] = taken'[i]
                        /\ \A j \in 1 .. L + 1 : i < j /\ taken'[j] # Garbage => g[i] < g[j]
                        /\ \A k \in pos + 1 + 1 .. msgtmp.fin : msgtmp.cells[k] # Garbage => g[i] < Index(k)
      <4>1. pushed' = pushed /\ msgtmp' = msgtmp /\ \A k : Index(k)' = Index(k)
        BY <1>1 DEF Index
      <4> QED BY <1>6, <1>11, <4>1 DEF Ordered
    <3>1. CASE i \in 1 .. L
      BY <1>11, <2>5, <3>1
    <3>2. CASE i = L + 1
      <4>1. \A j \in 1 .. L + 1 : ~(i < j)
        BY <1>11, <3>2
      <4> QED BY <1>11, <2>3, <2>6, <3>2, <4>1
    <3> QED BY <2>4, <3>1, <3>2
  <2> QED BY <2>2, <2>7 DEF InOrder
<1> QED BY <1>4, <1>5, <1>13 DEF Single

\* After a clear under a push, nothing is left in front of the pushed string.
LEMMA ClearSingle ==
    ASSUME TypeOK, NEW h \in Handlers, Single(h), Clear
    PROVE  Single(h)'
<1>1. /\ lpc = "copy" /\ lpc' = "poll" /\ msgtmp' = V!Clear(msgtmp)
      /\ UNCHANGED <<hpc, m, at, hgen, taken, pushed>>
  BY DEF Clear, handlerVars
<1>2. /\ msgtmp.fin \in Nat /\ Len(msgtmp.cells) \in Nat /\ msgtmp \in V!Vector(Msg)
      /\ DOMAIN msgtmp.cells = 1 .. Len(msgtmp.cells) /\ at[h] \in Nat
  BY VectorParts DEF TypeOK
<1>3. msgtmp'.fin = 0 /\ msgtmp'.gen = msgtmp.gen /\ Len(msgtmp'.cells) = Len(msgtmp.cells)
  BY <1>1, <1>2, ClearType
<1>4. /\ \A k \in 1 .. Len(msgtmp.cells) : k <= msgtmp.fin => msgtmp'.cells[k] = Garbage
      /\ \A k \in 1 .. Len(msgtmp.cells) : ~(k <= msgtmp.fin) => msgtmp'.cells[k] = msgtmp.cells[k]
  <2>1. msgtmp'.cells = V!Destroyed(msgtmp)
    BY <1>1, <1>2 DEF V!Clear, V!Vector
  <2> QED BY <1>2, <2>1 DEF V!Destroyed
<1>5. Cells'
  BY <1>1, <1>2, <1>3 DEF Cells, Draining, Copying
<1>6. Position(h)'
  <2>1. ASSUME Pushing(h)
        PROVE  /\ hgen[h] = msgtmp'.gen /\ at[h] <= Len(msgtmp'.cells)
               /\ \A k \in 1 .. at[h] : msgtmp'.cells[k] = Garbage
    <3>1. hgen[h] = msgtmp.gen /\ at[h] <= Len(msgtmp.cells) /\ msgtmp.fin = at[h]
      BY <1>1, <2>1 DEF Single, Position
    <3>2. \A k \in 1 .. at[h] : k \in 1 .. Len(msgtmp.cells) /\ k <= msgtmp.fin
      BY <1>2, <3>1
    <3> QED BY <1>3, <1>4, <3>1, <3>2
  <2>2. ASSUME hpc[h] \in {"build", "bump"}
        PROVE  at[h] < Len(msgtmp'.cells) /\ (hpc[h] = "bump" => msgtmp'.cells[at[h] + 1] = m[h])
    <3>1. msgtmp.fin = at[h] /\ at[h] < Len(msgtmp.cells) /\ (hpc[h] = "bump" => msgtmp.cells[at[h] + 1] = m[h])
      BY <1>1, <2>2 DEF Single, Position, Pushing
    <3>2. at[h] + 1 \in 1 .. Len(msgtmp.cells) /\ ~(at[h] + 1 <= msgtmp.fin)
      BY <1>2, <3>1
    <3> QED BY <1>3, <1>4, <3>1, <3>2
  <2> QED BY <1>1, <1>3, <2>1, <2>2 DEF Position, Pushing
<1>7. InOrder'
  <2>1. PICK f \in [DOMAIN taken -> Nat] : Ordered(f)
    BY DEF Single, InOrder
  <2>2. \A k \in Copied' + 1 .. msgtmp'.fin : FALSE
    BY <1>1, <1>3 DEF Copied, Draining, Copying
  <2>3. Ordered(f)'
    BY <1>1, <2>1, <2>2 DEF Ordered
  <2> QED BY <1>1, <2>1, <2>3 DEF InOrder
<1> QED BY <1>5, <1>6, <1>7 DEF Single
-----------------------------------------------------------------------------
LEMMA FeedNext == TypeOK /\ TypeOK' /\ FeedInv /\ [Next]_vars => FeedInv'
<1> SUFFICES ASSUME TypeOK, TypeOK', FeedInv, [Next]_vars PROVE FeedInv'
  OBVIOUS
<1>1. Fed'
  BY FedStep DEF FeedInv
<1>2. ASSUME NEW h \in Handlers, OneFeedBy(h)', Next PROVE Single(h)'
  <2>1. OneFeedBy(h) /\ (Loop \/ PutMessages(h) \/ \E g \in Handlers : Answer(g))
    BY <1>2, OnlyFeeder DEF FeedInv
  <2>2. Single(h)
    BY <2>1 DEF FeedInv, Single
  <2>3. CASE Loop
    BY <2>2, <2>3, PollSingle, PollEndSingle, CopySingle, ClearSingle DEF Loop
  <2>4. CASE PutMessages(h)
    BY <2>2, <2>4, ReadSingle, LoadSingle, BuildSingle, BumpSingle, GrowSingle, AnswerSingle
       DEF PutMessages
  <2>5. CASE \E g \in Handlers : Answer(g)
    BY <2>2, <2>5, AnswerSingle
  <2> QED BY <2>1, <2>3, <2>4, <2>5
<1>3. ASSUME NEW h \in Handlers, OneFeedBy(h)', UNCHANGED vars PROVE Single(h)'
  <2>1. OneFeedBy(h)
    BY <1>3 DEF vars, handlerVars, OneFeedBy
  <2>2. Single(h)
    BY <2>1 DEF FeedInv, Single
  <2>3. UNCHANGED <<msgtmp, hpc, m, at, hgen, taken, pushed, lpc, end, pos>>
    BY <1>3 DEF vars, handlerVars, loopVars
  <2>4. Cells' /\ Position(h)'
    BY <2>2, <2>3 DEF Single, Cells, Position, Index, Draining, Copying, Pushing
  <2>5. Copied' = Copied
    BY <2>3 DEF Copied, Draining, Copying
  <2>6. InOrder'
    BY <2>2, <2>3, <2>5, OrderKept DEF Single
  <2> QED BY <2>4, <2>6 DEF Single
<1> QED BY <1>1, <1>2, <1>3 DEF FeedInv, Single

LEMMA FeedImplies == TypeOK /\ FeedInv => OneFeedInOrder
<1> SUFFICES ASSUME TypeOK, FeedInv, NEW h \in Handlers, OneFeedBy(h),
                    NEW i \in DOMAIN taken, NEW j \in DOMAIN taken,
                    taken[i] # Garbage, taken[j] # Garbage, i < j
             PROVE  \E k, l \in DOMAIN pushed : k < l /\ pushed[k] = taken[i] /\ pushed[l] = taken[j]
  BY DEF OneFeedInOrder
<1>1. PICK f \in [DOMAIN taken -> Nat] : Ordered(f)
  BY DEF FeedInv, InOrder
<1>2. /\ f[i] \in DOMAIN pushed /\ f[j] \in DOMAIN pushed
      /\ f[i] < f[j] /\ pushed[f[i]] = taken[i] /\ pushed[f[j]] = taken[j]
  BY <1>1 DEF Ordered
<1> QED BY <1>2

LEMMA FeedSafe == Init /\ [][Next]_vars => []OneFeedInOrder
BY TypeSafe, FedInit, FeedNext, FeedImplies, PTL

\* For any handlers, messages and arrivals, and whatever the scheduling: while
\* one handler alone feeds the node, the loop never takes a message twice or
\* out of order.
THEOREM OneFeedCorrect == Spec => []OneFeedInOrder
BY FeedSafe, PTL DEF Spec
-----------------------------------------------------------------------------
\* Every step of the mailbox is a step of the queue or leaves the queue alone.
LEMMA QueueStep == [MailboxNext]_mailboxVars => [Next]_vars
<1> SUFFICES ASSUME [MailboxNext]_mailboxVars PROVE [Next]_vars
  OBVIOUS
<1>1. CASE MainLoop
  BY <1>1 DEF MainLoop, Store, Turn, Next, Loop
<1>2. ASSUME NEW h \in Handlers, Handler(h) PROVE [Next]_vars
  BY <1>2 DEF Handler, Next
<1>3. ASSUME NEW c \in Clients, DumpMessages(c) PROVE [Next]_vars
  <2>1. UNCHANGED vars
    BY <1>3 DEF DumpMessages, Call, Begin, End, Walk, Finish
  <2> QED BY <2>1
<1>4. CASE UNCHANGED mailboxVars
  BY <1>4 DEF mailboxVars
<1> QED
  BY <1>1, <1>2, <1>3, <1>4 DEF MailboxNext

LEMMA MailboxIsQueue == MailboxSpec => Init /\ [][Next]_vars
<1>1. MailboxInit => Init
  BY DEF MailboxInit
<1>2. [MailboxNext]_mailboxVars => [Next]_vars
  BY QueueStep
<1> QED BY <1>1, <1>2, PTL DEF MailboxSpec

\* Inside a mailbox, too: whatever outbox and its readers do, the hand-off
\* through msgtmp is an exact queue as long as no accesses to msgtmp overlap.
THEOREM MailboxFifo == MailboxSpec => [](TypeOK /\ FifoUnlessRaced)
BY MailboxIsQueue, TypeSafe, FifoSafe, PTL

\* And a mailbox that one handler alone feeds stores no message twice and none
\* out of order.
THEOREM MailboxOneFeed == MailboxSpec => []OneFeedInOrder
BY MailboxIsQueue, FeedSafe, PTL
-----------------------------------------------------------------------------
(***************************************************************************)
(* The inductive invariant behind CleanDumpIsSnapshot: outbox holds what   *)
(* the loop has taken, string by string, and a dump that has not been      *)
(* spoiled walks the storage outbox is in now.                             *)
(***************************************************************************)
OutboxIsTaken ==
    /\ outbox.fin = Len(taken) /\ outbox.fin <= Len(outbox.cells)
    /\ \A k \in 1 .. outbox.fin : outbox.cells[k] = taken[k]

Prefix(c) == /\ Len(data[c]) <= Len(taken)
             /\ \A k \in 1 .. Len(data[c]) : data[c][k] = taken[k]

Dump(c) ==
    /\ dpc[c] \in {"call", "begin", "end"} => data[c] = <<>>
    /\ Walking(c) => outbox.fin > 0 /\ atCall[c] <= outbox.fin
    /\ dpc[c] \in {"end", "walk"} /\ ~spoiled[c] => bgen[c] = outbox.gen
    /\ dpc[c] = "end" => visited[c] = 0
    /\ dpc[c] = "walk" => /\ atCall[c] <= stop[c] /\ stop[c] <= outbox.fin
                          /\ visited[c] <= stop[c] /\ Len(data[c]) = visited[c]
                          /\ stop[c] > 0
    /\ dpc[c] \in {"walk", "done"} /\ ~spoiled[c] => Prefix(c)
    /\ dpc[c] = "done" /\ Up => Len(data[c]) >= atCall[c]

Snapshot == OutboxTypeOK /\ OutboxIsTaken /\ \A c \in Clients : Dump(c)

LEMMA SnapshotInit == MailboxInit => Snapshot
<1> SUFFICES ASSUME MailboxInit PROVE Snapshot
  OBVIOUS
<1>1. outbox \in V!Vector(Msg) /\ outbox.fin = 0 /\ outbox.cells = <<>>
  BY DEF MailboxInit, V!NoStrings, V!Vector
<1>2. OutboxTypeOK
  <2>1. data \in [Clients -> Seq(Msg \cup {Garbage})]
    BY EmptySeq DEF MailboxInit
  <2>2. /\ dpc \in [Clients -> {"call", "begin", "end", "walk", "done"}]
        /\ \A c \in Clients : dpc[c] = "call"
    BY DEF MailboxInit
  <2>3. spoiled \in [Clients -> BOOLEAN] /\ killed \in BOOLEAN
    BY DEF MailboxInit
  <2>4. /\ bgen \in [Clients -> Nat] /\ visited \in [Clients -> Nat]
        /\ stop \in [Clients -> Nat] /\ atCall \in [Clients -> Nat]
    BY DEF MailboxInit
  <2> QED BY <1>1, <2>1, <2>2, <2>3, <2>4 DEF OutboxTypeOK
<1>3. OutboxIsTaken
  <2>1. taken = <<>> /\ Len(taken) = 0 /\ Len(outbox.cells) = 0
    BY <1>1, EmptySeq DEF MailboxInit, Init
  <2>2. 1 .. outbox.fin = {}
    BY <1>1
  <2> QED BY <1>1, <2>1, <2>2 DEF OutboxIsTaken
<1>4. ASSUME NEW c \in Clients PROVE Dump(c)
  <2>1. dpc[c] = "call" /\ data[c] = <<>>
    BY DEF MailboxInit
  <2> QED BY <2>1 DEF Dump, Walking
<1> QED BY <1>2, <1>3, <1>4 DEF Snapshot

LEMMA PushBackType ==
    ASSUME NEW v \in V!Vector(Msg), v.fin <= Len(v.cells), NEW x \in String
    PROVE  /\ PushBack(v, x) \in V!Vector(Msg)
           /\ PushBack(v, x).fin = v.fin + 1
           /\ v.fin + 1 <= Len(PushBack(v, x).cells)
           /\ PushBack(v, x).cells[v.fin + 1] = x
           /\ \A k \in 1 .. v.fin : PushBack(v, x).cells[k] = v.cells[k]
<1>1. v.fin \in Nat /\ Len(v.cells) \in Nat /\ DOMAIN v.cells = 1 .. Len(v.cells)
  BY LenProperties DEF V!Vector
<1>2. CASE V!IsFull(v)
  <2>1. PushBack(v, x) = V!Grow(v, v.fin, x)
    BY <1>2 DEF PushBack
  <2>2. \A k \in 1 .. v.fin : V!Cell(v, k) = v.cells[k]
    BY <1>1 DEF V!Cell
  <2> DEFINE n == v.fin
             w == V!Grow(v, n, x)
  <2>3. n \in Nat
    BY <1>1
  <2> HIDE DEF n
  <2>4. w \in V!Vector(Msg) /\ w.fin = n + 1
    BY <2>3, GrowType
  <2>5. Len(w.cells) >= n + 1 /\ w.cells[n + 1] = x
    BY <2>3, GrowType
  <2>6. \A k \in 1 .. n : w.cells[k] = V!Cell(v, k)
    BY <2>3, GrowType
  <2>7. Len(w.cells) \in Nat
    BY <2>4, LenProperties DEF V!Vector
  <2> HIDE DEF w
  <2> QED BY <2>1, <2>2, <2>3, <2>4, <2>5, <2>6, <2>7 DEF w, n
<1>3. CASE ~V!IsFull(v)
  <2> DEFINE w == V!Build(v, v.fin + 1, x)
  <2>1. v.fin + 1 \in 1 .. Len(v.cells)
    BY <1>1, <1>3 DEF V!IsFull
  <2>2. w \in V!Vector(Msg) /\ Len(w.cells) = Len(v.cells)
    BY <2>1, BuildType
  <2>3. w.cells[v.fin + 1] = x
    BY <2>1, BuildType
  <2>4. \A k \in 1 .. Len(v.cells) \ {v.fin + 1} : w.cells[k] = v.cells[k]
    BY <2>1, BuildType
  <2>5. PushBack(v, x) = V!StoreFinish(w, v.fin + 1)
    BY <1>3 DEF PushBack
  <2> HIDE DEF w
  <2>a. \A u \in V!Vector(Msg), n \in Nat :
          /\ V!StoreFinish(u, n) \in V!Vector(Msg)
          /\ V!StoreFinish(u, n) = [cells |-> u.cells, fin |-> n, gen |-> u.gen]
    BY StoreFinishType
  <2>b. v.fin + 1 \in Nat
    BY <1>1
  <2>6. /\ V!StoreFinish(w, v.fin + 1) \in V!Vector(Msg)
        /\ V!StoreFinish(w, v.fin + 1) = [cells |-> w.cells, fin |-> v.fin + 1, gen |-> w.gen]
    BY <2>2, <2>a, <2>b, Zenon
  <2>7. \A k \in 1 .. v.fin : w.cells[k] = v.cells[k]
    BY <1>1, <2>1, <2>4
  <2> QED BY <1>1, <2>1, <2>2, <2>3, <2>5, <2>6, <2>7
<1> QED BY <1>2, <1>3

\* A client whose call does not move keeps its part of the invariant.
LEMMA DumpKept ==
    ASSUME NEW c \in Clients, Dump(c),
           dpc'[c] = dpc[c], bgen'[c] = bgen[c], visited'[c] = visited[c],
           stop'[c] = stop[c], data'[c] = data[c], atCall'[c] = atCall[c],
           spoiled'[c] = spoiled[c], outbox' = outbox, taken' = taken,
           Up' => Up
    PROVE  Dump(c)'
BY DEF Dump, Walking, Prefix

LEMMA SnapshotStep ==
    TypeOK /\ TypeOK' /\ Snapshot /\ [MailboxNext]_mailboxVars => Snapshot'
<1> SUFFICES ASSUME TypeOK, TypeOK', Snapshot, [MailboxNext]_mailboxVars
             PROVE  Snapshot'
  OBVIOUS
<1>s. OutboxTypeOK /\ OutboxIsTaken /\ \A c \in Clients : Dump(c)
  BY DEF Snapshot
<1>n. /\ outbox.fin \in Nat /\ Len(outbox.cells) \in Nat /\ outbox.gen \in Nat
      /\ taken \in Seq(String) /\ Len(taken) \in Nat
      /\ \A c \in Clients : /\ data[c] \in Seq(String) /\ Len(data[c]) \in Nat
                             /\ atCall[c] \in Nat /\ stop[c] \in Nat /\ visited[c] \in Nat
  BY <1>s, LenProperties DEF TypeOK, OutboxTypeOK, V!Vector, String
\* outbox grows by the string the loop takes
<1>1. CASE Store
  <2>1. PICK x \in String : taken' = Append(taken, x)
    BY <1>1, CellType DEF Store, Copy, TypeOK, String
  <2>2. /\ Len(taken') = Len(taken) + 1 /\ taken'[Len(taken) + 1] = x
        /\ \A k \in 1 .. Len(taken) : taken'[k] = taken[k]
    BY <1>n, <2>1, AppendProperties
  <2>3. outbox' = PushBack(outbox, x)
    BY <1>1, <2>2 DEF Store
  <2>4. outbox \in V!Vector(Msg) /\ outbox.fin <= Len(outbox.cells)
    BY <1>s DEF OutboxTypeOK, OutboxIsTaken
  <2>5. /\ outbox' \in V!Vector(Msg) /\ outbox'.fin = outbox.fin + 1
        /\ outbox.fin + 1 <= Len(outbox'.cells)
    BY <2>3, <2>4, PushBackType
  <2>6. /\ outbox'.cells[outbox.fin + 1] = x
        /\ \A k \in 1 .. outbox.fin : outbox'.cells[k] = outbox.cells[k]
    BY <2>3, <2>4, PushBackType
  <2>7. UNCHANGED callVars /\ (Up' => Up)
    BY <1>1 DEF Store, Copy, Up, callVars
  <2>8. spoiled' = [c \in Clients |->
                      spoiled[c] \/ (Walking(c) /\ outbox'.gen # outbox.gen)]
    BY <1>1 DEF Store
  <2>9. OutboxTypeOK'
    <3>1. spoiled' \in [Clients -> BOOLEAN]
      BY <1>s, <2>8 DEF OutboxTypeOK
    <3> QED BY <1>s, <2>5, <2>7, <3>1 DEF OutboxTypeOK, callVars
  <2>10. OutboxIsTaken'
    <3>1. ASSUME NEW k \in 1 .. outbox'.fin PROVE outbox'.cells[k] = taken'[k]
      <4>1. k = outbox.fin + 1 \/ k \in 1 .. outbox.fin
        BY <1>n, <2>5
      <4>2. outbox.fin = Len(taken)
        BY <1>s DEF OutboxIsTaken
      <4> QED BY <1>s, <2>2, <2>6, <4>1, <4>2 DEF OutboxIsTaken
    <3> QED BY <1>s, <2>2, <2>5, <3>1 DEF OutboxIsTaken
  <2>11. ASSUME NEW c \in Clients PROVE Dump(c)'
    <3>1. Dump(c)
      BY <1>s
    <3>2. /\ dpc'[c] = dpc[c] /\ bgen'[c] = bgen[c] /\ visited'[c] = visited[c]
          /\ stop'[c] = stop[c] /\ data'[c] = data[c] /\ atCall'[c] = atCall[c]
      BY <2>7 DEF callVars
    <3>3. /\ ~spoiled'[c] => ~spoiled[c]
          /\ ~spoiled'[c] /\ Walking(c) => outbox'.gen = outbox.gen
      BY <2>8
    <3>4. Prefix(c) => Prefix(c)'
      <4> SUFFICES ASSUME Prefix(c) PROVE Prefix(c)'
        OBVIOUS
      <4>1. Len(data[c]) <= Len(taken) + 1
        BY <1>n DEF Prefix
      <4>2. \A k \in 1 .. Len(data[c]) : k \in 1 .. Len(taken)
        BY <1>n DEF Prefix
      <4> QED BY <2>2, <3>2, <4>1, <4>2 DEF Prefix
    <3>5. /\ atCall[c] <= outbox.fin => atCall[c] <= outbox'.fin
          /\ stop[c] <= outbox.fin => stop[c] <= outbox'.fin
          /\ outbox'.fin > 0
      BY <1>n, <2>5
    <3> QED BY <2>7, <3>1, <3>2, <3>3, <3>4, <3>5 DEF Dump, Walking
  <2> QED BY <2>9, <2>10, <2>11 DEF Snapshot
\* the other steps of the node leave outbox and the clients alone
<1>2. ASSUME UNCHANGED <<taken, outbox, callVars, spoiled>>, Up' => Up
      PROVE  Snapshot'
  <2>1. OutboxTypeOK'
    BY <1>s, <1>2 DEF OutboxTypeOK, callVars
  <2>2. OutboxIsTaken'
    BY <1>s, <1>2 DEF OutboxIsTaken
  <2>3. ASSUME NEW c \in Clients PROVE Dump(c)'
    BY <1>s, <1>2, DumpKept DEF callVars
  <2> QED BY <2>1, <2>2, <2>3 DEF Snapshot
<1>3. CASE Turn
  BY <1>2, <1>3 DEF Turn, Poll, PollEnd, Clear, Up
<1>4. ASSUME NEW h \in Handlers, Handler(h) PROVE Snapshot'
  BY <1>2, <1>4
     DEF Handler, PutMessages, Read, Load, Build, Bump, Grow, Pushed, Answer, Up, loopVars
\* a step of one client
<1>5. ASSUME NEW c \in Clients, DumpMessages(c), OutboxTypeOK', Dump(c)'
      PROVE  Snapshot'
  <2>1. UNCHANGED <<vars, outbox, spoiled>> /\ (Up' => Up)
    BY <1>5, <1>s DEF DumpMessages, Call, Begin, End, Walk, Finish, Up, OutboxTypeOK, vars
  <2>2. UNCHANGED taken
    BY <2>1 DEF vars, loopVars
  <2>3. OutboxIsTaken'
    BY <1>s, <2>1, <2>2 DEF OutboxIsTaken
  <2>4. ASSUME NEW d \in Clients \ {c} PROVE Dump(d)'
    <3>1. /\ dpc'[d] = dpc[d] /\ bgen'[d] = bgen[d] /\ visited'[d] = visited[d]
          /\ stop'[d] = stop[d] /\ data'[d] = data[d] /\ atCall'[d] = atCall[d]
      BY <1>5, <1>s DEF DumpMessages, Call, Begin, End, Walk, Finish, OutboxTypeOK
    <3> QED BY <1>s, <2>1, <2>2, <3>1, DumpKept
  <2> QED BY <1>5, <2>3, <2>4 DEF Snapshot
<1>6. ASSUME NEW c \in Clients, Call(c) PROVE Snapshot'
  <2>1. OutboxTypeOK'
    BY <1>6, <1>s, <1>n DEF Call, OutboxTypeOK
  <2>2. Dump(c)'
    BY <1>6, <1>s, <1>n DEF Call, OutboxTypeOK, Dump, Walking
  <2> QED BY <1>5, <1>6, <2>1, <2>2 DEF DumpMessages
<1>7. ASSUME NEW c \in Clients, Begin(c) PROVE Snapshot'
  <2>1. OutboxTypeOK'
    BY <1>7, <1>s, <1>n DEF Begin, OutboxTypeOK
  <2>2. Dump(c)'
    BY <1>7, <1>s, <1>n DEF Begin, OutboxTypeOK, Dump, Walking
  <2> QED BY <1>5, <1>7, <2>1, <2>2 DEF DumpMessages
<1>8. ASSUME NEW c \in Clients, End(c) PROVE Snapshot'
  <2>0. Dump(c) /\ Walking(c)
    BY <1>8, <1>s DEF End, Walking
  <2>1. OutboxTypeOK'
    BY <1>8, <1>s, <1>n, <2>0 DEF End, OutboxTypeOK, EndPosition, Dump
  <2>2. Dump(c)'
    <3>1. data[c] = <<>> /\ visited[c] = 0 /\ Len(data[c]) = 0
      BY <1>8, <2>0 DEF End, Dump
    <3>2. Prefix(c)'
      BY <1>8, <1>n, <3>1 DEF End, Prefix, vars, loopVars
    <3> QED BY <1>8, <1>s, <1>n, <2>0, <3>1, <3>2
            DEF End, OutboxTypeOK, EndPosition, Dump, Walking
  <2> QED BY <1>5, <1>8, <2>1, <2>2 DEF DumpMessages
<1>9. ASSUME NEW c \in Clients, Walk(c) PROVE Snapshot'
  <2>0. /\ Dump(c) /\ dpc[c] = "walk" /\ visited[c] < stop[c]
        /\ UNCHANGED <<taken, outbox, dpc, bgen, stop, atCall, spoiled>>
    BY <1>9, <1>s DEF Walk, vars, loopVars
  <2>1. PICK x \in String :
          /\ data' = [data EXCEPT ![c] = Append(data[c], x)]
          /\ bgen[c] = outbox.gen => x = V!Cell(outbox, visited[c] + 1)
    <3>1. V!Cell(outbox, visited[c] + 1) \in String /\ Garbage \in String
      BY <1>s, CellType DEF OutboxTypeOK, String
    <3> QED BY <1>9, <3>1 DEF Walk, Received
  <2>2. /\ data'[c] = Append(data[c], x) /\ data'[c] \in Seq(String)
        /\ Len(data'[c]) = Len(data[c]) + 1 /\ data'[c][Len(data[c]) + 1] = x
        /\ \A k \in 1 .. Len(data[c]) : data'[c][k] = data[c][k]
    <3>1. data'[c] = Append(data[c], x)
      BY <1>s, <2>1 DEF OutboxTypeOK
    <3> QED BY <1>n, <3>1, AppendProperties
  <2>3. visited' = [visited EXCEPT ![c] = visited[c] + 1]
    BY <1>9 DEF Walk
  <2>4. OutboxTypeOK'
    <3>1. data' \in [Clients -> Seq(Msg \cup {Garbage})]
      BY <1>s, <2>1, <2>2 DEF OutboxTypeOK, String
    <3>2. visited' \in [Clients -> Nat]
      BY <1>s, <1>n, <2>3 DEF OutboxTypeOK
    <3>3. killed' \in BOOLEAN
      <4>1. CASE bgen[c] = outbox.gen
        BY <1>9, <1>s, <4>1 DEF Walk, OutboxTypeOK
      <4>2. CASE bgen[c] # outbox.gen
        BY <1>9, <4>2 DEF Walk
      <4> QED BY <4>1, <4>2
    <3> QED BY <1>s, <2>0, <3>1, <3>2, <3>3 DEF OutboxTypeOK
  <2>5. /\ visited'[c] = visited[c] + 1 /\ visited'[c] <= stop[c]
        /\ Len(data'[c]) = visited'[c]
    BY <1>n, <1>s, <2>0, <2>2, <2>3 DEF Dump, OutboxTypeOK
  <2>6. ~spoiled[c] => Prefix(c)'
    <3> SUFFICES ASSUME ~spoiled[c] PROVE Prefix(c)'
      OBVIOUS
    <3>1. Prefix(c) /\ bgen[c] = outbox.gen /\ Len(data[c]) = visited[c]
      BY <2>0 DEF Dump
    <3>2. visited[c] + 1 \in 1 .. outbox.fin /\ visited[c] + 1 \in 1 .. Len(outbox.cells)
      BY <1>n, <1>s, <2>0 DEF Dump, OutboxIsTaken
    <3>3. x = outbox.cells[visited[c] + 1]
      <4>1. DOMAIN outbox.cells = 1 .. Len(outbox.cells)
        BY <1>s, LenProperties DEF OutboxTypeOK, V!Vector
      <4> QED BY <2>1, <3>1, <3>2, <4>1 DEF V!Cell
    <3>4. x = taken[Len(data[c]) + 1] /\ Len(data[c]) + 1 <= Len(taken)
      BY <1>n, <1>s, <3>1, <3>2, <3>3 DEF OutboxIsTaken
    <3>5. ASSUME NEW k \in 1 .. Len(data[c]) + 1 PROVE data'[c][k] = taken[k]
      <4>1. k = Len(data[c]) + 1 \/ k \in 1 .. Len(data[c])
        BY <1>n
      <4> QED BY <2>2, <3>1, <3>4, <4>1 DEF Prefix
    <3> QED BY <2>0, <2>2, <3>4, <3>5 DEF Prefix
  <2>7. Dump(c)'
    BY <1>n, <2>0, <2>5, <2>6 DEF Dump, Walking
  <2> QED BY <1>5, <1>9, <2>4, <2>7 DEF DumpMessages
<1>10. ASSUME NEW c \in Clients, Finish(c) PROVE Snapshot'
  <2>1. OutboxTypeOK'
    BY <1>10, <1>s DEF Finish, OutboxTypeOK
  <2>2. /\ Dump(c) /\ dpc'[c] = IF data[c] = <<>> THEN "call" ELSE "done"
        /\ Walking(c) /\ (Up => dpc[c] = "walk" /\ visited[c] = stop[c])
        /\ UNCHANGED <<vars, outbox, bgen, visited, stop, data, killed, atCall, spoiled>>
    BY <1>10, <1>s DEF Finish, OutboxTypeOK
  <2>3. Up' = Up /\ Prefix(c)' = Prefix(c)
    BY <2>2 DEF Up, Prefix, vars, loopVars
  <2>4. data[c] # <<>> => dpc[c] = "walk"
    BY <2>2 DEF Dump, Walking
  <2>5. Dump(c)'
    BY <1>n, <2>2, <2>3, <2>4 DEF Dump, Walking
  <2> QED BY <1>5, <1>10, <2>1, <2>5 DEF DumpMessages
<1>11. CASE UNCHANGED mailboxVars
  BY <1>2, <1>11 DEF mailboxVars, vars, loopVars, callVars, Up
<1> QED
  BY <1>1, <1>3, <1>4, <1>6, <1>7, <1>8, <1>9, <1>10, <1>11
     DEF MailboxNext, MainLoop, DumpMessages

LEMMA SnapshotImplies == TypeOK /\ Snapshot => CleanDumpIsSnapshot
<1> SUFFICES ASSUME TypeOK, Snapshot, NEW c \in Clients, dpc[c] = "done", ~spoiled[c]
             PROVE  /\ Up => Len(data[c]) >= atCall[c]
                    /\ \E n \in 0 .. Len(taken) : data[c] = SubSeq(taken, 1, n)
  BY DEF CleanDumpIsSnapshot
<1>1. Dump(c)
  BY DEF Snapshot
<1>2. Prefix(c) /\ (Up => Len(data[c]) >= atCall[c])
  BY <1>1 DEF Dump
<1> DEFINE n == Len(data[c])
<1>3. /\ data[c] \in Seq(String) /\ taken \in Seq(String)
      /\ n \in Nat /\ n \in 0 .. Len(taken)
  BY <1>2, LenProperties DEF Snapshot, OutboxTypeOK, TypeOK, Prefix, String
<1> HIDE DEF n
<1>4. \A k \in 1 .. n : k \in 1 .. Len(taken)
  BY <1>3
<1>5. /\ SubSeq(taken, 1, n) \in Seq(String) /\ Len(SubSeq(taken, 1, n)) = n
      /\ \A k \in 1 .. n : SubSeq(taken, 1, n)[k] = taken[k]
  <2>1. \A k \in 1 .. n : taken[k] \in String
    BY <1>3, <1>4, ElementOfSeq
  <2>2. /\ SubSeq(taken, 1, n) \in Seq(String)
        /\ Len(SubSeq(taken, 1, n)) = IF 1 <= n THEN n - 1 + 1 ELSE 0
        /\ \A k \in 1 .. n - 1 + 1 : SubSeq(taken, 1, n)[k] = taken[1 + k - 1]
    BY <1>3, <2>1, SubSeqProperties
  <2>3. \A k \in 1 .. n : 1 + k - 1 = k
    BY <1>3
  <2> QED BY <1>3, <2>2, <2>3
<1>6. data[c] = SubSeq(taken, 1, n)
  BY <1>2, <1>3, <1>5, SeqEqual DEF n, Prefix
<1> QED BY <1>2, <1>3, <1>6

LEMMA SnapshotSafe == MailboxSpec => [](TypeOK /\ Snapshot)
<1>1. MailboxSpec => []TypeOK
  BY MailboxIsQueue, TypeSafe, PTL
<1>2. MailboxInit => Snapshot
  BY SnapshotInit
<1>3. TypeOK /\ TypeOK' /\ Snapshot /\ [MailboxNext]_mailboxVars => Snapshot'
  BY SnapshotStep
<1> QED BY <1>1, <1>2, <1>3, PTL DEF MailboxSpec

\* For any handlers, clients and arrivals, msgtmp, outbox and every call keep
\* their types, and no call begins to walk an empty range.
THEOREM MailboxTypeCorrect == MailboxSpec => []MailboxTypeOK
<1>1. TypeOK /\ Snapshot => MailboxTypeOK
  BY DEF Snapshot, MailboxTypeOK
<1> QED BY <1>1, SnapshotSafe, PTL

\* For any handlers, clients and arrivals: a dump during which outbox did not
\* move gives the client a prefix of what the mailbox stored, no shorter than
\* what was stored when the call began unless the mailbox died.
THEOREM SnapshotCorrect == MailboxSpec => []CleanDumpIsSnapshot
<1>1. TypeOK /\ Snapshot => CleanDumpIsSnapshot
  BY SnapshotImplies
<1> QED BY <1>1, SnapshotSafe, PTL
-----------------------------------------------------------------------------
(***************************************************************************)
(* Where an answered message is.  AnsweredIsKept, what a caller takes      *)
(* yes = true for, fails for a race; it fails for nothing else.            *)
(***************************************************************************)
\* Whatever is raced: what a handler has answered, or is about to, was pushed.
WasPushed(x) == \E i \in DOMAIN pushed : pushed[i] = x
Accounted == \A x \in acked \cup UNION {call[h] : h \in Handlers} : WasPushed(x)

LEMMA AccountedStep == TypeOK /\ Accounted /\ [Next]_vars => Accounted'
<1> SUFFICES ASSUME TypeOK, Accounted, [Next]_vars PROVE Accounted'
  OBVIOUS
<1>1. ASSUME UNCHANGED <<acked, call, pushed>> PROVE Accounted'
  BY <1>1 DEF Accounted, WasPushed
<1>2. ASSUME NEW h \in Handlers, Bump(h) \/ Grow(h) PROVE Accounted'
  <2>1. Pushed(h) /\ hpc[h] # "read" /\ acked' = acked
    BY <1>2 DEF Bump, Grow, Pushed
  <2>2. /\ Len(pushed') = Len(pushed) + 1 /\ \A i \in 1 .. Len(pushed) : pushed'[i] = pushed[i]
        /\ pushed'[Len(pushed) + 1] = m[h]
    BY <2>1, PushedAppends
  <2>3. /\ pushed \in Seq(Msg) /\ pushed' \in Seq(Msg)
    BY <2>1, AppendProperties DEF Pushed, TypeOK
  <2>4. /\ DOMAIN pushed = 1 .. Len(pushed) /\ DOMAIN pushed' = 1 .. Len(pushed) + 1
        /\ Len(pushed) \in Nat
    BY <2>2, <2>3, LenProperties
  <2>5. Len(pushed) + 1 \in DOMAIN pushed' /\ \A i \in DOMAIN pushed : i \in DOMAIN pushed'
    BY <2>4
  <2>6. \A x : WasPushed(x) => WasPushed(x)'
    BY <2>2, <2>4, <2>5 DEF WasPushed
  <2>7. PICK y : y = m[h]
    OBVIOUS
  <2>8. WasPushed(y)'
    BY <2>2, <2>5, <2>7 DEF WasPushed
  <2>9. \A g \in Handlers : call'[g] = IF g = h THEN call[h] \cup {y} ELSE call[g]
    BY <2>1, <2>7 DEF Pushed, TypeOK
  <2>10. \A x \in acked' \cup UNION {call'[g] : g \in Handlers} :
           x = y \/ x \in acked \cup UNION {call[g] : g \in Handlers}
    BY <2>1, <2>9
  <2> QED BY <2>6, <2>8, <2>10, Zenon DEF Accounted
<1>3. ASSUME NEW h \in Handlers, Answer(h) PROVE Accounted'
  <2>1. acked' = acked \cup call[h] /\ pushed' = pushed /\ \A g \in Handlers : call'[g] \subseteq call[g]
    BY <1>3 DEF Answer, TypeOK
  <2>2. acked' \cup UNION {call'[g] : g \in Handlers} \subseteq acked \cup UNION {call[g] : g \in Handlers}
    BY <2>1
  <2>3. \A x : WasPushed(x)' <=> WasPushed(x)
    BY <2>1 DEF WasPushed
  <2> QED BY <2>2, <2>3, Zenon DEF Accounted
<1>4. ASSUME NEW h \in Handlers, Read(h) \/ Load(h) \/ Build(h) PROVE Accounted'
  BY <1>1, <1>4 DEF Read, Load, Build
<1>5. CASE Loop \/ UNCHANGED vars
  BY <1>1, <1>5 DEF Loop, Poll, PollEnd, Copy, Clear, vars, handlerVars
<1> QED
  BY <1>2, <1>3, <1>4, <1>5 DEF Next, PutMessages

\* An answered message waits in msgtmp, behind what is copied already, or has been
\* taken; in a mailbox, it is stored.
Waits(x) == \E k \in Copied + 1 .. msgtmp.fin : msgtmp.cells[k] = x
KeptUnlessRaced == ~raced => \A x \in acked : Waits(x) \/ \E i \in DOMAIN taken : taken[i] = x
StoredUnlessRaced == ~raced => \A x \in acked : Waits(x) \/ Stored(x)

LEMMA TakenOrWaits ==
  ASSUME TypeOK, Quiet, ~raced, NEW x, WasPushed(x)
  PROVE  Waits(x) \/ \E i \in 1 .. Len(taken) : taken[i] = x
<1>1. PICK i \in DOMAIN pushed : pushed[i] = x
  BY DEF WasPushed
<1>2. i \in 1 .. Len(pushed) /\ Len(pushed) \in Nat /\ Len(taken) \in Nat /\ msgtmp.fin \in Nat /\ Copied \in Nat
  BY LenProperties, CopiedType DEF TypeOK, V!Vector
<1>3. /\ Copied <= Len(taken) /\ Len(pushed) = Len(taken) - Copied + msgtmp.fin
      /\ \A j \in 1 .. Len(taken) : pushed[j] = taken[j]
      /\ \A j \in 1 .. msgtmp.fin : pushed[Len(taken) - Copied + j] = msgtmp.cells[j]
  BY DEF Quiet, Content
<1>4. CASE i <= Len(taken)
  BY <1>1, <1>2, <1>3, <1>4
<1>5. CASE i > Len(taken)
  <2>1. PICK k \in Nat : k = i - Len(taken) + Copied
    BY <1>2, <1>5
  <2>2. k \in Copied + 1 .. msgtmp.fin /\ k \in 1 .. msgtmp.fin /\ Len(taken) - Copied + k = i
    BY <1>2, <1>3, <1>5, <2>1
  <2>3. msgtmp.cells[k] = x
    BY <1>1, <1>3, <2>2
  <2> QED BY <2>2, <2>3 DEF Waits
<1> QED BY <1>2, <1>4, <1>5

LEMMA AccountSafe == Init /\ [][Next]_vars => [](TypeOK /\ Quiet /\ Accounted)
<1>1. Init => Accounted
  BY DEF Init, Accounted
<1>2. TypeOK /\ Accounted /\ [Next]_vars => Accounted'
  BY AccountedStep
<1>3. Init => Quiet
  BY QuietInit
<1>4. TypeOK /\ TypeOK' /\ Quiet /\ [Next]_vars => Quiet'
  BY QuietStep
<1> QED BY <1>1, <1>2, <1>3, <1>4, TypeSafe, PTL

\* For any handlers, messages and arrivals: a race is the only thing an answered
\* message can be lost for.
THEOREM KeptCorrect == Spec => []KeptUnlessRaced
<1>1. TypeOK /\ Quiet /\ Accounted => KeptUnlessRaced
  <2> SUFFICES ASSUME TypeOK, Quiet, ~raced, NEW x \in acked, Accounted
               PROVE  Waits(x) \/ \E i \in DOMAIN taken : taken[i] = x
    BY DEF KeptUnlessRaced
  <2>1. WasPushed(x)
    BY DEF Accounted
  <2>2. DOMAIN taken = 1 .. Len(taken)
    BY LenProperties DEF TypeOK
  <2> QED BY <2>1, <2>2, TakenOrWaits
<1> QED BY <1>1, AccountSafe, PTL DEF Spec

\* And in a mailbox it is in outbox as soon as it does not wait in msgtmp any more,
\* whatever the clients do: the part of AnsweredIsStored that needs no fairness.
THEOREM StoredCorrect == MailboxSpec => []StoredUnlessRaced
<1>1. TypeOK /\ Quiet /\ Accounted /\ Snapshot => StoredUnlessRaced
  <2> SUFFICES ASSUME TypeOK, Quiet, ~raced, NEW x \in acked, Accounted, Snapshot
               PROVE  Waits(x) \/ Stored(x)
    BY DEF StoredUnlessRaced
  <2>1. WasPushed(x)
    BY DEF Accounted
  <2>2. ASSUME NEW i \in 1 .. Len(taken), taken[i] = x PROVE Stored(x)
    <3>1. i \in 1 .. outbox.fin /\ outbox.cells[i] = x /\ i \in 1 .. Len(outbox.cells)
      BY <2>2, LenProperties DEF Snapshot, OutboxIsTaken, OutboxTypeOK, V!Vector, TypeOK
    <3>2. V!Cell(outbox, i) = x
      BY <3>1, LenProperties DEF V!Cell, Snapshot, OutboxTypeOK, V!Vector
    <3> QED BY <3>1, <3>2 DEF Stored
  <2> QED BY <2>1, <2>2, TakenOrWaits
<1>2. MailboxSpec => [](TypeOK /\ Quiet /\ Accounted)
  BY MailboxIsQueue, AccountSafe, PTL
<1> QED BY <1>1, <1>2, SnapshotSafe, PTL
=============================================================================
