---------------------------- MODULE ShuffleProofs ----------------------------
(***************************************************************************)
(* For every vector, every size and whatever numbers rand() returns: the   *)
(* places swapped lie within the vector, shuffling never loses or repeats  *)
(* an element, and different draws lead to different orders of different   *)
(* elements.  For the last, the history variable past names the vector     *)
(* before each swap: a swap of the places k and below leaves what stands   *)
(* above k, so the final order tells, from its last place down, the place  *)
(* drawn at every step.                                                    *)
(***************************************************************************)
EXTENDS Shuffle, WellFoundedInduction, TLAPS

USE SizeAssumption

\* The loop counter and the number of calls of rand() run against each other.
Counted ==
    /\ phase = "draw" =>
         \/ size = 0 /\ i = -1 /\ calls = 0
         \/ i \in Index(size) /\ calls = size - 1 - i
    /\ phase = "swap" =>
         /\ i \in 1 .. size - 1 /\ calls = size - i
         /\ index = Pick(rands[size - 1 - i], i)

\* The swap the constructor makes when its counter is k.
SwapIndex(k) == Pick(rands[size - 1 - k], k)
SwapAt(k) == past[k - 1] = Swap(past[k], SwapIndex(k), k)

\* Where the swaps made can be read off past.
Traced ==
    /\ size > 0 => past[size - 1] = input
    /\ \A k \in 1 .. size - 1 : (phase # "shuffled" => k > i) => SwapAt(k)

\* Which of the constructor's vectors vec is.
Placed ==
    size > 0 => vec = past[IF phase = "shuffled" THEN 0 ELSE i]

-----------------------------------------------------------------------------
LEMMA PickInRange == \A r, k \in Nat : Pick(r, k) \in 0 .. k
BY DEF Pick, Choices

\* The number a step of the loop draws is an index.
LEMMA DrawInRange ==
    ASSUME TypeOK, Counted, phase = "draw", i > 0
    PROVE  /\ size \in Nat /\ i \in Index(size) /\ i \in 1 .. size - 1
           /\ calls = size - 1 - i /\ calls + 1 \in Index(size)
           /\ Pick(rands[calls], i) \in Index(size)
           /\ rands[calls] \in Nat
<1>1. size \in 0 .. MaxSize /\ i \in Index(size) /\ calls = size - 1 - i
  BY DEF TypeOK, Counted
<1>2. /\ size \in Nat /\ i \in 1 .. size - 1
      /\ calls + 1 \in Index(size) /\ calls \in 0 .. MaxSize - 2
  BY <1>1 DEF Index
<1>3. rands[calls] \in Nat
  BY <1>2 DEF TypeOK, Numbers
<1>4. Pick(rands[calls], i) \in 0 .. i
  <2>1. i \in Nat
    BY <1>2
  <2> QED BY <2>1, <1>3, PickInRange
<1>5. Pick(rands[calls], i) \in Index(size)
  BY <1>2, <1>4 DEF Index
<1> QED BY <1>1, <1>2, <1>3, <1>5

LEMMA SwapType ==
    ASSUME NEW S, NEW E, NEW f \in [S -> E], NEW a \in S, NEW b \in S
    PROVE  Swap(f, a, b) \in [S -> E]
BY DEF Swap

\* A swap keeps the elements and their number.
LEMMA SwapKeeps ==
    ASSUME NEW S, NEW E, NEW f \in [S -> E], NEW g \in [S -> E],
           NEW a \in S, NEW b \in S, IsOrderOf(f, g)
    PROVE  IsOrderOf(Swap(f, a, b), g)
<1>1. DOMAIN g = S /\ DOMAIN f = S
  OBVIOUS
<1>2. PICK p \in Bijection(S, S) : f = [k \in S |-> g[p[k]]]
  BY <1>1 DEF IsOrderOf
<1>3. /\ p \in [S -> S]
      /\ \A x, y \in S : p[x] = p[y] => x = y
      /\ \A y \in S : \E x \in S : p[x] = y
  BY <1>2 DEF Bijection, Injection, Surjection, IsInjective
<1> DEFINE q == Swap(p, a, b)
<1>4. q \in [S -> S]
  BY <1>3, SwapType
<1>5. /\ q[a] = p[b] /\ q[b] = p[a]
      /\ \A x \in S \ {a, b} : q[x] = p[x]
  BY <1>3 DEF Swap
<1>6. \A x, y \in S : q[x] = q[y] => x = y
  BY <1>3, <1>5
<1>7. \A y \in S : \E x \in S : q[x] = y
  BY <1>3, <1>5
<1>8. q \in Bijection(S, S)
  BY <1>4, <1>6, <1>7 DEF Bijection, Injection, Surjection, IsInjective
<1>9. Swap(f, a, b) = [k \in S |-> g[q[k]]]
  <2>1. Swap(f, a, b) \in [S -> E]
    BY SwapType
  <2>2. \A k \in S : Swap(f, a, b)[k] = g[q[k]]
    BY <1>2, <1>3, <1>5 DEF Swap
  <2> QED BY <2>1, <2>2
<1> QED BY <1>1, <1>8, <1>9 DEF IsOrderOf
-----------------------------------------------------------------------------
LEMMA TypeInit == Init => TypeOK /\ Counted
<1> SUFFICES ASSUME Init PROVE TypeOK /\ Counted
  OBVIOUS
<1>1. TypeOK
  BY DEF Init, TypeOK, Index
<1>2. Counted
  BY DEF Init, Counted, Index
<1> QED BY <1>1, <1>2

LEMMA TypeStep == TypeOK /\ Counted /\ [Next]_vars => TypeOK' /\ Counted'
<1> SUFFICES ASSUME TypeOK, Counted, [Next]_vars PROVE TypeOK' /\ Counted'
  OBVIOUS
<1>1. CASE Draw
  <2>1. /\ i \in 1 .. size - 1 /\ i \in Index(size)
        /\ calls = size - 1 - i /\ calls + 1 \in Index(size)
        /\ Pick(rands[calls], i) \in Index(size)
    BY <1>1, DrawInRange DEF Draw
  <2>2. TypeOK'
    BY <1>1, <2>1 DEF Draw, TypeOK
  <2>3. Counted'
    <3>1. calls + 1 = size - i
      BY <2>1 DEF TypeOK
    <3> QED BY <1>1, <2>1, <3>1 DEF Draw, Counted
  <2> QED BY <2>2, <2>3
<1>2. CASE SwapDrawn
  <2>1. /\ i \in 1 .. size - 1 /\ calls = size - i /\ size \in 0 .. MaxSize
        /\ i \in Index(size) /\ index \in Index(size)
    BY <1>2 DEF SwapDrawn, Counted, TypeOK
  <2>2. i - 1 \in Index(size)
    BY <2>1 DEF Index
  <2>3. vec' \in [Index(size) -> Elem]
    BY <1>2, <2>1, SwapType DEF SwapDrawn, TypeOK
  <2>4. past' \in [Index(size) -> [Index(size) -> Elem]]
    BY <1>2, <2>2, <2>3 DEF SwapDrawn, TypeOK
  <2>5. i' \in -1 .. MaxSize
    BY <1>2, <2>1 DEF SwapDrawn
  <2>6. TypeOK'
    BY <1>2, <2>3, <2>4, <2>5 DEF SwapDrawn, TypeOK
  <2>7. Counted'
    <3>1. calls = size - 1 - (i - 1)
      BY <2>1
    <3> QED BY <1>2, <2>2, <3>1 DEF SwapDrawn, Counted
  <2> QED BY <2>6, <2>7
<1>3. CASE Shuffled
  <2>1. TypeOK'
    BY <1>3 DEF Shuffled, TypeOK
  <2>2. Counted'
    BY <1>3 DEF Shuffled, Counted
  <2> QED BY <2>1, <2>2
<1>4. CASE UNCHANGED vars
  <2>1. TypeOK'
    BY <1>4 DEF vars, TypeOK
  <2>2. Counted'
    BY <1>4 DEF vars, Counted
  <2> QED BY <2>1, <2>2
<1> QED BY <1>1, <1>2, <1>3, <1>4 DEF Next

\* The members and locals of Shuffle keep their types, and both places of every
\* swap lie within the vector.
THEOREM TypeCorrect == Spec => []TypeOK
<1>1. Init => TypeOK /\ Counted
  BY TypeInit
<1>2. TypeOK /\ Counted /\ [Next]_vars => (TypeOK /\ Counted)'
  BY TypeStep
<1> QED BY <1>1, <1>2, PTL DEF Spec

-----------------------------------------------------------------------------
LEMMA OrderInit == Init => SameElements
<1> SUFFICES ASSUME Init PROVE SameElements
  OBVIOUS
<1> DEFINE S == Index(size)
           p == [k \in S |-> k]
<1>1. input \in [S -> Elem] /\ vec = input
  BY DEF Init
<1>2. p \in Bijection(S, S)
  BY DEF Bijection, Injection, Surjection, IsInjective
<1>3. vec = [k \in S |-> input[p[k]]]
  BY <1>1
<1>4. DOMAIN input = S
  BY <1>1
<1> HIDE DEF p, S
<1> QED BY <1>2, <1>3, <1>4 DEF SameElements, IsOrderOf

LEMMA OrderStep == TypeOK /\ SameElements /\ [Next]_vars => SameElements'
<1> SUFFICES ASSUME TypeOK, SameElements, [Next]_vars PROVE SameElements'
  OBVIOUS
<1>1. vec \in [Index(size) -> Elem] /\ input \in [Index(size) -> Elem]
  BY DEF TypeOK
<1>2. CASE SwapDrawn
  <2>1. i \in Index(size) /\ index \in Index(size)
    BY <1>2 DEF SwapDrawn, TypeOK
  <2>2. IsOrderOf(Swap(vec, index, i), input)
    BY <1>1, <2>1, SwapKeeps DEF SameElements
  <2> QED BY <1>2, <2>2 DEF SwapDrawn, SameElements
<1>3. CASE UNCHANGED <<vec, input>>
  BY <1>3 DEF SameElements
<1> QED BY <1>2, <1>3 DEF Next, Draw, Shuffled, vars

\* The constructor never loses or repeats an element.
THEOREM OrderCorrect == Spec => []SameElements
<1>1. TypeOK /\ Counted /\ SameElements /\ [Next]_vars => (TypeOK /\ Counted /\ SameElements)'
  BY TypeStep, OrderStep
<1>2. Init => TypeOK /\ Counted /\ SameElements
  BY TypeInit, OrderInit
<1> QED BY <1>1, <1>2, PTL DEF Spec

-----------------------------------------------------------------------------
LEMMA TraceInit == Init => Traced /\ Placed
<1> SUFFICES ASSUME Init PROVE Traced /\ Placed
  OBVIOUS
<1>1. size \in Nat /\ i = size - 1 /\ phase = "draw"
  BY DEF Init
<1>2. size > 0 => past[size - 1] = input /\ vec = past[i]
  BY <1>1 DEF Init, Index
<1>3. Traced
  BY <1>1, <1>2 DEF Traced
<1>4. Placed
  BY <1>1, <1>2 DEF Placed
<1> QED BY <1>3, <1>4

LEMMA TraceStep ==
    TypeOK /\ Counted /\ Traced /\ Placed /\ [Next]_vars => Traced' /\ Placed'
<1> SUFFICES ASSUME TypeOK, Counted, Traced, Placed, [Next]_vars
             PROVE  Traced' /\ Placed'
  OBVIOUS
<1>0. /\ size \in 0 .. MaxSize
      /\ past \in [Index(size) -> [Index(size) -> Elem]]
      /\ \A k \in 1 .. size - 1 : k \in Index(size) /\ k - 1 \in Index(size)
  BY DEF TypeOK, Index
<1>1. CASE Draw
  <2>1. /\ phase # "shuffled" /\ phase' # "shuffled"
        /\ UNCHANGED <<size, vec, input, rands, i, past>>
    BY <1>1 DEF Draw
  <2>2. Traced'
    BY <2>1 DEF Traced, SwapAt, SwapIndex
  <2>3. Placed'
    BY <2>1 DEF Placed
  <2> QED BY <2>2, <2>3
<1>2. CASE SwapDrawn
  <2>1. /\ i \in 1 .. size - 1 /\ index = SwapIndex(i)
        /\ phase # "shuffled"
    BY <1>2 DEF SwapDrawn, Counted, SwapIndex
  <2>2. vec' = Swap(past[i], SwapIndex(i), i)
    <3>1. vec = past[i]
      BY <1>0, <2>1 DEF Placed
    <3> QED BY <1>2, <2>1, <3>1 DEF SwapDrawn
  <2>3. /\ past'[i - 1] = vec'
        /\ \A k \in Index(size) : k # i - 1 => past'[k] = past[k]
    BY <1>0, <1>2, <2>1 DEF SwapDrawn
  <2>4. past'[i] = past[i]
    BY <1>0, <2>1, <2>3
  <2>5. /\ size' = size /\ rands' = rands /\ phase' = "draw"
        /\ i' = i - 1 /\ input' = input
    BY <1>2 DEF SwapDrawn
  <2>6. ASSUME NEW k \in 1 .. size - 1, k > i - 1 PROVE SwapAt(k)'
    <3>1. CASE k = i
      BY <2>2, <2>3, <2>4, <2>5, <3>1 DEF SwapAt, SwapIndex
    <3>2. CASE k > i
      <4>1. SwapAt(k)
        BY <2>1, <3>2 DEF Traced
      <4>2. past'[k] = past[k] /\ past'[k - 1] = past[k - 1]
        BY <1>0, <2>1, <2>3, <3>2
      <4> QED BY <2>5, <4>1, <4>2 DEF SwapAt, SwapIndex
    <3> QED BY <2>1, <2>6, <3>1, <3>2
  <2>7. size > 0 => past'[size - 1] = input
    <3>1. size - 1 \in Index(size) /\ size - 1 # i - 1 /\ size > 0
      BY <1>0, <2>1 DEF Index
    <3>2. past[size - 1] = input
      BY <3>1 DEF Traced
    <3> QED BY <2>3, <3>1, <3>2
  <2>8. Traced'
    BY <2>5, <2>6, <2>7 DEF Traced
  <2>9. Placed'
    BY <1>0, <2>1, <2>3, <2>5, <1>2 DEF Placed, SwapDrawn
  <2> QED BY <2>8, <2>9
<1>3. CASE Shuffled
  <2>1. /\ i <= 0 /\ phase = "draw" /\ phase' = "shuffled"
        /\ UNCHANGED <<size, vec, input, rands, i, past>>
    BY <1>3 DEF Shuffled
  <2>2. size > 0 => i = 0
    BY <1>0, <2>1 DEF Counted, Index
  <2>3. size = 0 => i = -1
    BY <1>0, <2>1 DEF Counted, Index
  <2>4. \A k \in 1 .. size - 1 : k > i
    BY <1>0, <2>2, <2>3
  <2>5. Traced'
    BY <2>1, <2>4 DEF Traced, SwapAt, SwapIndex
  <2>6. Placed'
    BY <2>1, <2>2 DEF Placed
  <2> QED BY <2>5, <2>6
<1>4. CASE UNCHANGED vars
  <2>1. Traced'
    BY <1>4 DEF vars, Traced, SwapAt, SwapIndex
  <2>2. Placed'
    BY <1>4 DEF vars, Placed
  <2> QED BY <2>1, <2>2
<1> QED BY <1>1, <1>2, <1>3, <1>4 DEF Next

-----------------------------------------------------------------------------
LEMMA LeastNatural ==
  ASSUME NEW T, T \subseteq Nat, T # {}
  PROVE  \E x \in T : \A y \in T : ~(y < x)
<1>1. PICK x \in T : \A y \in T : ~(<<y, x>> \in OpToRel(<, Nat))
  BY WFMin, NatLessThanWellFounded
<1>2. ASSUME NEW y \in T, y < x PROVE <<y, x>> \in OpToRel(<, Nat)
  BY <1>2 DEF OpToRel
<1> QED BY <1>1, <1>2

\* c is a run of the constructor on f down to the counter l: c[k] is the vector
\* when the counter is k.
Run(c, f, n, r, l) ==
    /\ c[n - 1] = f
    /\ \A k \in l .. n - 2 : c[k] = Swap(c[k + 1], Pick(r[n - 2 - k], k + 1), k + 1)

\* There is one run only.
LEMMA RunUnique ==
  ASSUME NEW n \in Nat \ {0}, NEW f, NEW r, NEW c, NEW d, Run(c, f, n, r, 0), Run(d, f, n, r, 0)
  PROVE  \A k \in Index(n) : c[k] = d[k]
<1> DEFINE T == {j \in 0 .. n - 1 : c[n - 1 - j] # d[n - 1 - j]}
<1>1. ASSUME T # {} PROVE FALSE
  <2>1. T \subseteq Nat
    OBVIOUS
  <2>2. PICK j \in T : \A y \in T : ~(y < j)
    <3> HIDE DEF T
    <3> QED BY <1>1, <2>1, LeastNatural
  <2>3. j # 0
    BY <2>2 DEF Run
  <2> DEFINE k == n - 1 - j
  <2>4. k \in 0 .. n - 2 /\ j - 1 \in 0 .. n - 1 /\ j - 1 < j /\ n - 1 - (j - 1) = k + 1
    BY <2>2, <2>3
  <2>5. c[n - 1 - (j - 1)] = d[n - 1 - (j - 1)]
    BY <2>2, <2>4
  <2>6. c[k + 1] = d[k + 1]
    BY <2>4, <2>5
  <2>7. c[k] = d[k]
    <3> HIDE DEF k
    <3> QED BY <2>4, <2>6 DEF Run
  <2> QED BY <2>2, <2>7
<1>2. ASSUME NEW k \in Index(n) PROVE c[k] = d[k]
  <2>1. n - 1 - k \in 0 .. n - 1 /\ n - 1 - (n - 1 - k) = k
    BY DEF Index
  <2>2. n - 1 - k \notin T
    BY <1>1
  <2> QED BY <2>1, <2>2
<1> QED BY <1>2

\* Result is what its run ends with.
LEMMA ResultIsRun ==
  ASSUME NEW n \in Nat \ {0}, NEW f, NEW r, NEW c, Run(c, f, n, r, 0)
  PROVE  Result(f, n, r) = c[0]
<1> DEFINE G(g) == [k \in Index(n) |-> IF k = n - 1 THEN f
                                        ELSE Swap(g[k + 1], Pick(r[n - 2 - k], k + 1), k + 1)]
           e == [k \in Index(n) |-> c[k]]
           after == CHOOSE g : g = G(g)
<1>1. e = G(e)
  <2>1. ASSUME NEW k \in Index(n)
        PROVE  c[k] = IF k = n - 1 THEN f ELSE Swap(e[k + 1], Pick(r[n - 2 - k], k + 1), k + 1)
    <3>1. CASE k = n - 1
      BY <3>1 DEF Run
    <3>2. CASE k # n - 1
      <4>1. k \in 0 .. n - 2 /\ k + 1 \in Index(n)
        BY <3>2 DEF Index
      <4> QED BY <3>2, <4>1 DEF Run
    <3> QED BY <3>1, <3>2
  <2> QED BY <2>1
<1>2. after = G(after)
  <2> HIDE DEF G, e
  <2> QED BY <1>1
<1>3. Result(f, n, r) = after[0]
  BY DEF Result
<1>4. Run(after, f, n, r, 0)
  <2> HIDE DEF after
  <2>1. n - 1 \in Index(n)
    BY DEF Index
  <2>2. after[n - 1] = f
    BY <1>2, <2>1
  <2>3. ASSUME NEW k \in 0 .. n - 2
        PROVE  after[k] = Swap(after[k + 1], Pick(r[n - 2 - k], k + 1), k + 1)
    <3>1. k \in Index(n) /\ k # n - 1
      BY DEF Index
    <3> QED BY <1>2, <3>1
  <2> QED BY <2>2, <2>3 DEF Run
<1> HIDE DEF after
<1>5. after[0] = c[0]
  <2>1. 0 \in Index(n)
    BY DEF Index
  <2> QED BY <1>4, <2>1, RunUnique
<1> QED BY <1>3, <1>5

-----------------------------------------------------------------------------
(***************************************************************************)
(* Two runs on the same vector of different elements that end alike draw   *)
(* alike.                                                                  *)
(***************************************************************************)
\* Down from the last place, and up from the first.
LEMMA Downward ==
  ASSUME NEW n \in Nat \ {0}, NEW T, n - 1 \in T, \A k \in 0 .. n - 2 : k + 1 \in T => k \in T
  PROVE  \A k \in 0 .. n - 1 : k \in T
<1> DEFINE J == {j \in 0 .. n - 1 : n - 1 - j \notin T}
<1>1. ASSUME J # {} PROVE FALSE
  <2>1. PICK j \in J : \A y \in J : ~(y < j)
    <3>1. J \subseteq Nat
      OBVIOUS
    <3> HIDE DEF J
    <3> QED BY <1>1, <3>1, LeastNatural
  <2>2. j # 0
    BY <2>1
  <2>3. j - 1 \in 0 .. n - 1 /\ j - 1 < j
    BY <2>1, <2>2
  <2>4. n - 1 - (j - 1) \in T
    BY <2>1, <2>3
  <2>5. n - 1 - j \in 0 .. n - 2 /\ n - 1 - (j - 1) = (n - 1 - j) + 1
    BY <2>1, <2>2
  <2> QED BY <2>1, <2>4, <2>5
<1>2. ASSUME NEW k \in 0 .. n - 1 PROVE k \in T
  <2>1. n - 1 - k \in 0 .. n - 1 /\ n - 1 - (n - 1 - k) = k
    OBVIOUS
  <2>2. n - 1 - k \notin J
    BY <1>1
  <2>3. n - 1 - (n - 1 - k) \in T
    BY <2>1, <2>2
  <2> QED BY <2>1, <2>3
<1> QED BY <1>2

LEMMA Upward ==
  ASSUME NEW n \in Nat \ {0}, NEW T, 0 \in T, \A k \in 0 .. n - 2 : k \in T => k + 1 \in T
  PROVE  \A k \in 0 .. n - 1 : k \in T
<1> DEFINE J == {j \in 0 .. n - 1 : j \notin T}
<1>1. ASSUME J # {} PROVE FALSE
  <2>1. PICK j \in J : \A y \in J : ~(y < j)
    <3>1. J \subseteq Nat
      OBVIOUS
    <3> HIDE DEF J
    <3> QED BY <1>1, <3>1, LeastNatural
  <2>2. j # 0
    BY <2>1
  <2>3. j - 1 \in 0 .. n - 2 /\ j - 1 < j /\ (j - 1) + 1 = j
    BY <2>1, <2>2
  <2> QED BY <2>1, <2>3
<1> QED BY <1>1

\* Whatever rand() returns, there is a run.
LEMMA RunExists ==
  ASSUME NEW n \in Nat \ {0}, NEW f, NEW r
  PROVE  \E c : Run(c, f, n, r, 0)
<1> DEFINE T == {l \in 0 .. n - 1 : \E c : Run(c, f, n, r, l)}
<1>1. n - 1 \in T
  <2> DEFINE c == [k \in {n - 1} |-> f]
  <2>1. c[n - 1] = f /\ n - 1 .. n - 2 = {}
    OBVIOUS
  <2> HIDE DEF c
  <2>2. Run(c, f, n, r, n - 1)
    BY <2>1 DEF Run
  <2> QED BY <2>2
<1>2. ASSUME NEW l \in 0 .. n - 2, l + 1 \in T PROVE l \in T
  <2>1. PICK c : Run(c, f, n, r, l + 1)
    BY <1>2
  <2> DEFINE d == [k \in l .. n - 1 |-> IF k = l THEN Swap(c[l + 1], Pick(r[n - 2 - l], l + 1), l + 1)
                                        ELSE c[k]]
  <2>2. /\ d[l] = Swap(c[l + 1], Pick(r[n - 2 - l], l + 1), l + 1)
        /\ \A k \in l + 1 .. n - 1 : d[k] = c[k]
    <3>1. l \in l .. n - 1 /\ \A k \in l + 1 .. n - 1 : k \in l .. n - 1 /\ k # l
      OBVIOUS
    <3> QED BY <3>1
  <2> HIDE DEF d
  <2>3. d[n - 1] = f
    <3>1. n - 1 \in l + 1 .. n - 1
      OBVIOUS
    <3> QED BY <2>1, <2>2, <3>1 DEF Run
  <2>4. ASSUME NEW k \in l .. n - 2
        PROVE  d[k] = Swap(d[k + 1], Pick(r[n - 2 - k], k + 1), k + 1)
    <3>1. k + 1 \in l + 1 .. n - 1
      OBVIOUS
    <3>2. d[k + 1] = c[k + 1]
      BY <2>2, <3>1
    <3>3. CASE k = l
      BY <2>2, <3>2, <3>3
    <3>4. CASE k # l
      <4>1. k \in l + 1 .. n - 2 /\ k \in l + 1 .. n - 1
        BY <3>4
      <4>2. c[k] = Swap(c[k + 1], Pick(r[n - 2 - k], k + 1), k + 1)
        BY <2>1, <4>1 DEF Run
      <4> QED BY <2>2, <3>2, <4>1, <4>2
    <3> QED BY <3>3, <3>4
  <2>5. Run(d, f, n, r, l)
    BY <2>3, <2>4 DEF Run
  <2> QED BY <2>5
<1>3. \A k \in 0 .. n - 2 : k + 1 \in T => k \in T
  BY <1>2
<1>4. 0 \in T
  <2> HIDE DEF T
  <2>1. \A k \in 0 .. n - 1 : k \in T
    BY <1>1, <1>3, Downward
  <2> QED BY <2>1
<1> QED BY <1>4

Distinct(f, S) == \A x, y \in S : f[x] = f[y] => x = y

\* Every draw is a place up to the counter, and every vector of a run on
\* different elements holds different elements.
LEMMA RunType ==
  ASSUME NEW n \in 1 .. MaxSize, NEW r \in Numbers, NEW f \in [Index(n) -> Elem],
         Distinct(f, Index(n)), NEW c, Run(c, f, n, r, 0)
  PROVE  /\ \A k \in 0 .. n - 2 : Pick(r[n - 2 - k], k + 1) \in 0 .. k + 1
         /\ \A k \in 0 .. n - 1 : c[k] \in [Index(n) -> Elem] /\ Distinct(c[k], Index(n))
<1> DEFINE S == Index(n)
<1>0. n \in Nat \ {0}
  OBVIOUS
<1>1. ASSUME NEW k \in 0 .. n - 2 PROVE Pick(r[n - 2 - k], k + 1) \in 0 .. k + 1
  <2>1. n - 2 - k \in 0 .. MaxSize - 2
    OBVIOUS
  <2>2. r[n - 2 - k] \in Nat /\ k + 1 \in Nat
    BY <2>1 DEF Numbers
  <2> QED BY <2>2, PickInRange
<1> DEFINE T == {k \in 0 .. n - 1 : c[k] \in [S -> Elem] /\ Distinct(c[k], S)}
<1>2. n - 1 \in T
  BY DEF Run
<1>3. ASSUME NEW k \in 0 .. n - 2, k + 1 \in T PROVE k \in T
  <2> DEFINE a == Pick(r[n - 2 - k], k + 1)
             g == c[k + 1]
  <2>1. a \in S /\ k + 1 \in S
    BY <1>1 DEF Index
  <2>2. c[k] = Swap(g, a, k + 1)
    BY DEF Run
  <2>3. g \in [S -> Elem] /\ Distinct(g, S)
    BY <1>3
  <2> HIDE DEF a, g
  <2>4. Swap(g, a, k + 1) \in [S -> Elem]
    BY <2>1, <2>3, SwapType
  <2>5. /\ Swap(g, a, k + 1)[k + 1] = g[a] /\ Swap(g, a, k + 1)[a] = g[k + 1]
        /\ \A m \in S \ {a, k + 1} : Swap(g, a, k + 1)[m] = g[m]
    BY <2>1, <2>3 DEF Swap
  <2>6. Distinct(Swap(g, a, k + 1), S)
    BY <2>1, <2>3, <2>5 DEF Distinct
  <2> QED BY <2>2, <2>4, <2>6
<1>4. \A k \in 0 .. n - 2 : k + 1 \in T => k \in T
  BY <1>3
<1>5. \A k \in 0 .. n - 1 : k \in T
  <2> HIDE DEF T
  <2> QED BY <1>0, <1>2, <1>4, Downward
<1> QED BY <1>1, <1>5

\* What stands above the counter stays until the end.
LEMMA RunKeeps ==
  ASSUME NEW n \in 1 .. MaxSize, NEW r \in Numbers, NEW f \in [Index(n) -> Elem],
         Distinct(f, Index(n)), NEW c, Run(c, f, n, r, 0)
  PROVE  \A k \in 0 .. n - 1 : \A m \in k + 1 .. n - 1 : c[0][m] = c[k][m]
<1> DEFINE S == Index(n)
           T == {k \in 0 .. n - 1 : \A m \in k + 1 .. n - 1 : c[0][m] = c[k][m]}
<1>0. n \in Nat \ {0}
  OBVIOUS
<1>1. /\ \A k \in 0 .. n - 2 : Pick(r[n - 2 - k], k + 1) \in 0 .. k + 1
      /\ \A k \in 0 .. n - 1 : c[k] \in [S -> Elem] /\ Distinct(c[k], S)
  BY RunType
<1>2. 0 \in T
  OBVIOUS
<1>3. ASSUME NEW k \in 0 .. n - 2, k \in T PROVE k + 1 \in T
  <2> DEFINE a == Pick(r[n - 2 - k], k + 1)
             g == c[k + 1]
  <2>1. a \in 0 .. k + 1 /\ g \in [S -> Elem]
    <3>1. k + 1 \in 0 .. n - 1
      OBVIOUS
    <3> QED BY <1>1, <3>1
  <2>2. a \in S /\ k + 1 \in S
    BY <2>1 DEF Index
  <2>3. c[k] = Swap(g, a, k + 1)
    BY DEF Run
  <2>4. ASSUME NEW m \in (k + 1) + 1 .. n - 1 PROVE c[0][m] = g[m]
    <3>1. m \in k + 1 .. n - 1 /\ m \in S /\ m # k + 1 /\ m # a
      BY <2>1 DEF Index
    <3>2. c[0][m] = c[k][m]
      BY <1>3, <3>1
    <3> HIDE DEF a, g, T
    <3>3. Swap(g, a, k + 1)[m] = g[m]
      BY <2>1, <2>2, <3>1 DEF Swap
    <3> QED BY <2>3, <3>2, <3>3
  <2>5. k + 1 \in 0 .. n - 1
    OBVIOUS
  <2> QED BY <2>4, <2>5
<1>4. \A k \in 0 .. n - 2 : k \in T => k + 1 \in T
  BY <1>3
<1>5. \A k \in 0 .. n - 1 : k \in T
  <2> HIDE DEF T
  <2> QED BY <1>0, <1>2, <1>4, Upward
<1> QED BY <1>5

LEMMA SameDraws ==
  ASSUME NEW n \in 1 .. MaxSize, NEW r \in Numbers, NEW s \in Numbers,
         NEW f \in [Index(n) -> Elem], Distinct(f, Index(n)),
         NEW c, NEW d, Run(c, f, n, r, 0), Run(d, f, n, s, 0), c[0] = d[0]
  PROVE  \A k \in 0 .. n - 2 : Pick(r[n - 2 - k], k + 1) = Pick(s[n - 2 - k], k + 1)
<1> DEFINE S == Index(n)
           T == {k \in 0 .. n - 1 : c[k] = d[k]}
<1>0. n \in Nat \ {0}
  OBVIOUS
<1>1. n - 1 \in T
  BY DEF Run
<1>2. ASSUME NEW k \in 0 .. n - 2, k + 1 \in T
      PROVE  k \in T /\ Pick(r[n - 2 - k], k + 1) = Pick(s[n - 2 - k], k + 1)
  <2> DEFINE a == Pick(r[n - 2 - k], k + 1)
             b == Pick(s[n - 2 - k], k + 1)
             g == c[k + 1]
  <2>1. a \in 0 .. k + 1 /\ b \in 0 .. k + 1 /\ g \in [S -> Elem] /\ Distinct(g, S)
    <3>1. /\ \A m \in 0 .. n - 2 : Pick(r[n - 2 - m], m + 1) \in 0 .. m + 1
          /\ \A m \in 0 .. n - 1 : c[m] \in [S -> Elem] /\ Distinct(c[m], S)
      BY RunType
    <3>2. \A m \in 0 .. n - 2 : Pick(s[n - 2 - m], m + 1) \in 0 .. m + 1
      BY RunType
    <3>3. k + 1 \in 0 .. n - 1
      OBVIOUS
    <3> QED BY <3>1, <3>2, <3>3
  <2>2. a \in S /\ b \in S /\ k + 1 \in S /\ k + 1 \in k + 1 .. n - 1 /\ k \in 0 .. n - 1
    BY <2>1 DEF Index
  <2>3. c[k] = Swap(g, a, k + 1) /\ d[k] = Swap(g, b, k + 1)
    BY <1>2 DEF Run
  <2>4. c[0][k + 1] = c[k][k + 1] /\ d[0][k + 1] = d[k][k + 1]
    BY <2>2, RunKeeps
  <2>5. c[k][k + 1] = g[a] /\ d[k][k + 1] = g[b]
    BY <2>1, <2>2, <2>3 DEF Swap
  <2>6. a = b
    BY <2>1, <2>2, <2>4, <2>5 DEF Distinct
  <2> QED BY <2>2, <2>3, <2>6 DEF a, b
<1>3. \A k \in 0 .. n - 2 : k + 1 \in T => k \in T
  BY <1>2
<1>4. \A k \in 0 .. n - 1 : k \in T
  <2> HIDE DEF T
  <2> QED BY <1>0, <1>1, <1>3, Downward
<1>5. \A k \in 0 .. n - 2 : k + 1 \in 0 .. n - 1
  OBVIOUS
<1> QED BY <1>2, <1>4, <1>5

-----------------------------------------------------------------------------
\* The constructor computes Result.
LEMMA VecIsResult ==
  ASSUME TypeOK, Traced, Placed, phase = "shuffled"
  PROVE  vec = Result(input, size, rands)
<1>1. CASE size = 0
  <2>1. Index(size) = {}
    BY <1>1 DEF Index
  <2>2. vec = input
    BY <2>1 DEF TypeOK
  <2> QED BY <1>1, <2>2 DEF Result
<1>2. CASE size # 0
  <2>1. size \in Nat \ {0}
    BY <1>2 DEF TypeOK
  <2>2. past[size - 1] = input /\ vec = past[0]
    BY <2>1 DEF Traced, Placed
  <2>3. ASSUME NEW k \in 0 .. size - 2
        PROVE  past[k] = Swap(past[k + 1], Pick(rands[size - 2 - k], k + 1), k + 1)
    <3>1. k + 1 \in 1 .. size - 1 /\ (k + 1) - 1 = k /\ size - 1 - (k + 1) = size - 2 - k
      BY <2>1
    <3>2. SwapAt(k + 1)
      BY <3>1 DEF Traced
    <3> QED BY <3>1, <3>2 DEF SwapAt, SwapIndex
  <2>4. Run(past, input, size, rands, 0)
    BY <2>2, <2>3 DEF Run
  <2> QED BY <2>1, <2>2, <2>4, ResultIsRun
<1> QED BY <1>1, <1>2

\* The constructor computes Result, and two sequences of numbers lead to the same
\* order of different elements only if they draw the same place at every step.
THEOREM DrawsCorrect == Spec => []OrderTellsDraws
<1> DEFINE IInv == TypeOK /\ Counted /\ Traced /\ Placed
<1>1. Init => IInv
  BY TypeInit, TraceInit
<1>2. IInv /\ [Next]_vars => IInv'
  BY TypeStep, TraceStep
<1>3. IInv => OrderTellsDraws
  <2> SUFFICES ASSUME IInv, phase = "shuffled" PROVE OrderTellsDraws
    BY DEF OrderTellsDraws
  <2>1. vec = Result(input, size, rands)
    BY VecIsResult
  <2>2. ASSUME IsInjective(input), NEW r \in Numbers, Result(input, size, r) = vec,
               NEW k \in 1 .. size - 1
        PROVE  Pick(r[size - 1 - k], k) = Pick(rands[size - 1 - k], k)
    <3>1. /\ size \in 1 .. MaxSize /\ size \in Nat \ {0} /\ rands \in Numbers
          /\ input \in [Index(size) -> Elem]
      BY DEF TypeOK
    <3>2. Distinct(input, Index(size))
      BY <2>2, <3>1 DEF IsInjective, Distinct
    <3> HIDE DEF IInv
    <3>3. PICK c : Run(c, input, size, r, 0)
      BY <3>1, RunExists
    <3>4. PICK d : Run(d, input, size, rands, 0)
      BY <3>1, RunExists
    <3>5. c[0] = d[0]
      <4>1. Result(input, size, r) = c[0]
        BY <3>1, <3>3, ResultIsRun
      <4>2. Result(input, size, rands) = d[0]
        BY <3>1, <3>4, ResultIsRun
      <4> QED BY <2>1, <2>2, <4>1, <4>2
    <3>6. \A m \in 0 .. size - 2 :
            Pick(r[size - 2 - m], m + 1) = Pick(rands[size - 2 - m], m + 1)
      BY <3>1, <3>2, <3>3, <3>4, <3>5, SameDraws
    <3>7. k - 1 \in 0 .. size - 2 /\ size - 2 - (k - 1) = size - 1 - k /\ (k - 1) + 1 = k
      BY <3>1
    <3> QED BY <3>6, <3>7
  <2> QED BY <2>1, <2>2 DEF OrderTellsDraws
<1> HIDE DEF IInv
<1> QED BY <1>1, <1>2, <1>3, PTL DEF Spec
=============================================================================
