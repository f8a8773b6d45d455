------------------------------- MODULE Shuffle -------------------------------
(***************************************************************************)
(* The constructor of the class template Shuffle: a Fisher-Yates shuffle   *)
(* driven by rand() after srand(seed).  The seed stands for the numbers    *)
(* rand() returns after it, chosen once, in Init.  A mixer's and a         *)
(* client's seed is one of ten, so that they meet few of the sequences     *)
(* allowed here: what is claimed holds of every one of them, and nothing   *)
(* is claimed to be reached.                                               *)
(***************************************************************************)
EXTENDS Integers, FiniteSets, Functions

CONSTANTS Elem, MaxSize, RandMax

ASSUME SizeAssumption == MaxSize \in Nat /\ RandMax \in Nat

VARIABLES
    size, vec,   \* the members; vec is indexed from 0, as in the code
    input,       \* the constructor's argument
    rands,       \* rands[k]: what the call of rand() returns that follows k others
    calls,       \* how often rand() was called since srand
    i, index,    \* the loop counter, and the place drawn
    phase,       \* what the loop does next
    past         \* history: past[k] is vec when the loop had i = k

vars == <<size, vec, input, rands, calls, i, index, phase, past>>

Index(n) == 0 .. n - 1
Numbers == [0 .. MaxSize - 2 -> 0 .. RandMax]

\* Plausible bugs: one too many, and a draw among all places at every step.
OneMore(k) == k + 2
AllPlaces(k) == size
Choices(k) == k + 1
Pick(r, k) == r % Choices(k)

\* A plausible bug: a copy instead of a swap.
HalfSwap(f, a, b) == [f EXCEPT ![a] = f[b]]
Swap(f, a, b) == [f EXCEPT ![a] = f[b], ![b] = f[a]]
-----------------------------------------------------------------------------
Init ==
    /\ size \in 0 .. MaxSize
    /\ input \in [Index(size) -> Elem]
    /\ vec = input
    /\ rands \in Numbers
    /\ calls = 0
    /\ i = size - 1 /\ index = 0
    /\ phase = "draw"
    /\ past = [k \in Index(size) |-> input]

Draw ==
    /\ phase = "draw" /\ i > 0
    /\ index' = Pick(rands[calls], i)
    /\ calls' = calls + 1
    /\ phase' = "swap"
    /\ UNCHANGED <<size, vec, input, rands, i, past>>

SwapDrawn ==
    /\ phase = "swap"
    /\ vec' = Swap(vec, index, i)
    /\ i' = i - 1
    /\ past' = [past EXCEPT ![i - 1] = vec']
    /\ phase' = "draw"
    /\ UNCHANGED <<size, input, rands, calls, index>>

Shuffled ==
    /\ phase = "draw" /\ i <= 0
    /\ phase' = "shuffled"
    /\ UNCHANGED <<size, vec, input, rands, calls, i, index, past>>

Next == Draw \/ SwapDrawn \/ Shuffled

Spec == Init /\ [][Next]_vars
-----------------------------------------------------------------------------
\* The members and locals keep their types; both places of a swap lie within
\* the vector.
TypeOK ==
    /\ size \in 0 .. MaxSize
    /\ input \in [Index(size) -> Elem] /\ vec \in [Index(size) -> Elem]
    /\ rands \in Numbers
    /\ calls \in Index(size) \cup {0}
    /\ i \in -1 .. MaxSize
    /\ index \in Index(size) \cup {0}
    /\ phase \in {"draw", "swap", "shuffled"}
    /\ phase = "swap" => i \in Index(size) /\ index \in Index(size)
    /\ past \in [Index(size) -> [Index(size) -> Elem]]

\* The same strings in another order.
IsOrderOf(f, g) ==
    \E p \in Bijection(DOMAIN g, DOMAIN g) : f = [k \in DOMAIN g |-> g[p[k]]]

\* No step loses or repeats an element: no message of a batch is dropped or
\* sent on twice for having been shuffled.
SameElements == IsOrderOf(vec, input)

\* What the constructor makes of f when rand() returns r.
Result(f, n, r) ==
    LET after[k \in Index(n)] ==
          IF k = n - 1 THEN f
          ELSE Swap(after[k + 1], Pick(r[n - 2 - k], k + 1), k + 1)
    IN  IF n = 0 THEN f ELSE after[0]

\* The constructor computes Result, and no order of different elements is
\* favoured over another: two sequences of numbers lead to the same order only
\* if they draw the same place at every step.
OrderTellsDraws ==
    phase = "shuffled" =>
      /\ vec = Result(input, size, rands)
      /\ IsInjective(input) =>
           \A r \in Numbers :
             Result(input, size, r) = vec =>
               \A k \in 1 .. size - 1 :
                 Pick(r[size - 1 - k], k) = Pick(rands[size - 1 - k], k)
=============================================================================
