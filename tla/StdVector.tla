------------------------------ MODULE StdVector ------------------------------
(***************************************************************************)
(* The std::vector<std::string> behind the globals msgtmp and outbox       *)
(* (utils/nodeserver.hpp) as its unlocked users see it: the storage cells, *)
(* the finish pointer (a count) and a generation that tells one allocation *)
(* of the storage from the next.  External: libstdc++, built without -O,   *)
(* so every access goes to memory.  No locking: the users interleave these *)
(* operators as separate steps.                                            *)
(***************************************************************************)
EXTENDS Naturals, Sequences

CONSTANT Garbage      \* what a cell holds when no live string is in it

NoStrings == [cells |-> <<>>, fin |-> 0, gen |-> 0]

Vector(Elem) == [cells : Seq(Elem \cup {Garbage}), fin : Nat, gen : Nat]

\* The string found at position i; past the storage there is none.
Cell(v, i) == IF i \in DOMAIN v.cells THEN v.cells[i] ELSE Garbage

\* The range [begin, end) that a loop over v visits.
Elems(v) == [i \in 1 .. v.fin |-> Cell(v, i)]

IsFull(v) == v.fin = Len(v.cells)

\* push_back with room: the string is built in cell k ...
Build(v, k, x) == [v EXCEPT !.cells = [@ EXCEPT ![k] = x]]

\* ... and then the finish pointer is stored.
StoreFinish(v, n) == [v EXCEPT !.fin = n]

\* push_back without room: k strings move to storage of twice the size, the
\* new one follows them, and the old storage is freed.
Grow(v, k, x) ==
    [cells |-> [i \in 1 .. (IF k = 0 THEN 1 ELSE 2 * k) |->
                   IF i <= k THEN Cell(v, i) ELSE IF i = k + 1 THEN x ELSE Garbage],
     fin   |-> k + 1,
     gen   |-> v.gen + 1]

\* clear: the strings are destroyed, the storage is kept.
NoClear(v) == v                    \* a plausible bug: the copy is not followed by clear
Destroyed(v) == [i \in DOMAIN v.cells |-> IF i <= v.fin THEN Garbage ELSE v.cells[i]]
Clear(v) == [v EXCEPT !.cells = Destroyed(v), !.fin = 0]
=============================================================================
