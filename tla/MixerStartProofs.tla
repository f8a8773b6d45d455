-------------------------- MODULE MixerStartProofs --------------------------
(***************************************************************************)
(* For any number of mixers: as long as none is started again, no mixer    *)
(* leaves the loop before all have put their ready value, whatever the DHT *)
(* loses.  A get calls back with a value once, so a mixer's count is the   *)
(* number of values found; these are of different mixers, all past their   *)
(* put; and as many values as mixers are the values of all.  If the DHT    *)
(* loses nothing either, past the loop every mixer reads the keys of all,  *)
(* and a get of all the values ends the loop.                              *)
(***************************************************************************)
EXTENDS MixerStart, FiniteSetTheorems, TLAPS

USE MixersAssumption, BoundAssumption

\* The count is the number of values this get has found.
Tallied ==
    \A m \in Mixers :
      /\ pc[m] = "count" => readymixers[m] = Cardinality(found[m])
      /\ ~HasPut(m) => readymixers[m] = 0 /\ found[m] = {}

\* A first start's ready value is of a mixer that has put it.
PutByFirstStart(v) == v.inc = 0 /\ HasPut(v.by)

Honest ==
    /\ \A v \in ready : PutByFirstStart(v)
    /\ \A m \in Mixers : pc[m] = "count" => \A v \in found[m] : PutByFirstStart(v)

Inv == /\ TypeOK /\ Tallied
       /\ FirstStart => Honest /\ PassedMeansAllReady
-----------------------------------------------------------------------------
LEMMA ValuesFinite == IsFiniteSet(Values)
<1> DEFINE f == [v \in Values |-> <<v.by, v.inc>>]
           T == Mixers \X (0 .. MaxRestarts)
<1>1. IsFiniteSet(0 .. MaxRestarts)
  BY FS_Interval
<1>2. IsFiniteSet(T)
  BY <1>1, FS_Product
<1>3. f \in Injection(Values, T)
  <2>1. f \in [Values -> T]
    BY DEF Values
  <2>2. \A v, w \in Values : f[v] = f[w] => v = w
    BY DEF Values
  <2> QED BY <2>1, <2>2 DEF Injection, IsInjective
<1> HIDE DEF f, T
<1> QED BY <1>2, <1>3, FS_Injection

LEMMA FoundFinite ==
    ASSUME TypeOK, NEW m \in Mixers
    PROVE  /\ IsFiniteSet(found[m])
           /\ Cardinality(found[m]) \in 0 .. Cardinality(Values)
<1>1. found[m] \in SUBSET Values
  BY DEF TypeOK
<1>2. IsFiniteSet(found[m]) /\ Cardinality(found[m]) <= Cardinality(Values)
  BY <1>1, ValuesFinite, FS_Subset
<1>3. Cardinality(found[m]) \in Nat /\ Cardinality(Values) \in Nat
  BY <1>2, ValuesFinite, FS_CardinalityType
<1> QED BY <1>2, <1>3

\* A new batch of values adds its size to the number found.
LEMMA CountAdds ==
    ASSUME TypeOK, NEW m \in Mixers, NEW S \in SUBSET (ready \ found[m])
    PROVE  /\ Cardinality(found[m] \cup S) = Cardinality(found[m]) + Cardinality(S)
           /\ Cardinality(found[m] \cup S) \in 0 .. Cardinality(Values)
           /\ found[m] \cup S \in SUBSET Values
<1>1. found[m] \cup S \in SUBSET Values /\ S \in SUBSET Values /\ found[m] \cap S = {}
  BY DEF TypeOK
<1>2. IsFiniteSet(S) /\ IsFiniteSet(found[m] \cup S) /\ IsFiniteSet(found[m])
  BY <1>1, ValuesFinite, FS_Subset, FoundFinite
<1>3. /\ Cardinality(S) \in Nat /\ Cardinality(found[m]) \in Nat
      /\ Cardinality(found[m] \cup S) \in Nat /\ Cardinality(Values) \in Nat
  BY <1>2, ValuesFinite, FS_CardinalityType
<1>4. Cardinality(found[m] \cup S) = Cardinality(found[m]) + Cardinality(S) - Cardinality({})
  BY <1>1, <1>2, FS_Union
<1>5. Cardinality({}) = 0
  BY FS_EmptySet
<1>6. Cardinality(found[m] \cup S) <= Cardinality(Values)
  BY <1>1, ValuesFinite, FS_Subset
<1> QED BY <1>1, <1>3, <1>4, <1>5, <1>6

\* As many ready values as mixers, all put by first starts, are those of all.
LEMMA FullCountIsAll ==
    ASSUME TypeOK, Tallied, Honest, NEW m \in Mixers, pc[m] = "count", AllReady(m)
    PROVE  \A n \in Mixers : HasPut(n)
<1> DEFINE f == [v \in found[m] |-> v.by]
<1>1. found[m] \in SUBSET Values
  BY DEF TypeOK
<1>2. \A v \in found[m] : v \in Values /\ v.inc = 0 /\ HasPut(v.by)
  BY <1>1 DEF Honest, PutByFirstStart
<1>3. f \in Injection(found[m], Mixers)
  <2>1. f \in [found[m] -> Mixers]
    BY <1>2 DEF Values
  <2>2. \A v, w \in found[m] : v.by = w.by => v = w
    BY <1>2 DEF Values
  <2> QED BY <2>1, <2>2 DEF Injection, IsInjective
<1>4. Cardinality(found[m]) = Cardinality(Mixers)
  BY DEF Tallied, AllReady, Needed
<1>5. f \in Surjection(found[m], Mixers)
  <2> HIDE DEF f
  <2> QED BY <1>3, <1>4, FS_Injection
<1>6. \A n \in Mixers : \E v \in found[m] : v.by = n
  BY <1>5 DEF Surjection
<1> QED BY <1>2, <1>6
-----------------------------------------------------------------------------
LEMMA ValueType == ASSUME TypeOK, NEW m \in Mixers PROVE Value(m) \in Values
BY DEF TypeOK, Value, Values

\* A put leaves at most its own value.
LEMMA PutAddsOne == ASSUME NEW v, NEW success PROVE Left(v, success) \subseteq {v}
BY DEF Left

\* Asking for values of the DHT keeps the types of the two it sets.
LEMMA AskType ==
    ASSUME TypeOK, NEW m \in Mixers, NEW S \in SUBSET Values, Ask(m, S)
    PROVE  asked' \in [Mixers -> SUBSET Values] /\ found' \in [Mixers -> SUBSET Values]
BY DEF TypeOK, Ask

LEMMA InvInit == Init => Inv
<1> SUFFICES ASSUME Init PROVE Inv
  OBVIOUS
<1>1. Cardinality(Values) \in Nat /\ 0 \in 0 .. Cardinality(Values)
  BY ValuesFinite, FS_CardinalityType
<1>2. TypeOK
  <2>1. 0 \in 0 .. MaxRestarts
    OBVIOUS
  <2> QED BY <1>1, <2>1 DEF Init, TypeOK
<1>3. Tallied
  BY DEF Init, Tallied
<1>4. Honest
  BY DEF Init, Honest
<1>5. PassedMeansAllReady
  BY DEF Init, PassedMeansAllReady, Passed
<1> QED BY <1>2, <1>3, <1>4, <1>5 DEF Inv

LEMMA TypeStep == TypeOK /\ Tallied /\ [Next]_vars => TypeOK' /\ Tallied'
<1> SUFFICES ASSUME TypeOK, Tallied, [Next]_vars PROVE TypeOK' /\ Tallied'
  OBVIOUS
<1>0. 0 \in 0 .. Cardinality(Values)
  BY ValuesFinite, FS_CardinalityType
<1>1. ASSUME NEW m \in Mixers, PutKey(m) PROVE TypeOK' /\ Tallied'
  <2>1. publickeys' \subseteq Values
    <3>1. PICK success \in BOOLEAN : publickeys' = publickeys \cup Left(Value(m), success)
      BY <1>1 DEF PutKey
    <3>2. Left(Value(m), success) \subseteq {Value(m)}
      BY PutAddsOne
    <3> QED BY <3>1, <3>2, ValueType DEF TypeOK
  <2>2. TypeOK'
    <3>1. lost' \in BOOLEAN
      BY <1>1 DEF PutKey, TypeOK
    <3> QED BY <1>1, <2>1, <3>1 DEF PutKey, Goto, TypeOK
  <2>3. Tallied'
    BY <1>1 DEF PutKey, Goto, TypeOK, Tallied, HasPut
  <2> QED BY <2>2, <2>3
<1>2. ASSUME NEW m \in Mixers, PutReady(m) PROVE TypeOK' /\ Tallied'
  <2>1. ready' \subseteq Values
    <3>1. PICK success \in BOOLEAN : ready' = ready \cup Left(Value(m), success)
      BY <1>2 DEF PutReady
    <3>2. Left(Value(m), success) \subseteq {Value(m)}
      BY PutAddsOne
    <3> QED BY <3>1, <3>2, ValueType DEF TypeOK
  <2>2. TypeOK'
    <3>1. lost' \in BOOLEAN
      BY <1>2 DEF PutReady, TypeOK
    <3>2. asked' \in [Mixers -> SUBSET Values] /\ found' \in [Mixers -> SUBSET Values]
      BY <1>2, <2>1, AskType DEF PutReady
    <3> QED BY <1>2, <2>1, <3>1, <3>2 DEF PutReady, Goto, TypeOK
  <2>3. Tallied'
    BY <1>2, FS_EmptySet DEF PutReady, Goto, Ask, TypeOK, Tallied, HasPut
  <2> QED BY <2>2, <2>3
<1>3. ASSUME NEW m \in Mixers, Count(m) PROVE TypeOK' /\ Tallied'
  <2>1. PICK S \in SUBSET (ready \ found[m]) :
          /\ found' = [found EXCEPT ![m] = found[m] \cup S]
          /\ readymixers' = [readymixers EXCEPT ![m] = readymixers[m] + Cardinality(S)]
    BY <1>3 DEF Count
  <2>2. readymixers[m] = Cardinality(found[m]) /\ pc[m] = "count"
    BY <1>3 DEF Count, Tallied
  <2>3. /\ readymixers[m] + Cardinality(S) = Cardinality(found[m] \cup S)
        /\ Cardinality(found[m] \cup S) \in 0 .. Cardinality(Values)
        /\ found[m] \cup S \in SUBSET Values
    BY <2>2, CountAdds
  <2>4. UNCHANGED <<pc, inc, restarts, ready, publickeys, asked, ipspub, lost>>
    BY <1>3 DEF Count
  <2>5. found' \in [Mixers -> SUBSET Values]
    BY <2>1, <2>3 DEF TypeOK
  <2>6. readymixers' \in [Mixers -> 0 .. Cardinality(Values)]
    BY <2>1, <2>3 DEF TypeOK
  <2>7. TypeOK'
    BY <2>4, <2>5, <2>6 DEF TypeOK
  <2>8. found'[m] = found[m] \cup S /\ readymixers'[m] = Cardinality(found'[m])
    BY <2>1, <2>3 DEF TypeOK
  <2>9. \A n \in Mixers \ {m} : found'[n] = found[n] /\ readymixers'[n] = readymixers[n]
    BY <2>1 DEF TypeOK
  <2>10. Tallied'
    BY <2>2, <2>4, <2>8, <2>9 DEF Tallied, HasPut
  <2> QED BY <2>7, <2>10
<1>4. ASSUME NEW m \in Mixers, Pass(m) PROVE TypeOK' /\ Tallied'
  <2>1. TypeOK'
    <3>1. lost' \in BOOLEAN
      BY <1>4 DEF Pass, TypeOK
    <3>2. asked' \in [Mixers -> SUBSET Values] /\ found' \in [Mixers -> SUBSET Values]
      BY <1>4, AskType DEF Pass, TypeOK
    <3> QED BY <1>4, <3>1, <3>2 DEF Pass, Goto, TypeOK
  <2>2. Tallied'
    BY <1>4 DEF Pass, Goto, Ask, TypeOK, Tallied, HasPut
  <2> QED BY <2>1, <2>2
<1>5. ASSUME NEW m \in Mixers, Again(m) PROVE TypeOK' /\ Tallied'
  <2>1. TypeOK'
    <3>1. lost' \in BOOLEAN
      BY <1>5 DEF Again, TypeOK
    <3>2. asked' \in [Mixers -> SUBSET Values] /\ found' \in [Mixers -> SUBSET Values]
      BY <1>5, AskType DEF Again, TypeOK
    <3> QED BY <1>0, <1>5, <3>1, <3>2 DEF Again, Reset, TypeOK
  <2>2. Tallied'
    BY <1>5, FS_EmptySet DEF Again, Ask, Reset, TypeOK, Tallied, HasPut
  <2> QED BY <2>1, <2>2
<1>6. ASSUME NEW m \in Mixers, FindKeys(m) PROVE TypeOK' /\ Tallied'
  <2>1. PICK S \in SUBSET (publickeys \ found[m]) :
          /\ found' = [found EXCEPT ![m] = found[m] \cup S]
          /\ ipspub' = [ipspub EXCEPT ![m] = ipspub[m] \cup S]
    BY <1>6 DEF FindKeys
  <2>2. pc[m] = "get keys" /\ UNCHANGED <<pc, inc, restarts, ready, publickeys, asked, readymixers, lost>>
    BY <1>6 DEF FindKeys
  <2>3. S \in SUBSET Values
    BY DEF TypeOK
  <2>4. found' \in [Mixers -> SUBSET Values] /\ ipspub' \in [Mixers -> SUBSET Values]
    BY <2>1, <2>3 DEF TypeOK
  <2>5. TypeOK'
    BY <2>2, <2>4 DEF TypeOK
  <2>6. Tallied'
    BY <2>1, <2>2 DEF TypeOK, Tallied, HasPut
  <2> QED BY <2>5, <2>6
<1>7. ASSUME NEW m \in Mixers, StartRoundAsMixer(m) PROVE TypeOK' /\ Tallied'
  <2>1. TypeOK'
    <3>1. lost' \in BOOLEAN
      BY <1>7 DEF StartRoundAsMixer, TypeOK
    <3>2. asked' \in [Mixers -> SUBSET Values] /\ found' \in [Mixers -> SUBSET Values]
      BY <1>7, AskType DEF StartRoundAsMixer
    <3> QED BY <1>7, <3>1, <3>2 DEF StartRoundAsMixer, Goto, TypeOK
  <2>2. Tallied'
    BY <1>7 DEF StartRoundAsMixer, Goto, Ask, TypeOK, Tallied, HasPut
  <2> QED BY <2>1, <2>2
<1>8. ASSUME NEW m \in Mixers, Restart(m) PROVE TypeOK' /\ Tallied'
  <2>1. restarts' \in 0 .. MaxRestarts
    <3>1. restarts \in 0 .. MaxRestarts /\ restarts < MaxRestarts /\ restarts' = restarts + 1
      BY <1>8 DEF Restart, TypeOK
    <3> QED BY <3>1
  <2>2. inc' \in [Mixers -> 0 .. MaxRestarts]
    BY <1>8, <2>1 DEF Restart, TypeOK
  <2>3. TypeOK'
    <3>1. asked' \in [Mixers -> SUBSET Values] /\ found' \in [Mixers -> SUBSET Values]
      BY <1>8, AskType DEF Restart
    <3> QED BY <1>0, <1>8, <2>1, <2>2, <3>1 DEF Restart, Goto, TypeOK
  <2>4. Tallied'
    BY <1>8 DEF Restart, Goto, Ask, TypeOK, Tallied, HasPut
  <2> QED BY <2>3, <2>4
<1>9. CASE Expire
  <2>1. TypeOK'
    BY <1>9 DEF Expire, TypeOK
  <2>2. Tallied'
    BY <1>9 DEF Expire, Tallied, HasPut
  <2> QED BY <2>1, <2>2
<1>10. CASE UNCHANGED vars
  <2>1. TypeOK'
    BY <1>10 DEF vars, TypeOK
  <2>2. Tallied'
    BY <1>10 DEF vars, Tallied, HasPut
  <2> QED BY <2>1, <2>2
<1> QED BY <1>1, <1>2, <1>3, <1>4, <1>5, <1>6, <1>7, <1>8, <1>9, <1>10 DEF Next, Run

\* No step makes a restarted mixer one that was started once.
LEMMA FirstStartBefore ==
    ASSUME TypeOK, [Next]_vars, FirstStart'
    PROVE  FirstStart /\ inc' = inc
<1>1. CASE \E m \in Mixers : Restart(m)
  <2>1. PICK m \in Mixers : Restart(m)
    BY <1>1
  <2>2. restarts \in Nat /\ inc'[m] = restarts + 1
    <3>1. restarts \in 0 .. MaxRestarts
      BY DEF TypeOK
    <3>2. restarts' = restarts + 1 /\ inc' = [inc EXCEPT ![m] = restarts']
      BY <2>1 DEF Restart
    <3>3. inc'[m] = restarts + 1
      BY <3>2 DEF TypeOK
    <3> QED BY <3>1, <3>3
  <2> QED BY <2>2 DEF FirstStart
<1>2. CASE UNCHANGED inc
  BY <1>2 DEF FirstStart
<1> QED BY <1>1, <1>2 DEF Next, Run, vars, Expire, PutKey, PutReady, Count, Pass, Again,
                          FindKeys, StartRoundAsMixer

LEMMA BarrierStep ==
    ASSUME Inv, [Next]_vars, FirstStart'
    PROVE  Honest' /\ PassedMeansAllReady'
<1>0. /\ TypeOK /\ Tallied /\ Honest /\ PassedMeansAllReady
      /\ FirstStart /\ inc' = inc
  BY FirstStartBefore DEF Inv
<1> USE <1>0
<1>1. ASSUME NEW m \in Mixers, PutKey(m) PROVE Honest' /\ PassedMeansAllReady'
  <2>1. pc' = [pc EXCEPT ![m] = "put ready"] /\ pc[m] = "put key"
        /\ UNCHANGED <<ready, found>>
    BY <1>1 DEF PutKey, Goto
  <2>2. \A n \in Mixers \ {m} : HasPut(n)' <=> HasPut(n)
    BY <2>1 DEF TypeOK, HasPut
  <2>3. ~HasPut(m)
    BY <2>1 DEF HasPut
  <2>4. \A v \in Values : PutByFirstStart(v) => PutByFirstStart(v)'
    BY <2>2, <2>3 DEF PutByFirstStart, Values
  <2>5. Honest'
    BY <2>1, <2>4 DEF Honest, TypeOK
  <2>6. PassedMeansAllReady'
    BY <2>1, <2>2, <2>3 DEF PassedMeansAllReady, Passed, TypeOK
  <2> QED BY <2>5, <2>6
<1>2. ASSUME NEW m \in Mixers, PutReady(m) PROVE Honest' /\ PassedMeansAllReady'
  <2>1. /\ pc[m] = "put ready" /\ pc' = [pc EXCEPT ![m] = "count"]
        /\ found' = [found EXCEPT ![m] = {}]
    BY <1>2 DEF PutReady, Goto, Ask
  <2>2. ready' \subseteq ready \cup {Value(m)}
    <3>1. PICK success \in BOOLEAN : ready' = ready \cup Left(Value(m), success)
      BY <1>2 DEF PutReady, Ask
    <3>2. Left(Value(m), success) \subseteq {Value(m)}
      BY PutAddsOne
    <3> QED BY <3>1, <3>2
  <2>3. HasPut(m)' /\ \A n \in Mixers \ {m} : HasPut(n)' <=> HasPut(n)
    BY <2>1 DEF TypeOK, HasPut
  <2>4. \A v \in Values : PutByFirstStart(v) => PutByFirstStart(v)'
    BY <2>3 DEF PutByFirstStart, Values
  <2>5. PutByFirstStart(Value(m))'
    BY <2>3 DEF PutByFirstStart, Value, FirstStart
  <2>6. found'[m] = {} /\ \A n \in Mixers \ {m} : found'[n] = found[n] /\ pc'[n] = pc[n]
    BY <2>1 DEF TypeOK
  <2>7. \A v \in ready' : PutByFirstStart(v)'
    <3>1. Value(m)' = Value(m)
      BY DEF Value
    <3>2. \A v \in ready : v \in Values /\ PutByFirstStart(v)
      BY DEF Honest, TypeOK
    <3>3. \A v \in ready : PutByFirstStart(v)'
      BY <2>4, <3>2
    <3> QED BY <2>2, <2>5, <3>1, <3>3
  <2>8. \A n \in Mixers : pc'[n] = "count" => \A v \in found'[n] : PutByFirstStart(v)'
    BY <2>4, <2>6 DEF Honest, TypeOK
  <2>9. Honest'
    BY <2>7, <2>8 DEF Honest
  <2>10. PassedMeansAllReady'
    BY <2>1, <2>3 DEF PassedMeansAllReady, Passed, TypeOK
  <2> QED BY <2>9, <2>10
<1>3. ASSUME NEW m \in Mixers, Count(m) PROVE Honest' /\ PassedMeansAllReady'
  <2>1. PICK S \in SUBSET (ready \ found[m]) : found' = [found EXCEPT ![m] = found[m] \cup S]
    BY <1>3 DEF Count
  <2>2. UNCHANGED <<pc, ready>>
    BY <1>3 DEF Count
  <2>3. \A v : PutByFirstStart(v)' <=> PutByFirstStart(v)
    BY <2>2 DEF PutByFirstStart, HasPut
  <2>4. \A n \in Mixers : pc[n] = "count" => \A v \in found'[n] : PutByFirstStart(v)
    BY <2>1 DEF Honest, TypeOK
  <2>5. Honest'
    BY <2>2, <2>3, <2>4 DEF Honest
  <2>6. PassedMeansAllReady'
    BY <2>2 DEF PassedMeansAllReady, Passed, HasPut
  <2> QED BY <2>5, <2>6
<1>4. ASSUME NEW m \in Mixers, Pass(m) PROVE Honest' /\ PassedMeansAllReady'
  <2>1. /\ pc[m] = "count" /\ AllReady(m)
        /\ pc' = [pc EXCEPT ![m] = "get keys"]
        /\ found' = [found EXCEPT ![m] = {}] /\ UNCHANGED ready
    BY <1>4 DEF Pass, Goto, Ask
  <2>2. \A n \in Mixers : HasPut(n)
    BY <2>1, FullCountIsAll
  <2>3. \A n \in Mixers : HasPut(n)'
    BY <2>1, <2>2 DEF TypeOK, HasPut
  <2>4. \A v \in Values : PutByFirstStart(v) => PutByFirstStart(v)'
    BY <2>3 DEF PutByFirstStart, Values
  <2>5. ready \subseteq Values /\ \A n \in Mixers : found[n] \subseteq Values
    BY DEF TypeOK
  <2>6. Honest'
    BY <2>1, <2>4, <2>5 DEF Honest, TypeOK
  <2>7. PassedMeansAllReady'
    BY <2>3 DEF PassedMeansAllReady
  <2> QED BY <2>6, <2>7
<1>5. ASSUME NEW m \in Mixers, Again(m) PROVE Honest' /\ PassedMeansAllReady'
  <2>1. found' = [found EXCEPT ![m] = {}] /\ UNCHANGED <<pc, ready>>
    BY <1>5 DEF Again, Ask
  <2>2. \A v : PutByFirstStart(v)' <=> PutByFirstStart(v)
    BY <2>1 DEF PutByFirstStart, HasPut
  <2>3. Honest'
    BY <2>1, <2>2 DEF Honest, TypeOK
  <2>4. PassedMeansAllReady'
    BY <2>1 DEF PassedMeansAllReady, Passed, HasPut
  <2> QED BY <2>3, <2>4
<1>6. ASSUME NEW m \in Mixers, FindKeys(m) PROVE Honest' /\ PassedMeansAllReady'
  <2>1. /\ pc[m] = "get keys" /\ UNCHANGED <<pc, ready>>
        /\ \A n \in Mixers \ {m} : found'[n] = found[n]
    BY <1>6 DEF FindKeys, TypeOK
  <2>2. \A v : PutByFirstStart(v)' <=> PutByFirstStart(v)
    BY <2>1 DEF PutByFirstStart, HasPut
  <2>3. Honest'
    BY <2>1, <2>2 DEF Honest
  <2>4. PassedMeansAllReady'
    BY <2>1 DEF PassedMeansAllReady, Passed, HasPut
  <2> QED BY <2>3, <2>4
<1>7. ASSUME NEW m \in Mixers, StartRoundAsMixer(m) PROVE Honest' /\ PassedMeansAllReady'
  <2>1. /\ pc[m] = "get keys" /\ pc' = [pc EXCEPT ![m] = "round"]
        /\ found' = [found EXCEPT ![m] = {}] /\ UNCHANGED ready
    BY <1>7 DEF StartRoundAsMixer, Goto, Ask
  <2>2. \A n \in Mixers : HasPut(n)' <=> HasPut(n)
    BY <2>1 DEF TypeOK, HasPut
  <2>3. \A v \in Values : PutByFirstStart(v)' <=> PutByFirstStart(v)
    BY <2>2 DEF PutByFirstStart, Values
  <2>4. ready \subseteq Values /\ \A n \in Mixers : found[n] \subseteq Values
    BY DEF TypeOK
  <2>5. Honest'
    BY <2>1, <2>3, <2>4 DEF Honest, TypeOK
  <2>6. PassedMeansAllReady'
    BY <2>1, <2>2 DEF PassedMeansAllReady, Passed, TypeOK
  <2> QED BY <2>5, <2>6
<1>8. ASSUME NEW m \in Mixers, Restart(m) PROVE FALSE
  <2>1. restarts \in Nat /\ restarts' = restarts + 1
    <3>1. restarts \in 0 .. MaxRestarts
      BY DEF TypeOK
    <3>2. restarts' = restarts + 1
      BY <1>8 DEF Restart
    <3> QED BY <3>1, <3>2
  <2>2. inc'[m] = restarts'
    BY <1>8 DEF Restart, TypeOK
  <2>3. inc'[m] = 0
    BY DEF FirstStart
  <2> QED BY <2>1, <2>2, <2>3
<1>9. CASE Expire
  <2>1. UNCHANGED <<pc, found>> /\ ready' \subseteq ready
    BY <1>9 DEF Expire
  <2>2. \A v : PutByFirstStart(v)' <=> PutByFirstStart(v)
    BY <2>1 DEF PutByFirstStart, HasPut
  <2>3. Honest'
    BY <2>1, <2>2 DEF Honest
  <2>4. PassedMeansAllReady'
    BY <2>1 DEF PassedMeansAllReady, Passed, HasPut
  <2> QED BY <2>3, <2>4
<1>10. CASE UNCHANGED vars
  <2>1. \A v : PutByFirstStart(v)' <=> PutByFirstStart(v)
    BY <1>10 DEF vars, PutByFirstStart, HasPut
  <2>2. Honest'
    BY <1>10, <2>1 DEF vars, Honest
  <2>3. PassedMeansAllReady'
    BY <1>10 DEF vars, PassedMeansAllReady, Passed, HasPut
  <2> QED BY <2>2, <2>3
<1> QED BY <1>1, <1>2, <1>3, <1>4, <1>5, <1>6, <1>7, <1>8, <1>9, <1>10 DEF Next, Run

LEMMA InvCorrect == Spec => []Inv
<1>1. Inv /\ [Next]_vars => Inv'
  <2> SUFFICES ASSUME Inv, [Next]_vars PROVE Inv'
    OBVIOUS
  <2>1. TypeOK' /\ Tallied'
    BY TypeStep DEF Inv
  <2>2. FirstStart' => Honest' /\ PassedMeansAllReady'
    BY BarrierStep
  <2> QED BY <2>1, <2>2 DEF Inv
<1> QED BY <1>1, InvInit, PTL DEF Spec

\* Every variable keeps its type; a count never exceeds the values there can be.
THEOREM TypeCorrect == Spec => []TypeOK
<1>1. Inv => TypeOK
  BY DEF Inv
<1> QED BY <1>1, InvCorrect, PTL

\* For any number of mixers and whatever the DHT loses, the barrier of
\* Mixer::Start holds as long as no mixer was started again.
THEOREM BarrierCorrect == Spec => []BarrierHolds
<1>1. Inv => BarrierHolds
  BY DEF Inv, BarrierHolds
<1> QED BY <1>1, InvCorrect, PTL
-----------------------------------------------------------------------------
(***************************************************************************)
(* The invariant behind KeysArePut.  Without a loss and before any mixer   *)
(* is started again, each mixer past its first put has its key in the DHT; *)
(* a get of the keys begins when all have, so it asks for all of them.     *)
(***************************************************************************)
FirstKey(m) == [by |-> m, inc |-> 0]
FirstKeys == {FirstKey(m) : m \in Mixers}

KeysOf(m) ==
    /\ pc[m] # "put key" => FirstKey(m) \in publickeys
    /\ ~Passed(m) => ipspub[m] = {}
    /\ pc[m] = "get keys" => asked[m] = FirstKeys /\ found[m] = ipspub[m] /\ ipspub[m] \subseteq FirstKeys
    /\ pc[m] = "round" => ipspub[m] = FirstKeys

Smooth == FirstStart /\ ~lost
Keys == Smooth => publickeys \subseteq FirstKeys /\ \A m \in Mixers : KeysOf(m)

LEMMA SmoothBefore ==
  ASSUME Inv, [Next]_vars, Smooth'
  PROVE  Smooth /\ inc' = inc
<1>1. FirstStart /\ inc' = inc
  BY FirstStartBefore DEF Smooth, Inv
<1>2. ~lost
  BY DEF Smooth, Next, Run, PutKey, PutReady, Count, Pass, Again, FindKeys, StartRoundAsMixer, Restart, Expire, vars
<1> QED BY <1>1, <1>2 DEF Smooth

\* A mixer has one first start.
LEMMA FirstKeysCount == IsFiniteSet(FirstKeys) /\ Cardinality(FirstKeys) = Needed
<1> DEFINE f == [n \in Mixers |-> FirstKey(n)]
<1>1. f \in Bijection(Mixers, FirstKeys)
  <2>1. f \in [Mixers -> FirstKeys] /\ \A n, k \in Mixers : f[n] = f[k] => n = k
    BY DEF FirstKeys, FirstKey
  <2>2. \A v \in FirstKeys : \E n \in Mixers : f[n] = v
    BY DEF FirstKeys
  <2> QED BY <2>1, <2>2 DEF Bijection, Injection, Surjection, IsInjective
<1> HIDE DEF f
<1> QED BY <1>1, MixersAssumption, FS_Bijection DEF ExistsBijection, Needed

\* When every mixer is past its puts, the keys there are those of all.
LEMMA AllKeys ==
  ASSUME publickeys \subseteq FirstKeys, \A m \in Mixers : HasPut(m) /\ KeysOf(m)
  PROVE  publickeys = FirstKeys
BY DEF HasPut, KeysOf, FirstKeys

LEMMA KeysStep ==
  ASSUME Inv, Inv', Keys, [Next]_vars
  PROVE  Keys'
<1> SUFFICES ASSUME Smooth' PROVE publickeys' \subseteq FirstKeys /\ \A m \in Mixers : KeysOf(m)'
  BY DEF Keys
<1>1. Smooth /\ inc' = inc /\ publickeys \subseteq FirstKeys /\ \A m \in Mixers : KeysOf(m)
  BY SmoothBefore DEF Keys
<1> USE <1>1
<1>2. /\ pc \in [Mixers -> {"put key", "put ready", "count", "get keys", "round"}]
      /\ found \in [Mixers -> SUBSET Values] /\ asked \in [Mixers -> SUBSET Values]
      /\ ipspub \in [Mixers -> SUBSET Values]
  BY DEF Inv, TypeOK
<1>3. ASSUME NEW m \in Mixers, PutKey(m) PROVE publickeys' \subseteq FirstKeys /\ \A n \in Mixers : KeysOf(n)'
  <2>1. publickeys' = publickeys \cup {FirstKey(m)}
    <3>1. PICK success \in BOOLEAN : publickeys' = publickeys \cup Left(Value(m), success) /\ lost' = (lost \/ ~success)
      BY <1>3 DEF PutKey
    <3>2. success
      BY <3>1 DEF Smooth
    <3>3. Value(m) = FirstKey(m)
      BY DEF Value, FirstKey, Smooth, FirstStart
    <3> QED BY <3>1, <3>2, <3>3 DEF Left
  <2>2. publickeys' \subseteq FirstKeys
    BY <2>1 DEF FirstKeys
  <2>3. ASSUME NEW n \in Mixers PROVE KeysOf(n)'
    BY <1>3, <1>2, <2>1 DEF PutKey, Goto, KeysOf, Passed
  <2> QED BY <2>2, <2>3
<1>4. ASSUME NEW m \in Mixers, PutReady(m) PROVE publickeys' \subseteq FirstKeys /\ \A n \in Mixers : KeysOf(n)'
  <2>1. ASSUME NEW n \in Mixers PROVE KeysOf(n)'
    BY <1>4, <1>2 DEF PutReady, Goto, Ask, KeysOf, Passed
  <2> QED BY <1>4, <2>1 DEF PutReady
<1>5. ASSUME NEW m \in Mixers, Count(m) PROVE publickeys' \subseteq FirstKeys /\ \A n \in Mixers : KeysOf(n)'
  <2>1. ASSUME NEW n \in Mixers PROVE KeysOf(n)'
    BY <1>5, <1>2 DEF Count, KeysOf, Passed
  <2> QED BY <1>5, <2>1 DEF Count
<1>6. ASSUME NEW m \in Mixers, Pass(m) PROVE publickeys' \subseteq FirstKeys /\ \A n \in Mixers : KeysOf(n)'
  <2>1. Passed(m)'
    BY <1>6, <1>2 DEF Pass, Goto, Passed
  <2>2. \A n \in Mixers : HasPut(n)'
    BY <2>1 DEF Inv, Smooth, PassedMeansAllReady
  <2>3. \A n \in Mixers : HasPut(n)
    BY <1>6, <1>2, <2>2 DEF Pass, Goto, HasPut
  <2>4. publickeys = FirstKeys
    BY <2>3, AllKeys
  <2>5. asked' = [asked EXCEPT ![m] = publickeys] /\ found' = [found EXCEPT ![m] = {}] /\ pc[m] = "count"
        /\ pc' = [pc EXCEPT ![m] = "get keys"] /\ UNCHANGED <<publickeys, ipspub>>
    BY <1>6 DEF Pass, Goto, Ask
  <2>6. ASSUME NEW n \in Mixers PROVE KeysOf(n)'
    BY <1>2, <2>4, <2>5 DEF KeysOf, Passed
  <2> QED BY <2>5, <2>6
<1>7. ASSUME NEW m \in Mixers, Again(m) PROVE publickeys' \subseteq FirstKeys /\ \A n \in Mixers : KeysOf(n)'
  <2>1. ASSUME NEW n \in Mixers PROVE KeysOf(n)'
    BY <1>7, <1>2 DEF Again, Ask, KeysOf, Passed
  <2> QED BY <1>7, <2>1 DEF Again
<1>8. ASSUME NEW m \in Mixers, FindKeys(m) PROVE publickeys' \subseteq FirstKeys /\ \A n \in Mixers : KeysOf(n)'
  <2>1. ASSUME NEW n \in Mixers PROVE KeysOf(n)'
    <3>1. CASE n = m
      <4>1. PICK S \in SUBSET publickeys :
              /\ found' = [found EXCEPT ![m] = @ \cup S] /\ ipspub' = [ipspub EXCEPT ![m] = @ \cup S]
        BY <1>8 DEF FindKeys
      <4>2. pc[m] = "get keys" /\ UNCHANGED <<pc, publickeys, asked>>
        BY <1>8 DEF FindKeys
      <4>3. found'[m] = found[m] \cup S /\ ipspub'[m] = ipspub[m] \cup S
        BY <1>2, <4>1
      <4> QED BY <3>1, <4>1, <4>2, <4>3 DEF KeysOf, Passed
    <3>2. CASE n # m
      BY <1>8, <1>2, <3>2 DEF FindKeys, KeysOf, Passed
    <3> QED BY <3>1, <3>2
  <2> QED BY <1>8, <2>1 DEF FindKeys
<1>9. ASSUME NEW m \in Mixers, StartRoundAsMixer(m)
      PROVE  publickeys' \subseteq FirstKeys /\ \A n \in Mixers : KeysOf(n)'
  <2>1. asked[m] \subseteq found[m]
    BY <1>9 DEF StartRoundAsMixer, Missed, Smooth
  <2>2. ASSUME NEW n \in Mixers PROVE KeysOf(n)'
    <3>1. CASE n = m
      BY <1>9, <1>2, <2>1, <3>1 DEF StartRoundAsMixer, Goto, Ask, KeysOf, Passed
    <3>2. CASE n # m
      BY <1>9, <1>2, <3>2 DEF StartRoundAsMixer, Goto, Ask, KeysOf, Passed
    <3> QED BY <3>1, <3>2
  <2> QED BY <1>9, <2>2 DEF StartRoundAsMixer
<1>10. ASSUME NEW m \in Mixers, Restart(m) PROVE FALSE
  <2>1. inc'[m] = restarts + 1
    BY <1>10 DEF Restart, Inv, TypeOK
  <2>2. inc'[m] = 0
    BY DEF Smooth, FirstStart
  <2>3. restarts \in Nat
    <3>1. restarts \in 0 .. MaxRestarts
      BY DEF Inv, TypeOK
    <3> QED BY <3>1
  <2> QED BY <2>1, <2>2, <2>3
<1>11. CASE Expire
  BY <1>11 DEF Expire, Smooth
<1>12. CASE UNCHANGED vars
  BY <1>12 DEF vars, KeysOf, Passed
<1> QED BY <1>3, <1>4, <1>5, <1>6, <1>7, <1>8, <1>9, <1>10, <1>11, <1>12 DEF Next, Run

\* For any number of mixers: without a loss and before any mixer is started
\* again, past the barrier every mixer's key can be read, and a mixer in its
\* round has the keys of all.
THEOREM KeysCorrect == Spec => []KeysArePut
<1>1. Init => Keys
  BY DEF Init, Keys, KeysOf, Passed
<1>2. Inv /\ Keys => KeysArePut
  <2> SUFFICES ASSUME Inv, Keys, FirstStart, ~lost, NEW m \in Mixers
               PROVE  /\ Passed(m) => Cardinality(publickeys) = Needed
                      /\ pc[m] = "round" => ipspub[m] = publickeys
    BY DEF KeysArePut
  <2>1. publickeys \subseteq FirstKeys /\ \A n \in Mixers : KeysOf(n)
    BY DEF Keys, Smooth
  <2>2. Passed(m) => publickeys = FirstKeys
    BY <2>1, AllKeys DEF Inv, PassedMeansAllReady
  <2> QED BY <2>1, <2>2, FirstKeysCount DEF KeysOf, Passed
<1> QED BY <1>1, <1>2, InvCorrect, KeysStep, PTL DEF Spec
-----------------------------------------------------------------------------
(***************************************************************************)
(* The loop's condition is readymixers = Needed, not >=, so a count that   *)
(* went past Needed would never end it.  Without a loss and before any     *)
(* mixer is started again it does not, and a get that calls back with all  *)
(* that is there, once all have put, counts exactly to Needed.             *)
(***************************************************************************)
LoopEnds ==
    Smooth =>
      \A m \in Mixers : pc[m] = "count" =>
        /\ readymixers[m] <= Needed
        /\ (\A n \in Mixers : HasPut(n)) /\ ready \subseteq found[m] => AllReady(m)

\* Who has put its ready value finds it there.
PutsLast == Smooth => \A m \in Mixers : HasPut(m) => FirstKey(m) \in ready

LEMMA PutsLastStep ==
  ASSUME Inv, PutsLast, [Next]_vars
  PROVE  PutsLast'
<1> SUFFICES ASSUME Smooth' PROVE \A m \in Mixers : HasPut(m)' => FirstKey(m) \in ready'
  BY DEF PutsLast, FirstKey
<1>1. Smooth /\ inc' = inc /\ \A m \in Mixers : HasPut(m) => FirstKey(m) \in ready
  BY SmoothBefore DEF PutsLast
<1>2. pc \in [Mixers -> {"put key", "put ready", "count", "get keys", "round"}] /\ restarts \in 0 .. MaxRestarts
  BY DEF Inv, TypeOK
<1>3. ASSUME NEW m \in Mixers, PutReady(m) PROVE \A n \in Mixers : HasPut(n)' => FirstKey(n) \in ready'
  <2>1. PICK success \in BOOLEAN : ready' = ready \cup Left(Value(m), success) /\ lost' = (lost \/ ~success)
    BY <1>3 DEF PutReady
  <2>2. success
    BY <2>1 DEF Smooth
  <2>3. Value(m) = FirstKey(m)
    BY <1>1 DEF Value, FirstKey, Smooth, FirstStart
  <2>4. ready' = ready \cup {FirstKey(m)}
    BY <2>1, <2>2, <2>3 DEF Left
  <2> QED BY <1>1, <1>2, <1>3, <2>4 DEF PutReady, Goto, HasPut
<1>4. ASSUME NEW m \in Mixers, PutKey(m) PROVE \A n \in Mixers : HasPut(n)' => FirstKey(n) \in ready'
  BY <1>1, <1>2, <1>4 DEF PutKey, Goto, HasPut
<1>5. ASSUME NEW m \in Mixers, Count(m) \/ Pass(m) \/ Again(m) \/ FindKeys(m) \/ StartRoundAsMixer(m)
      PROVE  \A n \in Mixers : HasPut(n)' => FirstKey(n) \in ready'
  <2>1. ready' = ready /\ \A n \in Mixers : HasPut(n)' => HasPut(n)
    BY <1>2, <1>5 DEF Count, Pass, Again, FindKeys, StartRoundAsMixer, Goto, HasPut
  <2> QED BY <1>1, <2>1
<1>6. ASSUME NEW m \in Mixers, Restart(m) PROVE \A n \in Mixers : HasPut(n)' => FirstKey(n) \in ready'
  BY <1>1, <1>2, <1>6 DEF Restart, Goto, HasPut
<1>7. CASE Expire
  BY <1>7 DEF Expire, Smooth
<1>8. CASE UNCHANGED vars
  BY <1>1, <1>8 DEF vars, HasPut
<1> QED BY <1>3, <1>4, <1>5, <1>6, <1>7, <1>8 DEF Next, Run

\* For any number of mixers: without a loss and before any mixer is started
\* again, no count goes past Needed, and a get of all the ready values ends the
\* loop; the part of EveryoneStarts that needs no fairness.
THEOREM LoopCorrect == Spec => []LoopEnds
<1>1. Init => PutsLast
  BY DEF Init, PutsLast, HasPut
<1>2. Inv /\ PutsLast => LoopEnds
  <2> SUFFICES ASSUME Inv, PutsLast, Smooth, NEW m \in Mixers, pc[m] = "count"
               PROVE  /\ readymixers[m] <= Needed
                      /\ (\A n \in Mixers : HasPut(n)) /\ ready \subseteq found[m] => AllReady(m)
    BY DEF LoopEnds
  <2>1. found[m] \subseteq FirstKeys
    <3>1. \A v \in found[m] : v \in Values /\ v.inc = 0
      BY DEF Inv, TypeOK, Smooth, Honest, PutByFirstStart
    <3> QED BY <3>1 DEF Values, FirstKeys, FirstKey
  <2>2. readymixers[m] = Cardinality(found[m])
    BY DEF Inv, Tallied
  <2>3. Cardinality(found[m]) <= Needed
    BY <2>1, FirstKeysCount, FS_Subset
  <2>4. ASSUME \A n \in Mixers : HasPut(n), ready \subseteq found[m] PROVE AllReady(m)
    <3>1. found[m] = FirstKeys
      BY <2>1, <2>4 DEF PutsLast, FirstKeys
    <3> QED BY <2>2, <3>1, FirstKeysCount DEF AllReady
  <2> QED BY <2>2, <2>3, <2>4
<1> QED BY <1>1, <1>2, InvCorrect, PutsLastStep, PTL DEF Spec
=============================================================================
