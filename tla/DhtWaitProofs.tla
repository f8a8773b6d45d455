---------------------------- MODULE DhtWaitProofs ----------------------------
(***************************************************************************)
(* For any number of operations, and without spurious wake-ups, wait and   *)
(* done_cb stay paired: wait never returns from an operation before its    *)
(* done_cb has run.  The two threads take turns: at most one operation is  *)
(* under way, and its callback is in exactly one of three places.          *)
(***************************************************************************)
EXTENDS DhtWait, SequenceTheorems, TLAPS

USE OperationsAssumption

\* Where the callback of the current operation is while its wait is not over:
\* queued, being run, or run with the wait woken up.
Queued  == ended = <<op>> /\ cpc = "idle" /\ op \notin reported
Running == ended = <<>> /\ cpc # "idle" /\ cop = op /\ op \notin reported
Missed  == ended = <<>> /\ cpc = "idle" /\ op \in reported

Turns ==
    /\ mpc \in {"set", "lock", "asleep"} => Queued \/ Running \/ Missed
    /\ mpc = "woken" => Missed
    /\ mpc = "issue" => ended = <<>> /\ cpc = "idle" /\ ~ready
    /\ mpc = "set" => ~ready /\ ~Missed
    /\ mpc # "issue" => op \in 1 .. Operations /\ op \notin returned
    /\ \A k \in reported : k <= op
    /\ returned \subseteq reported

LEMMA TypeStep == TypeOK /\ [Next]_vars => TypeOK'
<1> SUFFICES ASSUME TypeOK, [Next]_vars PROVE TypeOK'
  OBVIOUS
<1> USE DEF TypeOK
<1>1. CASE Issue
  <2>1. op + 1 \in 1 .. Operations
    BY <1>1 DEF Issue, MoreToDo
  <2>2. ended' \in Seq(1 .. Operations)
    BY <1>1, <2>1, AppendProperties DEF Issue, leavevars
  <2>3. op' \in 1 .. Operations
    BY <1>1, <2>1 DEF Issue, leavevars
  <2> QED BY <1>1, <2>2, <2>3 DEF Issue, leavevars
<1>2. CASE SetReady
  BY <1>2 DEF SetReady, leavevars
<1>3. CASE Sleep
  BY <1>3 DEF Sleep, leavevars
<1>4. CASE Return
  <2>1. op \in 1 .. Operations
    BY <1>4 DEF Return, Woken
  <2> QED BY <1>4, <2>1 DEF Return, leavevars
<1>5. CASE Call
  <2>1. Head(ended) \in 1 .. Operations /\ Tail(ended) \in Seq(1 .. Operations)
    BY <1>5, HeadTailProperties DEF Call, leavevars
  <2> QED BY <1>5, <2>1 DEF Call, leavevars
<1>6. CASE DoneCb
  <2>1. early' \in BOOLEAN /\ ready' \in BOOLEAN /\ spurred' \in BOOLEAN
    BY <1>6 DEF DoneCb
  <2>2. cop \in 1 .. Operations
    BY <1>6 DEF DoneCb
  <2>3. /\ reported' \subseteq 1 .. Operations
        /\ cpc' \in {"idle", "lock", "asleep"}
        /\ mpc' \in {"issue", "set", "lock", "asleep", "woken"}
        /\ mpc' # "issue" => op # 0
    BY <1>6, <2>2 DEF DoneCb, Notified
  <2>4. UNCHANGED <<op, ended, cop, returned, leaving, done>>
    BY <1>6 DEF DoneCb, leavevars
  <2> HIDE DEF TypeOK
  <2>5. TypeOK
    OBVIOUS
  <2> QED BY <2>1, <2>2, <2>3, <2>4, <2>5 DEF TypeOK
<1>7. CASE CleanUp \/ ShutdownCb
  BY <1>7 DEF CleanUp, Shutdown, CleanUpSleep, CleanUpReturn, ShutdownCb, InWait, NotifiedAll
<1>8. CASE UNCHANGED vars
  BY <1>8 DEF vars, leavevars
<1> QED BY <1>1, <1>2, <1>3, <1>4, <1>5, <1>6, <1>7, <1>8 DEF Next

\* Every variable keeps its type, with or without spurious wake-ups.
THEOREM TypeCorrect == Spec => []TypeOK
<1>1. Init => TypeOK
  <2> SUFFICES ASSUME Init PROVE TypeOK
    OBVIOUS
  <2>1. ended \in Seq(1 .. Operations)
    BY EmptySeq DEF Init
  <2>2. op \in 0 .. Operations /\ cop \in 0 .. Operations
    BY DEF Init
  <2>3. reported \subseteq 1 .. Operations /\ returned \subseteq 1 .. Operations
    BY DEF Init
  <2>4. ready \in BOOLEAN /\ early \in BOOLEAN /\ spurred \in BOOLEAN
    BY DEF Init
  <2> QED BY <2>1, <2>2, <2>3, <2>4, Zenon DEF Init, TypeOK
<1> QED BY <1>1, TypeStep, PTL DEF Spec

\* Once someone woke up without a notify, that stays so.
LEMMA SpurredStays == TypeOK /\ [Next]_vars /\ ~spurred' => ~spurred
BY DEF TypeOK, Next, vars, Issue, SetReady, Sleep, Return, Call, DoneCb,
       CleanUp, Shutdown, CleanUpSleep, CleanUpReturn, ShutdownCb

LEMMA TurnsStep == TypeOK /\ TypeOK' /\ Turns /\ [Next]_vars /\ ~spurred' => Turns'
<1> SUFFICES ASSUME TypeOK, TypeOK', Turns, [Next]_vars, ~spurred' PROVE Turns'
  OBVIOUS
<1> USE DEF Turns, Queued, Running, Missed
<1>o. op \in 0 .. Operations /\ reported \subseteq 1 .. Operations
  BY DEF TypeOK
<1>1. CASE Issue
  <2>1. mpc = "issue" /\ mpc' = "set" /\ op' = op + 1
    BY <1>1 DEF Issue, leavevars
  <2>2. op' \in 1 .. Operations
    BY <1>1, <1>o DEF Issue, MoreToDo
  <2>3. ended' = <<op'>> /\ cpc' = "idle" /\ ~ready'
    BY <1>1, <2>1 DEF Issue, leavevars
  <2>4. op' \notin reported'
    BY <1>1, <1>o DEF Issue, leavevars
  <2> QED BY <1>1, <2>1, <2>2, <2>3, <2>4, <1>o DEF Issue, leavevars
<1>2. CASE SetReady
  BY <1>2 DEF SetReady, leavevars
<1>3. CASE Sleep
  BY <1>3 DEF Sleep, leavevars
<1>4. CASE Return
  <2>1. mpc = "woken"
    <3>1. mpc # "asleep"
      BY <1>4 DEF Return, leavevars
    <3> QED BY <1>4, <3>1 DEF Return, Woken
  <2> QED BY <1>4, <2>1, <1>o DEF Return, leavevars
<1>5. CASE Call
  <2>1. ended # <<>> /\ cpc = "idle"
    BY <1>5 DEF Call, leavevars
  <2>2. Queued /\ mpc # "issue" /\ mpc # "woken"
    BY <2>1 DEF TypeOK
  <2>3. cop' = op /\ ended' = <<>> /\ cpc' = "lock"
    BY <1>5, <2>2 DEF Call, leavevars
  <2> QED BY <1>5, <2>2, <2>3 DEF Call, leavevars
<1>6. CASE DoneCb
  <2>1. cpc = "lock" /\ Running /\ mpc # "issue" /\ mpc # "woken"
    BY <1>6 DEF DoneCb, TypeOK
  <2>2. CASE ready
    BY <1>6, <2>1, <2>2 DEF DoneCb, Notified
  <2>3. CASE ~ready
    BY <1>6, <2>1, <2>3 DEF DoneCb
  <2> QED BY <2>2, <2>3
<1>7. CASE CleanUp \/ ShutdownCb
  BY <1>7 DEF CleanUp, Shutdown, CleanUpSleep, CleanUpReturn, ShutdownCb, InWait, NotifiedAll
<1>8. CASE UNCHANGED vars
  BY <1>8 DEF vars, leavevars
<1> QED BY <1>1, <1>2, <1>3, <1>4, <1>5, <1>6, <1>7, <1>8 DEF Next

\* For any number of operations: without spurious wake-ups, wait returns from
\* an operation only after its done_cb, and leaves no callback and no ready
\* flag behind that the next operation's wait could take for its own.
THEOREM Paired == Spec => []PairedHandshake
<1>1. Init => Turns
  BY DEF Init, Turns, Queued, Running, Missed
<1>2. TypeOK /\ TypeOK' /\ (~spurred => Turns) /\ [Next]_vars => (~spurred' => Turns')
  BY TurnsStep, SpurredStays
<1>3. TypeOK /\ (~spurred => Turns) => PairedHandshake
  BY DEF TypeOK, Turns, Queued, Running, Missed, PairedHandshake
<1> QED BY <1>1, <1>2, <1>3, TypeCorrect, PTL DEF Spec

LEMMA CallbackStep ==
  ASSUME TypeOK, [Next]_vars, ~spurred => (leaving \in {"woken", "over"} => done)
  PROVE  ~spurred' => (leaving' \in {"woken", "over"} => done')
<1>1. CASE Issue \/ SetReady \/ Sleep \/ Return \/ Call \/ DoneCb
  BY <1>1, SpurredStays DEF Issue, SetReady, Sleep, Return, Call, DoneCb, leavevars
<1>2. CASE CleanUp \/ ShutdownCb
  BY <1>2, SpurredStays DEF CleanUp, Shutdown, CleanUpSleep, CleanUpReturn, ShutdownCb,
                            InWait, NotifiedAll
<1>3. CASE UNCHANGED vars
  BY <1>3 DEF vars, leavevars
<1> QED BY <1>1, <1>2, <1>3 DEF Next

\* Whatever went before, CleanUp does not return before the callback that
\* writes to its locals, unless it wakes up spuriously.
THEOREM CleanUpWaits == Spec => []CallbackFirst
<1> DEFINE Inv == ~spurred => (leaving \in {"woken", "over"} => done)
<1>1. Init => Inv
  BY DEF Init
<1>2. TypeOK /\ Inv /\ [Next]_vars => Inv'
  BY CallbackStep
<1>3. TypeOK /\ Inv => CallbackFirst
  BY DEF CallbackFirst, TypeOK
<1> HIDE DEF Inv
<1> QED BY <1>1, <1>2, <1>3, TypeCorrect, PTL DEF Spec
-----------------------------------------------------------------------------
(***************************************************************************)
(* Why wait and CleanUp return whenever the callback was not early: while  *)
(* nobody woke up unnotified, whoever is asleep has his wake-up ahead.     *)
(***************************************************************************)
\* wait is asleep with ready set and its operation still to be reported; done_cb
\* finds ready set and does not sleep; CleanUp is asleep with its callback to come.
WakeAhead ==
    ~early /\ ~spurred =>
      /\ mpc = "asleep" => ready /\ (ended = <<op>> \/ (cpc = "lock" /\ cop = op))
      /\ cpc # "asleep"
      /\ leaving = "asleep" => ~done

\* ready is set from SetReady to Return, and no callback is there before a sleep.
Timely ==
    ~early /\ ~spurred =>
      /\ mpc \in {"lock", "asleep", "woken"} => ready
      /\ mpc \in {"lock", "asleep"} => op \notin reported
      /\ cpc # "asleep"
      /\ leaving \in {"no", "called", "asleep"} => ~done

LEMMA EarlyStays == TypeOK /\ [Next]_vars /\ ~early' => ~early
BY DEF TypeOK, Next, vars, Issue, SetReady, Sleep, Return, Call, DoneCb,
       CleanUp, Shutdown, CleanUpSleep, CleanUpReturn, ShutdownCb

LEMMA TimelyStep ==
  ASSUME TypeOK, ~spurred => Turns, Timely, [Next]_vars
  PROVE  Timely'
<1> SUFFICES ASSUME ~early', ~spurred' PROVE Timely'
  BY DEF Timely
<1>o. /\ ~early /\ ~spurred /\ Turns
      /\ mpc \in {"lock", "asleep", "woken"} => ready
      /\ mpc \in {"lock", "asleep"} => op \notin reported
      /\ cpc # "asleep"
      /\ leaving \in {"no", "called", "asleep"} => ~done
  BY EarlyStays, SpurredStays DEF Timely
<1>1. CASE Issue
  BY <1>1, <1>o DEF Issue, leavevars, Timely
<1>2. CASE SetReady
  <2>1. op \notin reported
    BY <1>2, <1>o DEF SetReady, Turns, Queued, Running, Missed
  <2> QED BY <1>2, <1>o, <2>1 DEF SetReady, leavevars, Timely
<1>3. CASE Sleep
  BY <1>3, <1>o DEF Sleep, leavevars, Timely
<1>4. CASE Return
  BY <1>4, <1>o DEF Return, leavevars, Timely
<1>5. CASE Call
  BY <1>5, <1>o DEF Call, leavevars, Timely
<1>6. CASE DoneCb
  <2>1. mpc \in {"asleep", "woken"} /\ ready
    BY <1>6, <1>o DEF DoneCb, TypeOK
  <2>2. mpc' = "woken" /\ cpc' = "idle" /\ ready'
    BY <1>6, <2>1 DEF DoneCb, Notified
  <2> QED BY <1>6, <1>o, <2>2 DEF DoneCb, leavevars, Timely
<1>7. CASE CleanUp
  BY <1>7, <1>o DEF CleanUp, Shutdown, CleanUpSleep, CleanUpReturn, InWait, Timely
<1>8. CASE ShutdownCb
  <2>1. leaving \notin {"no", "called"} /\ leaving' \notin {"no", "called", "asleep"}
    BY <1>8 DEF ShutdownCb, NotifiedAll, TypeOK
  <2> QED BY <1>8, <1>o, <2>1 DEF ShutdownCb, Timely
<1>9. CASE UNCHANGED vars
  BY <1>9, <1>o DEF vars, leavevars, Timely
<1> QED BY <1>1, <1>2, <1>3, <1>4, <1>5, <1>6, <1>7, <1>8, <1>9 DEF Next

\* For any number of operations: neither wait nor CleanUp hangs, and no done_cb
\* sleeps for good, but for a callback that came before its sleep or a spurious
\* wake-up; what WaitReturnsUnlessEarly and CleanUpEnds need beside fairness.
THEOREM WakeCorrect == Spec => []WakeAhead
<1>1. Init => Turns /\ Timely
  BY DEF Init, Turns, Timely, Queued, Running, Missed
<1>2. TypeOK /\ TypeOK' /\ (~spurred => Turns) /\ [Next]_vars => (~spurred' => Turns')
  BY TurnsStep, SpurredStays
<1>3. TypeOK /\ (~spurred => Turns) /\ Timely /\ [Next]_vars => Timely'
  BY TimelyStep
<1>4. TypeOK /\ (~spurred => Turns) /\ Timely => WakeAhead
  BY DEF TypeOK, Turns, Timely, Queued, Running, Missed, WakeAhead
<1> QED BY <1>1, <1>2, <1>3, <1>4, TypeCorrect, PTL DEF Spec
=============================================================================
