------------------------------- MODULE DhtWait -------------------------------
(***************************************************************************)
(* How a mixer and an info node wait for the DHT.  The node's thread       *)
(* issues a put or a get and calls the lambda wait; the DHT's thread calls *)
(* done_cb when the operation has ended.  They meet on a flag ready, which *)
(* wait sets without the mutex, and on one condition variable on which     *)
(* both sleep, done_cb with a predicate and wait without.  A Mixer that is *)
(* destroyed shuts the DHT down in CleanUp and sleeps there once more, on  *)
(* locals of its own, until the DHT's thread calls back.                   *)
(***************************************************************************)
EXTENDS Naturals, Sequences

CONSTANT Operations   \* how many operations the node issues, one at a time

ASSUME OperationsAssumption == Operations \in Nat

VARIABLES
    ready,     \* *ready
    mpc,       \* the node's thread: between operations, or inside wait
    op,        \* the operation it issued last
    ended,     \* operations whose done_cb the DHT thread has still to run
    cpc,       \* the DHT thread: idle, or inside done_cb
    cop,       \*   of this operation
    leaving,   \* CleanUp: not called, before its wait, in it, or returned
    done,      \* done of CleanUp: the shutdown has called back
    reported,  \* history: the operations whose done_cb returned
    returned,  \* history: the operations whose wait returned
    early,     \* history: a callback got its mutex when nobody slept yet
    spurred    \* history: someone woke up without a notify

leavevars == <<leaving, done>>
vars == <<ready, mpc, op, ended, cpc, cop, leavevars, reported, returned, early, spurred>>

Init ==
    /\ ready = FALSE
    /\ mpc = "issue" /\ op = 0
    /\ ended = <<>> /\ cpc = "idle" /\ cop = 0
    /\ leaving = "no" /\ done = FALSE
    /\ reported = {} /\ returned = {} /\ early = FALSE /\ spurred = FALSE
-----------------------------------------------------------------------------
MoreToDo == op < Operations

\* this->node.put(...) or get(...)
Issue ==
    /\ mpc = "issue" /\ MoreToDo
    /\ op' = op + 1 /\ mpc' = "set"
    /\ ended' = Append(ended, op + 1)
    /\ UNCHANGED <<ready, cpc, cop, reported, returned, early, spurred, leavevars>>

\* *ready = true, before the mutex is taken
SetReady ==
    /\ mpc = "set"
    /\ ready' = TRUE /\ mpc' = "lock"
    /\ UNCHANGED <<op, ended, cpc, cop, reported, returned, early, spurred, leavevars>>

\* std::unique_lock lk(*mtx); cv->wait(lk): the mutex is given up with falling
\* asleep, so that the section is one step.
Sleep ==
    /\ mpc = "lock"
    /\ mpc' = "asleep"
    /\ UNCHANGED <<ready, op, ended, cpc, cop, reported, returned, early, spurred, leavevars>>

\* A plausible bug: wait does not sleep at all.
ReturnAtOnce(pc) == pc \in {"lock", "asleep", "woken"}
Woken(pc) == pc \in {"asleep", "woken"}

\* cv->wait returns with the mutex, notified or not; *ready = false
Return ==
    /\ Woken(mpc)
    /\ ready' = FALSE /\ mpc' = "issue"
    /\ returned' = returned \cup {op}
    /\ spurred' = (spurred \/ mpc = "asleep")
    /\ UNCHANGED <<op, ended, cpc, cop, reported, early, leavevars>>

\* The operation has ended and the DHT thread calls done_cb.
Call ==
    /\ cpc = "idle" /\ ended # <<>>
    /\ cop' = Head(ended) /\ ended' = Tail(ended) /\ cpc' = "lock"
    /\ UNCHANGED <<ready, mpc, op, reported, returned, early, spurred, leavevars>>

\* A plausible bug: notify_one is forgotten.
NoNotify == mpc
Notified == IF mpc = "asleep" THEN "woken" ELSE mpc

\* cv->wait(lk, [=]{ return *ready; }); cv->notify_one(): with ready unset
\* done_cb sleeps, and only another notify or a spurious wake-up makes it look
\* at ready again.
DoneCb ==
    /\ cpc \in {"lock", "asleep"}
    /\ spurred' = (spurred \/ cpc = "asleep")
    /\ early' = (early \/ mpc \notin {"asleep", "woken"})
    /\ IF ready
         THEN /\ mpc' = Notified
              /\ cpc' = "idle"
              /\ reported' = reported \cup {cop}
         ELSE cpc' = "asleep" /\ UNCHANGED <<mpc, reported>>
    /\ UNCHANGED <<ready, op, ended, cop, returned, leavevars>>

\* node.shutdown, when the node's thread has nothing left to do
Shutdown ==
    /\ leaving = "no" /\ mpc = "issue" /\ op = Operations
    /\ leaving' = "called"
    /\ UNCHANGED <<ready, mpc, op, ended, cpc, cop, done, reported, returned, early, spurred>>

\* A plausible bug: CleanUp does not wait for the callback.
NoWait == "woken"
InWait == "asleep"

\* std::unique_lock lk(m); cv.wait(lk), whether done is set or not
CleanUpSleep ==
    /\ leaving = "called"
    /\ leaving' = InWait
    /\ UNCHANGED <<ready, mpc, op, ended, cpc, cop, done, reported, returned, early, spurred>>

\* A plausible bug: notify_all is forgotten.
NotAll == leaving
NotifiedAll == IF leaving = "asleep" THEN "woken" ELSE leaving

\* The DHT's thread, not held in a done_cb, calls the lambda.
ShutdownCb ==
    /\ leaving # "no" /\ ~done /\ cpc = "idle" /\ ended = <<>>
    /\ done' = TRUE /\ leaving' = NotifiedAll
    /\ early' = (early \/ leaving = "called")
    /\ UNCHANGED <<ready, mpc, op, ended, cpc, cop, reported, returned, spurred>>

\* cv.wait returns, notified or not, and CleanUp with it.
CleanUpReturn ==
    /\ leaving \in {"asleep", "woken"}
    /\ leaving' = "over"
    /\ spurred' = (spurred \/ leaving = "asleep")
    /\ UNCHANGED <<ready, mpc, op, ended, cpc, cop, done, reported, returned, early>>

CleanUp == Shutdown \/ CleanUpSleep \/ CleanUpReturn

Next == Issue \/ SetReady \/ Sleep \/ Return \/ Call \/ DoneCb \/ CleanUp \/ ShutdownCb

\* Both threads are scheduled, and every operation of the DHT ends.
Spec == Init /\ [][Next]_vars
             /\ WF_vars(Issue \/ SetReady \/ Sleep) /\ WF_vars(mpc = "woken" /\ Return)
             /\ WF_vars(Call) /\ WF_vars(cpc = "lock" /\ DoneCb)
             /\ WF_vars(Shutdown \/ CleanUpSleep) /\ WF_vars(leaving = "woken" /\ CleanUpReturn)
             /\ WF_vars(ShutdownCb)
-----------------------------------------------------------------------------
TypeOK ==
    /\ ready \in BOOLEAN /\ early \in BOOLEAN /\ spurred \in BOOLEAN
    /\ mpc \in {"issue", "set", "lock", "asleep", "woken"}
    /\ cpc \in {"idle", "lock", "asleep"}
    /\ op \in 0 .. Operations /\ cop \in 0 .. Operations
    /\ mpc # "issue" => op # 0
    /\ cpc # "idle" => cop # 0
    /\ ended \in Seq(1 .. Operations)
    /\ leaving \in {"no", "called", "asleep", "woken", "over"} /\ done \in BOOLEAN
    /\ reported \subseteq 1 .. Operations /\ returned \subseteq 1 .. Operations

\* Mixer.cpp 118, "block to see the result of the put": when wait returns from
\* an operation, its done_cb has run; and ready is never left set for the next
\* operation, so that no done_cb pairs with a wait that is not its own.  A
\* spurious wake-up breaks all of it: wait has no predicate.
PairedHandshake ==
    ~spurred => /\ returned \subseteq reported
                /\ cpc # "idle" => cop \notin returned
                /\ mpc = "issue" => ~ready

\* Mixer.cpp 118 again: wait blocks until the result is there, and then ends.
WaitReturns == \A k \in 1 .. Operations : op = k ~> k \in returned

\* Mixer.cpp 47, "wait for shutdown": CleanUp, whose locals the callback writes
\* to, does not return before the callback, unless it wakes up spuriously.
CallbackFirst == leaving = "over" => done \/ spurred

\* CleanUp returns when the callback comes after it has fallen asleep and no
\* done_cb was left asleep by a wait that ended without it.
CleanUpEnds == leaving = "called" ~> leaving = "over" \/ early \/ spurred

\* It does when done_cb comes after wait has fallen asleep.
WaitReturnsUnlessEarly == \A k \in 1 .. Operations : op = k ~> k \in returned \/ early
=============================================================================
