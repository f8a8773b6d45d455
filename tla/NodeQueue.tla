------------------------------ MODULE NodeQueue ------------------------------
(***************************************************************************)
(* The hand-off every node of the network is built on: PutMessages         *)
(* handlers, one gRPC thread each, push what they receive into the global  *)
(* vector msgtmp, and the node's main thread spins on msgtmp, copies it    *)
(* out and clears it (Mixer.cpp 270-274, mailbox.cpp 48-55, infonode.cpp   *)
(* 95-99).  No lock is taken by either side.                               *)
(***************************************************************************)
EXTENDS Naturals, Sequences, FiniteSets

CONSTANTS Handlers,   \* the PutMessages calls' threads
          Msg,        \* the messages
          Garbage,    \* what a cell without a live string reads as
          Arrivals    \* for each handler, the messages its callers send it

ASSUME ArrivalsAssumption == Arrivals \in [Handlers -> Seq(Msg)]
ASSUME GarbageAssumption == Garbage \notin Msg

V == INSTANCE StdVector

VARIABLES
    msgtmp,    \* the shared vector
    todo,      \* todo[h]: the messages still to be read from h's stream
    hpc,       \* hpc[h]: where handler h is in its loop
    m,         \* m[h]: the local node::Msg m
    at,        \* at[h]: the finish pointer h loaded, and the
    hgen,      \*   storage it belongs to
    call,      \* call[h]: the messages of the call h is serving
    acked,     \* the messages of calls answered with yes = true
    lpc,       \* where the main loop is
    end,       \* the end of the range being copied, the storage it
    lgen,      \*   belongs to, and how many strings of it the loop
    pos,       \*   has copied
    taken,     \* everything the loop has copied out so far
    alive,     \* FALSE once memory corruption has killed the process
    pushed,    \* history: the messages whose push_back finished, in order
    raced      \* history: some push overlapped another push or a drain

handlerVars == <<todo, hpc, m, at, hgen, call, acked>>
loopVars    == <<lpc, end, lgen, pos, taken>>
vars == <<msgtmp, handlerVars, loopVars, alive, pushed, raced>>

Pushing(h) == hpc[h] \in {"build", "bump", "grow"}
Copying == lpc = "copy"
Draining == lpc = "end" \/ Copying

\* Two unsynchronised accesses to msgtmp, one of them a write, are under way.
Overlap ==
    \/ \E h \in Handlers : Pushing(h) /\ Draining
    \/ \E h, g \in Handlers : h # g /\ Pushing(h) /\ Pushing(g)

Init ==
    /\ msgtmp = V!NoStrings
    /\ todo = Arrivals
    /\ hpc = [h \in Handlers |-> "read"]
    /\ m = [h \in Handlers |-> Garbage]
    /\ at = [h \in Handlers |-> 0]
    /\ hgen = [h \in Handlers |-> 0]
    /\ call = [h \in Handlers |-> {}]
    /\ acked = {}
    /\ lpc = "poll" /\ end = 0 /\ lgen = 0 /\ pos = 0 /\ taken = <<>>
    /\ alive = TRUE
    /\ pushed = <<>>
    /\ raced = FALSE
-----------------------------------------------------------------------------
\* A plausible bug: the message is pushed before the first Read.
ReadNothing(h) ==
    /\ alive /\ hpc[h] = "read" /\ todo[h] # <<>>
    /\ hpc' = [hpc EXCEPT ![h] = "push"]
    /\ UNCHANGED <<msgtmp, todo, m, at, hgen, call, acked, loopVars, alive, pushed, raced>>

\* while (reader->Read(&m))
Read(h) ==
    /\ alive /\ hpc[h] = "read" /\ todo[h] # <<>>
    /\ m' = [m EXCEPT ![h] = Head(todo[h])]
    /\ todo' = [todo EXCEPT ![h] = Tail(todo[h])]
    /\ hpc' = [hpc EXCEPT ![h] = "push"]
    /\ UNCHANGED <<msgtmp, at, hgen, call, acked, loopVars, alive, pushed, raced>>

\* push_back loads the finish pointer and compares it with the end of storage.
Load(h) ==
    /\ alive /\ hpc[h] = "push"
    /\ at' = [at EXCEPT ![h] = msgtmp.fin]
    /\ hgen' = [hgen EXCEPT ![h] = msgtmp.gen]
    /\ hpc' = [hpc EXCEPT ![h] = IF V!IsFull(msgtmp) THEN "grow" ELSE "build"]
    /\ UNCHANGED <<msgtmp, todo, m, call, acked, loopVars, alive, pushed>>
    /\ raced' = (raced \/ Overlap')

\* The string is built where finish pointed; in storage freed meanwhile, or
\* past its end, that corrupts memory, at once fatal or not.
Build(h) ==
    /\ alive /\ hpc[h] = "build"
    /\ hpc' = [hpc EXCEPT ![h] = "bump"]
    /\ IF hgen[h] = msgtmp.gen /\ at[h] < Len(msgtmp.cells)
         THEN msgtmp' = V!Build(msgtmp, at[h] + 1, m[h]) /\ alive' = alive
         ELSE msgtmp' = msgtmp /\ alive' \in BOOLEAN
    /\ UNCHANGED <<todo, m, at, hgen, call, acked, loopVars, pushed, raced>>

Pushed(h) ==
    /\ pushed' = Append(pushed, m[h])
    /\ call' = [call EXCEPT ![h] = @ \cup {m[h]}]
    /\ hpc' = [hpc EXCEPT ![h] = "read"]
    /\ UNCHANGED <<todo, m, at, hgen, acked, loopVars, raced>>

\* ++finish, a load and a store: the load may be older than the store.
Bump(h) ==
    /\ alive /\ hpc[h] = "bump"
    /\ \E f \in {at[h], msgtmp.fin} : msgtmp' = V!StoreFinish(msgtmp, f + 1)
    /\ Pushed(h) /\ UNCHANGED alive

\* The storage is replaced; when another push replaced it first, the old one
\* is freed twice and the process aborts.
Grow(h) ==
    /\ alive /\ hpc[h] = "grow"
    /\ alive' = (hgen[h] = msgtmp.gen)
    /\ msgtmp' = IF alive' THEN V!Grow(msgtmp, at[h], m[h]) ELSE msgtmp
    /\ Pushed(h)

\* The stream of one call ends (the caller decides where): set_yes(true).
Answer(h) ==
    /\ alive /\ hpc[h] = "read" /\ call[h] # {}
    /\ acked' = acked \cup call[h]
    /\ call' = [call EXCEPT ![h] = {}]
    /\ UNCHANGED <<msgtmp, todo, hpc, m, at, hgen, loopVars, alive, pushed, raced>>

SizeAboveOne == msgtmp.fin > 1     \* a plausible bug: size() > 1
NotEmpty == msgtmp.fin # 0

\* if (!msgtmp.empty()): and then begin() is evaluated ...
Poll ==
    /\ alive /\ lpc = "poll" /\ NotEmpty
    /\ lpc' = "end" /\ lgen' = msgtmp.gen /\ pos' = 0
    /\ UNCHANGED <<msgtmp, handlerVars, end, taken, alive, pushed>>
    /\ raced' = (raced \/ Overlap')

\* ... and then end(), perhaps of other storage.
PollEnd ==
    /\ alive /\ lpc = "end"
    /\ lpc' = "copy" /\ end' = msgtmp.fin
    /\ UNCHANGED <<msgtmp, handlerVars, lgen, pos, taken, alive, pushed, raced>>

\* The next string of the range is copied to reqtmp / outbox / msgtmp2; in
\* storage freed meanwhile it is garbage, or the read is a crash.
Copy ==
    /\ alive /\ lpc = "copy" /\ pos < end
    /\ pos' = pos + 1
    /\ taken' = Append(taken, IF lgen = msgtmp.gen THEN V!Cell(msgtmp, pos') ELSE Garbage)
    /\ IF lgen = msgtmp.gen THEN alive' = alive ELSE alive' \in BOOLEAN
    /\ UNCHANGED <<msgtmp, handlerVars, lpc, end, lgen, pushed, raced>>

\* msgtmp.clear()
Clear ==
    /\ alive /\ lpc = "copy" /\ pos = end
    /\ msgtmp' = V!Clear(msgtmp)
    /\ lpc' = "poll"
    /\ UNCHANGED <<handlerVars, end, lgen, pos, taken, alive, pushed, raced>>

PutMessages(h) == Read(h) \/ Load(h) \/ Build(h) \/ Bump(h) \/ Grow(h) \/ Answer(h)
Loop == Poll \/ PollEnd \/ Copy \/ Clear

Next == Loop \/ \E h \in Handlers : PutMessages(h)

\* Every thread is scheduled again and again.
Spec == Init /\ [][Next]_vars /\ WF_vars(Loop)
             /\ \A h \in Handlers : WF_vars(PutMessages(h))
-----------------------------------------------------------------------------
TypeOK ==
    /\ msgtmp \in V!Vector(Msg)
    /\ todo \in [Handlers -> Seq(Msg)]
    /\ hpc \in [Handlers -> {"read", "push", "build", "bump", "grow"}]
    /\ m \in [Handlers -> Msg \cup {Garbage}]
    /\ \A h \in Handlers : hpc[h] # "read" => m[h] \in Msg
    /\ at \in [Handlers -> Nat] /\ hgen \in [Handlers -> Nat]
    /\ call \in [Handlers -> SUBSET Msg] /\ acked \in SUBSET Msg
    /\ lpc \in {"poll", "end", "copy"} /\ end \in Nat /\ lgen \in Nat /\ pos \in Nat
    /\ taken \in Seq(Msg \cup {Garbage})
    /\ pushed \in Seq(Msg)
    /\ alive \in BOOLEAN /\ raced \in BOOLEAN

\* What is in msgtmp and has not been copied out yet.
Copied == IF Copying THEN pos ELSE 0
Waiting == SubSeq(V!Elems(msgtmp), Copied + 1, msgtmp.fin)

\* As long as no push has overlapped another push or a drain, the hand-off is
\* an exact queue: what the loop took, followed by what waits in msgtmp, is
\* what the handlers pushed, in their order; and the process is alive.
FifoUnlessRaced == ~raced => alive /\ taken \o Waiting = pushed

\* Whatever the scheduling, as long as one handler alone feeds a node (a mixer
\* forwards one message per call) messages can be lost to the loop's clear, but
\* none is ever processed twice or out of order.
OneFeedBy(h) == \A g \in Handlers \ {h} : hpc[g] = "read" /\ todo[g] = Arrivals[g]
OneFeedInOrder ==
    (\E h \in Handlers : OneFeedBy(h)) =>
      \A i, j \in {n \in DOMAIN taken : taken[n] # Garbage} : i < j =>
        \E k, l \in DOMAIN pushed : k < l /\ pushed[k] = taken[i] /\ pushed[l] = taken[j]

\* nodeclient.hpp 138-139 takes yes = true for a success: a message of an
\* answered call is waiting in msgtmp or has been taken out of it.
AnsweredIsKept ==
    alive => \A x \in acked : \/ \E i \in DOMAIN taken : taken[i] = x
                              \/ \E i \in DOMAIN V!Elems(msgtmp) : V!Elems(msgtmp)[i] = x
=============================================================================
