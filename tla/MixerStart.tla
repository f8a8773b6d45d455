----------------------------- MODULE MixerStart -----------------------------
(***************************************************************************)
(* Mixer::Start: every mixer puts its public key and then the word ready   *)
(* into the DHT, counts the ready values until there are as many as mixers *)
(* in its configuration, and reads the public keys.  Each operation is     *)
(* waited for; that the wait returns is DhtWait's question.  The DHT is    *)
(* external: a put may fail (which done_cb only prints), a value expires,  *)
(* and a get calls back with values it has not found yet until it is done. *)
(***************************************************************************)
EXTENDS Naturals, FiniteSets

CONSTANTS Mixers,
          MaxRestarts    \* bound: how often mixers are started again, all together

ASSUME MixersAssumption == IsFiniteSet(Mixers)
ASSUME BoundAssumption == MaxRestarts \in Nat

VARIABLES
    pc,            \* pc[m]: the operation mixer m is at
    inc,           \* inc[m]: which start of a mixer m's is, 0 the first; a new key each time
    restarts,      \* how often mixers were started again
    ready,         \* the DHT's values under "ready", told apart by who put them
    publickeys,    \* the DHT's values under "publickeys"
    found,         \* found[m]: the values m's get has called back with
    asked,         \* asked[m]: the values there were when m's get began
    readymixers,   \* readymixers[m]: the member of that name
    ipspub,        \* ipspub[m]: the key lines m has
    lost           \* history: a put failed, a value expired, or a get missed one

vars == <<pc, inc, restarts, ready, publickeys, found, asked, readymixers, ipspub, lost>>

\* Each put makes a value with an id of its own, also when the data are the same.
Value(m) == [by |-> m, inc |-> inc[m]]
Values == [by : Mixers, inc : 0 .. MaxRestarts]

\* mixers.size(), the length of the configuration's list.
Needed == Cardinality(Mixers)

Init ==
    /\ pc = [m \in Mixers |-> "put key"]
    /\ inc = [m \in Mixers |-> 0] /\ restarts = 0
    /\ ready = {} /\ publickeys = {}
    /\ found = [m \in Mixers |-> {}] /\ asked = [m \in Mixers |-> {}]
    /\ readymixers = [m \in Mixers |-> 0]
    /\ ipspub = [m \in Mixers |-> {}]
    /\ lost = FALSE
-----------------------------------------------------------------------------
Goto(m, to) == pc' = [pc EXCEPT ![m] = to]

\* A get begins, with these values stored; its callback has found none yet.
Ask(m, values) ==
    /\ asked' = [asked EXCEPT ![m] = values]
    /\ found' = [found EXCEPT ![m] = {}]

\* A get that is done has called back with every value there was when it began,
\* or some were lost.
Missed(m) == ~(asked[m] \subseteq found[m])

\* What a put of v leaves in the DHT; that it failed is only printed.
Left(v, success) == IF success THEN {v} ELSE {}

PutKey(m) ==
    /\ pc[m] = "put key"
    /\ \E success \in BOOLEAN :
         /\ publickeys' = publickeys \cup Left(Value(m), success)
         /\ lost' = (lost \/ ~success)
    /\ Goto(m, "put ready")
    /\ UNCHANGED <<inc, restarts, ready, found, asked, readymixers, ipspub>>

PutReady(m) ==
    /\ pc[m] = "put ready"
    /\ \E success \in BOOLEAN :
         /\ ready' = ready \cup Left(Value(m), success)
         /\ lost' = (lost \/ ~success)
    /\ Goto(m, "count") /\ Ask(m, ready')
    /\ UNCHANGED <<inc, restarts, publickeys, readymixers, ipspub>>

\* The callback of the get that counts: readymixers++ for each value.
Count(m) ==
    /\ pc[m] = "count"
    /\ \E S \in (SUBSET (ready \ found[m])) \ {{}} :
         /\ found' = [found EXCEPT ![m] = @ \cup S]
         /\ readymixers' = [readymixers EXCEPT ![m] = @ + Cardinality(S)]
    /\ UNCHANGED <<pc, inc, restarts, ready, publickeys, asked, ipspub, lost>>

\* Plausible bugs: one too few is enough; one too many is needed.
OneShort(m) == readymixers[m] + 1 >= Needed
MoreThanAll(m) == readymixers[m] > Needed
AllReady(m) == readymixers[m] = Needed

Pass(m) ==
    /\ pc[m] = "count" /\ AllReady(m)
    /\ Goto(m, "get keys") /\ Ask(m, publickeys)
    /\ lost' = (lost \/ Missed(m))
    /\ UNCHANGED <<inc, restarts, ready, publickeys, readymixers, ipspub>>

\* A plausible bug: the count goes on from what the last get found.
NotReset(m) == readymixers[m]
Reset(m) == 0

\* sleep(10), and the next get.
Again(m) ==
    /\ pc[m] = "count" /\ ~AllReady(m)
    /\ readymixers' = [readymixers EXCEPT ![m] = Reset(m)]
    /\ Ask(m, ready)
    /\ lost' = (lost \/ Missed(m))
    /\ UNCHANGED <<pc, inc, restarts, ready, publickeys, ipspub>>

\* GiveMeDataForPublic, from the callback of the get of the keys.
FindKeys(m) ==
    /\ pc[m] = "get keys"
    /\ \E S \in (SUBSET (publickeys \ found[m])) \ {{}} :
         /\ found' = [found EXCEPT ![m] = @ \cup S]
         /\ ipspub' = [ipspub EXCEPT ![m] = @ \cup S]
    /\ UNCHANGED <<pc, inc, restarts, ready, publickeys, asked, readymixers, lost>>

StartRoundAsMixer(m) ==
    /\ pc[m] = "get keys"
    /\ Goto(m, "round") /\ Ask(m, {})
    /\ lost' = (lost \/ Missed(m))
    /\ UNCHANGED <<inc, restarts, ready, publickeys, readymixers, ipspub>>

\* The process dies and is started again; what it has put stays in the DHT.
Restart(m) ==
    /\ restarts < MaxRestarts
    /\ restarts' = restarts + 1
    /\ inc' = [inc EXCEPT ![m] = restarts']
    /\ Goto(m, "put key") /\ Ask(m, {})
    /\ readymixers' = [readymixers EXCEPT ![m] = 0]
    /\ ipspub' = [ipspub EXCEPT ![m] = {}]
    /\ UNCHANGED <<ready, publickeys, lost>>

\* Values that nobody puts again do not last, each by itself.
Expire ==
    /\ \/ \E v \in ready : ready' = ready \ {v} /\ UNCHANGED publickeys
       \/ \E v \in publickeys : publickeys' = publickeys \ {v} /\ UNCHANGED ready
    /\ lost' = TRUE
    /\ UNCHANGED <<pc, inc, restarts, found, asked, readymixers, ipspub>>

Run(m) ==
    PutKey(m) \/ PutReady(m) \/ Count(m) \/ Pass(m) \/ Again(m) \/ FindKeys(m) \/ StartRoundAsMixer(m)

Next == Expire \/ \E m \in Mixers : Run(m) \/ Restart(m)

\* A process that runs goes on, and every DHT operation ends.
Spec == Init /\ [][Next]_vars /\ \A m \in Mixers : WF_vars(Run(m))
-----------------------------------------------------------------------------
TypeOK ==
    /\ pc \in [Mixers -> {"put key", "put ready", "count", "get keys", "round"}]
    /\ inc \in [Mixers -> 0 .. MaxRestarts] /\ restarts \in 0 .. MaxRestarts
    /\ ready \subseteq Values /\ publickeys \subseteq Values
    /\ found \in [Mixers -> SUBSET Values] /\ asked \in [Mixers -> SUBSET Values]
    /\ readymixers \in [Mixers -> 0 .. Cardinality(Values)]
    /\ ipspub \in [Mixers -> SUBSET Values]
    /\ lost \in BOOLEAN

Passed(m) == pc[m] \in {"get keys", "round"}
HasPut(m) == pc[m] \notin {"put key", "put ready"}
FirstStart == \A m \in Mixers : inc[m] = 0

\* "Wait for all the other nodes to be ready" (Mixer.cpp:130): no mixer leaves
\* the loop before every mixer of the configuration has put its ready value.
PassedMeansAllReady == \A m, n \in Mixers : Passed(m) => HasPut(n)

\* That holds as long as no mixer was started again, whatever the DHT loses.
BarrierHolds == FirstStart => PassedMeansAllReady

\* What the barrier is for: past it, every mixer's key can be read, so that the
\* mixer that informs the info node has the keys of all.
KeysArePut ==
    FirstStart /\ ~lost =>
      \A m \in Mixers :
        /\ Passed(m) => Cardinality(publickeys) = Needed
        /\ pc[m] = "round" => ipspub[m] = publickeys

\* Nobody waits for ever: every mixer starts its round, unless something is lost
\* or a mixer is started again.
EveryoneStarts == \A m \in Mixers : <>(pc[m] = "round" \/ lost \/ ~FirstStart)

\* "Not everyone is ready yet" (Mixer.cpp:154) is not for ever: once all have put
\* their ready value and nobody is started again, every mixer starts its round.
ReadyLeadsToRound == restarts = MaxRestarts /\ (\A m \in Mixers : HasPut(m))
                       ~> lost \/ \A m \in Mixers : pc[m] = "round"
=============================================================================
