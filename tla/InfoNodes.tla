------------------------------ MODULE InfoNodes ------------------------------
(***************************************************************************)
(* How the mixers' key lines reach the clients.  The first mixer streams   *)
(* its list, ipspub, to one info node, a line every second or so, in a     *)
(* call that may be refused or break, which is only logged; an info node's *)
(* loop serves what has arrived, puts it into the DHT once, and until it   *)
(* has data gets what is there; clients ask an info node until it has      *)
(* something.  A line that arrives between the loop's copy and its clear   *)
(* is destroyed; how single accesses to msgtmp and outbox overlap is shown *)
(* in NodeQueue and Mailbox, the wait for a DHT operation in DhtWait.      *)
(***************************************************************************)
EXTENDS Integers, FiniteSets, SequencesExt

CONSTANTS Config,        \* config[3]: the info nodes' addresses, in the file's order
          Infos,         \* those at which an info node is ever started
          Clients,
          Ipspub,        \* the key lines the first mixer has found
          MaxRestarts,   \* bound: how often info nodes are started again
          None           \* a string that is no address

ASSUME ConfigAssumption ==
    /\ Config \in Seq(ToSet(Config)) /\ Config # <<>> /\ IsInjective(Config)
    /\ Infos \subseteq ToSet(Config) /\ None \notin ToSet(Config)
ASSUME IpspubAssumption == Ipspub \in Seq(ToSet(Ipspub)) /\ IsInjective(Ipspub)
ASSUME BoundAssumption == MaxRestarts \in Nat

Lines == ToSet(Ipspub)

VARIABLES
    stream,     \* the mixer's PutMessages call: not made, on, or over
    target,     \* the info node it goes to
    written,    \* how many lines have arrived there
    listening,  \* the info nodes whose server runs
    msgtmp, msgtmp2, outbox,   \* per info node; its keys holds what its outbox holds
    havedata, pushed, \* per info node: its globals of that name
    pc, next,   \* per info node: where its loop is, the index of its next put
    dht,        \* the values under "keys", in the order of their puts
    asked,      \* per info node: how many values there were when its get began
    seen,       \* per info node: the positions in dht its get has called back with
    got,        \* per client: the lines it has left its loop with
    gone,       \* the clients that died of reading config[3][-1]
    restarts,
    lost,       \* history: a put failed or a get missed a value
    failed,     \* history: the mixer's call was refused or broke
    raced       \* history: a line arrived between a copy and its clear

loopvars == <<havedata, pushed, pc, next, asked, seen>>
callvars == <<stream, target, written, failed, raced>>
clientvars == <<got, gone>>
vars == <<callvars, listening, msgtmp, msgtmp2, outbox, loopvars, dht, clientvars, restarts, lost>>

Init ==
    /\ stream = "none" /\ target = None /\ written = 0
    /\ listening = {} /\ failed = FALSE /\ raced = FALSE
    /\ msgtmp = [n \in Infos |-> <<>>] /\ msgtmp2 = [n \in Infos |-> <<>>]
    /\ outbox = [n \in Infos |-> <<>>]
    /\ havedata = [n \in Infos |-> FALSE]
    /\ pushed = [n \in Infos |-> FALSE]
    /\ pc = [n \in Infos |-> "loop"]
    /\ next = [n \in Infos |-> 1]
    /\ dht = <<>>
    /\ asked = [n \in Infos |-> 0] /\ seen = [n \in Infos |-> {}]
    /\ got = [c \in Clients |-> <<>>]
    /\ gone = {} /\ restarts = 0 /\ lost = FALSE
-----------------------------------------------------------------------------
\* rand() % config[3].size() - 1, an index from 0: the remainder less one.
Num(r) == (r % Len(Config)) - 1

\* config[3][num] before the first element is no address, if it can be read.
Chosen(r) == IF Num(r) >= 0 THEN Config[Num(r) + 1] ELSE None
Rand == 0 .. Len(Config) - 1

\* A call to an info node that does not listen is refused.
ChooseInfo ==
    /\ stream = "none"
    /\ \E r \in Rand : target' = Chosen(r)
    /\ stream' = IF target' \in listening THEN "on" ELSE "over"
    /\ failed' = (target' # None /\ target' \notin listening)
    /\ UNCHANGED <<written, raced, listening, msgtmp, msgtmp2, outbox, loopvars, dht, clientvars, restarts, lost>>

\* The stream's next line arrives.
Write ==
    /\ stream = "on"
    /\ IF written < Len(Ipspub)
       THEN /\ written' = written + 1
            /\ msgtmp' = [msgtmp EXCEPT ![target] = Append(@, Ipspub[written + 1])]
            /\ raced' = (raced \/ pc[target] = "clear")
            /\ UNCHANGED stream
       ELSE stream' = "over" /\ UNCHANGED <<written, msgtmp, raced>>
    /\ UNCHANGED <<target, failed, listening, msgtmp2, outbox, loopvars, dht, clientvars, restarts, lost>>

\* The call breaks, which PutMessages logs; nobody makes it again.
Break ==
    /\ stream = "on"
    /\ stream' = "over" /\ failed' = TRUE
    /\ UNCHANGED <<target, written, raced, listening, msgtmp, msgtmp2, outbox, loopvars, dht, clientvars, restarts, lost>>

\* main starts the loop in a thread of its own, then the server.
Listen(n) ==
    /\ n \notin listening
    /\ listening' = listening \cup {n}
    /\ UNCHANGED <<callvars, msgtmp, msgtmp2, outbox, loopvars, dht, clientvars, restarts, lost>>

\* A plausible bug: only what comes first is taken.
FirstMail(n) == msgtmp[n] # <<>> /\ ~havedata[n]
HasMail(n) == msgtmp[n] # <<>>

\* msgtmp2 = msgtmp;
Copy(n) ==
    /\ pc[n] = "loop" /\ HasMail(n)
    /\ msgtmp2' = [msgtmp2 EXCEPT ![n] = msgtmp[n]]
    /\ pc' = [pc EXCEPT ![n] = "clear"]
    /\ UNCHANGED <<callvars, listening, msgtmp, outbox, havedata, pushed, next, asked, seen, dht, clientvars, restarts, lost>>

\* What a turn comes to once it has looked at msgtmp: the put, the get or nothing.
Decided(n) == IF ~havedata'[n] THEN "get" ELSE IF ~pushed[n] THEN "put" ELSE "loop"

\* msgtmp.clear(), and the copied lines are served.
Clear(n) ==
    /\ pc[n] = "clear"
    /\ msgtmp' = [msgtmp EXCEPT ![n] = <<>>]
    /\ outbox' = [outbox EXCEPT ![n] = @ \o msgtmp2[n]]
    /\ havedata' = [havedata EXCEPT ![n] = TRUE]
    /\ msgtmp2' = [msgtmp2 EXCEPT ![n] = <<>>]
    /\ pc' = [pc EXCEPT ![n] = Decided(n)]
    /\ UNCHANGED <<callvars, listening, pushed, next, asked, seen, dht, clientvars, restarts, lost>>

\* Nothing has come, and there is something to put or to look for.
Idle(n) ==
    /\ pc[n] = "loop" /\ ~HasMail(n)
    /\ UNCHANGED havedata
    /\ Decided(n) # "loop"
    /\ pc' = [pc EXCEPT ![n] = Decided(n)]
    /\ asked' = IF Decided(n) = "get" THEN [asked EXCEPT ![n] = Len(dht)] ELSE asked
    /\ UNCHANGED <<callvars, listening, msgtmp, msgtmp2, outbox, pushed, next, seen, dht, clientvars, restarts, lost>>

\* A plausible bug: put under another name.
Misplaced(v, success) == <<>>
\* What a put of v leaves in the DHT; that it failed is only printed.
Left(v, success) == IF success THEN <<v>> ELSE <<>>

\* A plausible bug: one too many.
MoreOrNone(n) == next[n] <= Len(outbox[n])
More(n) == next[n] < Len(outbox[n])

\* node.put of one of the keys and the wait for it.
Put(n) ==
    /\ pc[n] = "put"
    /\ \E success \in BOOLEAN :
         /\ dht' = dht \o Left(outbox[n][next[n]], success)
         /\ lost' = (lost \/ ~success)
    /\ pushed' = [pushed EXCEPT ![n] = TRUE]
    /\ IF More(n)
       THEN next' = [next EXCEPT ![n] = @ + 1] /\ UNCHANGED pc
       ELSE pc' = [pc EXCEPT ![n] = "loop"] /\ UNCHANGED next
    /\ UNCHANGED <<callvars, listening, msgtmp, msgtmp2, outbox, havedata, asked, seen, clientvars, restarts>>

\* A plausible bug: what was found is put once more.
PushAgain(n) == pushed[n]
PushedByOther(n) == TRUE

\* The get calls back with a value it has not found yet; several come one by one.
Found(n) ==
    /\ pc[n] = "get"
    /\ \E k \in DOMAIN dht \ seen[n] :
         /\ seen' = [seen EXCEPT ![n] = @ \cup {k}]
         /\ outbox' = [outbox EXCEPT ![n] = Append(@, dht[k])]
    /\ havedata' = [havedata EXCEPT ![n] = TRUE]
    /\ pushed' = [pushed EXCEPT ![n] = PushedByOther(n)]
    /\ UNCHANGED <<callvars, listening, msgtmp, msgtmp2, pc, next, asked, dht, clientvars, restarts, lost>>

\* The get is done: it has called back with every value there was when it began,
\* or some were lost.
Got(n) ==
    /\ pc[n] = "get"
    /\ pc' = [pc EXCEPT ![n] = "loop"]
    /\ seen' = [seen EXCEPT ![n] = {}] /\ asked' = [asked EXCEPT ![n] = 0]
    /\ lost' = (lost \/ ~(1 .. asked[n] \subseteq seen[n]))
    /\ UNCHANGED <<callvars, listening, msgtmp, msgtmp2, outbox, havedata, pushed, next, dht, clientvars, restarts>>

\* An info node is started again; a stream to it breaks.
Restart(n) ==
    /\ restarts < MaxRestarts
    /\ restarts' = restarts + 1
    /\ IF target = n /\ stream = "on" THEN stream' = "over" /\ failed' = TRUE ELSE UNCHANGED <<stream, failed>>
    /\ listening' = listening \ {n}
    /\ msgtmp' = [msgtmp EXCEPT ![n] = <<>>] /\ msgtmp2' = [msgtmp2 EXCEPT ![n] = <<>>]
    /\ outbox' = [outbox EXCEPT ![n] = <<>>]
    /\ havedata' = [havedata EXCEPT ![n] = FALSE]
    /\ pushed' = [pushed EXCEPT ![n] = FALSE]
    /\ pc' = [pc EXCEPT ![n] = "loop"]
    /\ next' = [next EXCEPT ![n] = 1]
    /\ seen' = [seen EXCEPT ![n] = {}] /\ asked' = [asked EXCEPT ![n] = 0]
    /\ UNCHANGED <<target, written, raced, dht, clientvars, lost>>

\* What a client can get from n: what a dump holds, or its first lines if the call
\* breaks; an info node that does not listen gives nothing.
Answers(n) == IF n \in listening THEN {SubSeq(outbox[n], 1, k) : k \in 0 .. Len(outbox[n])} ELSE {<<>>}

Ask(c, n) ==
    /\ got[c] = <<>> /\ c \notin gone
    /\ \E lines \in Answers(n) : got' = [got EXCEPT ![c] = lines]
    /\ UNCHANGED <<callvars, listening, msgtmp, msgtmp2, outbox, loopvars, dht, gone, restarts, lost>>

\* Reading config[3][-1] ends the client, or leads nowhere and it draws again.
Nowhere(c) ==
    /\ got[c] = <<>> /\ c \notin gone /\ None \in {Chosen(r) : r \in Rand}
    /\ gone' \in {gone, gone \cup {c}}
    /\ UNCHANGED <<callvars, listening, msgtmp, msgtmp2, outbox, loopvars, dht, got, restarts, lost>>

\* while(msgtmp.empty()) getkeysfrominfo();
Drawn == {Chosen(r) : r \in Rand} \ {None}
GetKeys(c) == Nowhere(c) \/ \E n \in Drawn : Ask(c, n)

DhtStart(n) == Copy(n) \/ Clear(n) \/ Idle(n) \/ Put(n) \/ Found(n) \/ Got(n)

Next ==
    \/ ChooseInfo \/ Write \/ Break
    \/ \E n \in Infos : DhtStart(n) \/ Listen(n) \/ Restart(n)
    \/ \E c \in Clients : GetKeys(c)

\* What a client does next must end its loop, whichever node it draws.
AllAnswer == \A n \in Drawn : n \in listening /\ outbox[n] # <<>>

\* Streams and loops go on, nodes come to listen, every DHT operation ends; and a
\* client neither draws -1 nor meets a call that breaks for ever.
Spec == Init /\ [][Next]_vars
             /\ WF_vars(ChooseInfo \/ Write)
             /\ (\A n \in Infos : WF_vars(DhtStart(n)) /\ WF_vars(Listen(n)))
             /\ \A c \in Clients : WF_vars(AllAnswer /\ \E n \in Drawn : Ask(c, n))
-----------------------------------------------------------------------------
TypeOK ==
    /\ stream \in {"none", "on", "over"} /\ target \in ToSet(Config) \cup {None}
    /\ written \in 0 .. Len(Ipspub) /\ listening \subseteq Infos
    /\ failed \in BOOLEAN /\ raced \in BOOLEAN
    /\ msgtmp \in [Infos -> Seq(Lines)] /\ msgtmp2 \in [Infos -> Seq(Lines)] /\ outbox \in [Infos -> Seq(Lines)]
    /\ havedata \in [Infos -> BOOLEAN] /\ pushed \in [Infos -> BOOLEAN]
    /\ pc \in [Infos -> {"loop", "clear", "put", "get"}]
    /\ next \in [Infos -> Nat \ {0}]
    /\ \A n \in Infos : pc[n] = "put" => next[n] \in DOMAIN outbox[n]
    /\ dht \in Seq(Lines)
    /\ asked \in [Infos -> 0 .. Len(dht)] /\ seen \in [Infos -> SUBSET DOMAIN dht]
    /\ got \in [Clients -> Seq(Lines)]
    /\ gone \subseteq Clients /\ restarts \in 0 .. MaxRestarts /\ lost \in BOOLEAN

\* No info node serves a key line twice and none is put into the DHT twice,
\* though several nodes find, serve and put them: a client seals one layer for
\* each mixer.
OncePerKey ==
    /\ \A n \in Infos : IsInjective(outbox[n] \o msgtmp[n])
    /\ IsInjective(dht)
    /\ \A c \in Clients : IsInjective(got[c])

\* The info node of the stream ends up serving every key line, and keeps to it,
\* whatever the DHT loses: unless the call failed, a line arrived between a copy and
\* its clear, or an info node was started again.
TargetServesAll ==
    \A n \in Infos : target = n ~> [](outbox[n] = Ipspub \/ failed \/ raced \/ restarts > 0)

\* One line is enough for every info node to end up serving something, also when
\* the call breaks after it and others are destroyed: the first line is not, and
\* it is put.
OthersServeSome ==
    \A n \in Infos : written > 0 ~> outbox[n] # <<>> \/ lost \/ restarts > 0

\* And for every client to leave its loop with some, whichever nodes it draws, or
\* it has read before the first address of the list.
ClientServed ==
    \A c \in Clients : written > 0 ~> got[c] # <<>> \/ c \in gone \/ lost \/ restarts > 0

\* "the infonode will then distribute the message to all other infonodes"
\* (Mixer.cpp:204): every info node ends up serving every key line.
AllServeAll ==
    \A n \in Infos : target # None ~> ToSet(outbox[n]) = Lines \/ lost \/ failed \/ raced \/ restarts > 0
=============================================================================
