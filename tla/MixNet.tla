------------------------------- MODULE MixNet -------------------------------
(***************************************************************************)
(* The network: clients seal a message in one layer per published mixer    *)
(* key and hand it to the mixer of the outermost layer; a mixer takes what *)
(* has arrived, shuffles it, peels a layer off each message and passes it  *)
(* to the address it finds inside; the mailbox keeps what it gets.  Every  *)
(* hop is a blocking PutMessages call of one message whose failure is only *)
(* logged.  How msgtmp behaves under overlapping calls is NodeQueue's.     *)
(***************************************************************************)
EXTENDS Naturals, FiniteSets, SequencesExt

CONSTANTS Mixers, Mailbox,  \* the nodes; 172.18.0.7 is the only mailbox used
          Clients,          \* each client process sends one message
          MaxCrashes,       \* bound: how many processes die
          None              \* no call under way

ASSUME NodesAssumption == Mailbox \notin Mixers /\ Clients \cap Mixers = {}
ASSUME BoundAssumption == MaxCrashes \in Nat
ASSUME NoneAssumption ==
    None \notin [to : Mixers \cup {Mailbox},
               packet : [msg : Clients, layers : Seq([ip : Mixers, key : [ip : Mixers, inc : Nat]])]]

Nodes == Mixers \cup {Mailbox}
Senders == Mixers \cup Clients

VARIABLES
    phase,     \* phase[n]: down, starting, or serving (its server listens)
    inc,       \* inc[n]: how often mixer n has made itself a new key pair
    keys,      \* the lines address + public key the info nodes hand out
    msgtmp,    \* msgtmp[n]: arrived at node n
    reqtmp,    \* reqtmp[n]: the batch mixer n is sending on
    out,       \* out[s]: the PutMessages call s is blocked in
    outbox,    \* what the mailbox keeps
    sent,      \* the clients that have sent their message
    crashes,   \* how many processes have died
    route,     \* history: the keys c's message was sealed for, in order
    peeled,    \* history: the keys that have opened a layer of c's message
    raced      \* history: overlapping calls have lost a message

vars == <<phase, inc, keys, msgtmp, reqtmp, out, outbox, sent, crashes, route, peeled, raced>>

\* A key line: the address of a mixer and the public key it made, told from its
\* earlier ones by a count.
Key(n) == [ip |-> n, inc |-> inc[n]]

Init ==
    /\ phase = [n \in Nodes |-> "starting"]
    /\ inc = [n \in Mixers |-> 0]
    /\ keys = {}
    /\ msgtmp = [n \in Nodes |-> <<>>]
    /\ reqtmp = [n \in Mixers |-> <<>>]
    /\ out = [s \in Senders |-> None]
    /\ outbox = <<>> /\ sent = {} /\ crashes = 0
    /\ route = [c \in Clients |-> <<>>]
    /\ peeled = [c \in Clients |-> <<>>] /\ raced = FALSE
-----------------------------------------------------------------------------
\* The packet: the layers still to be opened, innermost first.  The address a
\* layer travels under is outside its encryption, the key is what opens it.
\* A plausible bug: the address is one position behind the key.
WrongAddress(r, k) == [ip |-> r[IF k = 1 THEN 1 ELSE k - 1].ip, key |-> r[k]]
Layer(r, k) == [ip |-> r[k].ip, key |-> r[k]]

Seal(c, r) == [msg |-> c, layers |-> [k \in DOMAIN r |-> Layer(r, k)]]

\* parseciphertext, attachtomixer: the address of what is left.
NextHop(p) == IF p.layers = <<>> THEN Mailbox ELSE Last(p.layers).ip
\* A plausible bug: the layer taken off is the innermost one.
PeelInnermost(p) == [p EXCEPT !.layers = Tail(@)]
Peel(p) == [p EXCEPT !.layers = Front(@)]

Put(p) == [to |-> NextHop(p), packet |-> p]

\* A plausible bug: indices drawn independently instead of swaps.
AnyOfThem(s) == {[k \in DOMAIN s |-> s[f[k]]] : f \in [DOMAIN s -> DOMAIN s]}
\* Shuffle: every order of the same strings (the seeds 1 to 10 reach some).
Shuffles(s) == {[k \in DOMAIN s |-> s[f[k]]] : f \in Bijection(DOMAIN s, DOMAIN s)}

\* A mixer puts its key into the DHT before its server runs, and the key line
\* reaches the info nodes without its doing; nothing withdraws an old one.
Publish(n) ==
    /\ phase[n] # "down" /\ Key(n) \notin keys
    /\ keys' = keys \cup {Key(n)}
    /\ UNCHANGED <<phase, inc, msgtmp, reqtmp, out, outbox, sent, crashes, route, peeled, raced>>

\* RunServerInBackground, RunServer: the node starts to listen.
Listen(n) ==
    /\ phase[n] = "starting"
    /\ phase' = [phase EXCEPT ![n] = "serving"]
    /\ UNCHANGED <<inc, keys, msgtmp, reqtmp, out, outbox, sent, crashes, route, peeled, raced>>

\* createciphertext: the key lines there are by now are shuffled, and a layer is
\* sealed for each.
Orders(S) == SetToSeqs(S)

Send(c) ==
    /\ c \notin sent /\ keys # {}
    /\ \E r \in Orders(keys) :
         /\ out' = [out EXCEPT ![c] = Put(Seal(c, r))]
         /\ route' = [route EXCEPT ![c] = r]
    /\ sent' = sent \cup {c}
    /\ UNCHANGED <<phase, inc, keys, msgtmp, reqtmp, outbox, crashes, peeled, raced>>

\* The call of s ends, the message is in the other node's msgtmp.
Land(s) ==
    /\ out[s] # None /\ phase[out[s].to] = "serving"
    /\ msgtmp' = [msgtmp EXCEPT ![out[s].to] = Append(@, out[s].packet)]
    /\ out' = [out EXCEPT ![s] = None]
    /\ UNCHANGED <<phase, inc, keys, reqtmp, outbox, sent, crashes, route, peeled, raced>>

\* Another push to the same node, or the node's drain, is under way.
Overlapped(s) ==
    \/ msgtmp[out[s].to] # <<>>
    \/ \E t \in Senders \ {s} : out[t] # None /\ out[t].to = out[s].to

\* The call ends without effect: the node does not listen, or a race destroyed the
\* message after the node had accepted it.  senddata does not look.
Vanish(s) ==
    /\ out[s] # None
    /\ \/ phase[out[s].to] # "serving" /\ UNCHANGED raced
       \/ phase[out[s].to] = "serving" /\ Overlapped(s) /\ raced' = TRUE
    /\ out' = [out EXCEPT ![s] = None]
    /\ UNCHANGED <<phase, inc, keys, msgtmp, reqtmp, outbox, sent, crashes, route, peeled>>

\* if(!msgtmp.empty()): copy, clear, shuffle.
NoClear(n) == msgtmp[n]            \* a plausible bug: clear is forgotten
Cleared(n) == <<>>

Take(n) ==
    /\ phase[n] = "serving" /\ reqtmp[n] = <<>> /\ out[n] = None /\ msgtmp[n] # <<>>
    /\ \E s \in Shuffles(msgtmp[n]) : reqtmp' = [reqtmp EXCEPT ![n] = s]
    /\ msgtmp' = [msgtmp EXCEPT ![n] = Cleared(n)]
    /\ UNCHANGED <<phase, inc, keys, out, outbox, sent, crashes, route, peeled, raced>>

\* The next message of the batch is decrypted, parsed and handed to senddata.
Forward(n) ==
    /\ phase[n] = "serving" /\ out[n] = None /\ reqtmp[n] # <<>>
    /\ LET p == Head(reqtmp[n]) IN
         /\ Last(p.layers).key = Key(n)
         /\ out' = [out EXCEPT ![n] = Put(Peel(p))]
         /\ peeled' = [peeled EXCEPT ![p.msg] = Append(@, Key(n))]
    /\ reqtmp' = [reqtmp EXCEPT ![n] = Tail(@)]
    /\ UNCHANGED <<phase, inc, keys, msgtmp, outbox, sent, crashes, route, raced>>

\* All that a process holds goes with it, and the call it is blocked in.
Die(n) ==
    /\ phase' = [phase EXCEPT ![n] = "down"]
    /\ msgtmp' = [msgtmp EXCEPT ![n] = <<>>]
    /\ reqtmp' = IF n \in Mixers THEN [reqtmp EXCEPT ![n] = <<>>] ELSE reqtmp
    /\ out' = IF n \in Mixers THEN [out EXCEPT ![n] = None] ELSE out
    /\ outbox' = IF n = Mailbox THEN <<>> ELSE outbox

\* sb.decrypt throws on a layer sealed for another key; nothing catches it.
DecryptThrows(n) ==
    /\ phase[n] = "serving" /\ out[n] = None /\ reqtmp[n] # <<>>
    /\ Last(Head(reqtmp[n]).layers).key # Key(n)
    /\ Die(n)
    /\ UNCHANGED <<inc, keys, sent, crashes, route, peeled, raced>>

\* A process dies of corrupted memory or is killed.
Crash(n) ==
    /\ phase[n] # "down" /\ crashes < MaxCrashes
    /\ crashes' = crashes + 1
    /\ Die(n)
    /\ UNCHANGED <<inc, keys, sent, route, peeled, raced>>

\* A mixer started again makes itself a new key pair.  A mailbox is not started
\* again here: its messages are in memory only.
Restart(n) ==
    /\ phase[n] = "down" /\ inc[n] < MaxCrashes
    /\ phase' = [phase EXCEPT ![n] = "starting"]
    /\ inc' = [inc EXCEPT ![n] = @ + 1]
    /\ UNCHANGED <<keys, msgtmp, reqtmp, out, outbox, sent, crashes, route, peeled, raced>>

\* The mailbox's loop: msgtmp is appended to outbox and cleared.
Collect ==
    /\ phase[Mailbox] = "serving" /\ msgtmp[Mailbox] # <<>>
    /\ outbox' = outbox \o [k \in DOMAIN msgtmp[Mailbox] |-> msgtmp[Mailbox][k].msg]
    /\ msgtmp' = [msgtmp EXCEPT ![Mailbox] = <<>>]
    /\ UNCHANGED <<phase, inc, keys, reqtmp, out, sent, crashes, route, peeled, raced>>

PutMessages(s) == Land(s) \/ Vanish(s)
StartRoundAsMixer(n) == Take(n) \/ Forward(n) \/ DecryptThrows(n)

Next ==
    \/ \E c \in Clients : Send(c)
    \/ \E s \in Senders : PutMessages(s)
    \/ \E n \in Mixers : Publish(n) \/ StartRoundAsMixer(n) \/ Restart(n)
    \/ \E n \in Nodes : Listen(n) \/ Crash(n)
    \/ Collect

\* Calls end and loops spin; keys need not be published, clients need not send, nor anybody restart a node.
Spec == Init /\ [][Next]_vars
             /\ \A s \in Senders : WF_vars(PutMessages(s))
             /\ \A n \in Mixers : WF_vars(StartRoundAsMixer(n))
             /\ WF_vars(Collect)
-----------------------------------------------------------------------------
\* The packets in a sequence, at a node, and in the whole network.
HeldBy(n) == ToSet(msgtmp[n]) \cup IF n \in Mixers THEN ToSet(reqtmp[n]) ELSE {}
At(place, s, c) == {<<place, k>> : k \in {j \in DOMAIN s : s[j].msg = c}}
Calls(c) == {s \in Senders : out[s] # None /\ out[s].packet.msg = c}
Copies(c) ==
    Cardinality((UNION {At(<<"msgtmp", n>>, msgtmp[n], c) : n \in Nodes})
                  \cup (UNION {At(<<"reqtmp", n>>, reqtmp[n], c) : n \in Mixers}))
      + Cardinality(Calls(c)) + Cardinality({k \in DOMAIN outbox : outbox[k] = c})

\* The mixers copy, shuffle and clear, nodes crash and restart between hops, but
\* a client's message is never in two places, nor twice in the mailbox.
NothingDuplicated == \A c \in Clients : Copies(c) <= IF c \in sent THEN 1 ELSE 0

\* A mixer holds only messages whose outermost layer was sealed for a key of its
\* own, the present one or an older one, so that only a restart makes a mixer
\* fail to decrypt; and the mailbox gets only messages without a layer left.
SealedForHolder ==
    /\ \A n \in Mixers : \A p \in HeldBy(n) :
         p.layers # <<>> /\ Last(p.layers).key.ip = n /\ Last(p.layers).key.inc <= inc[n]
    /\ \A p \in HeldBy(Mailbox) : p.layers = <<>>

\* No mixer is skipped or visited out of turn: what is in the mailbox was opened
\* with every key of its route, the last one sealed first.
PeeledInOrder == \A c \in ToSet(outbox) : peeled[c] = Reverse(route[c])

Delivered(c) == c \in ToSet(outbox)
InTransit(c) == Calls(c) # {} \/ \E n \in Nodes : \E p \in HeldBy(n) : p.msg = c

Fate == [c \in Clients |-> IF c \notin sent THEN "unsent"
                          ELSE IF Delivered(c) THEN "delivered"
                          ELSE IF InTransit(c) THEN "transit" ELSE "lost"]

D == INSTANCE Delivery WITH Msg <- Clients, status <- Fate

\* Every message is delivered at most once, never after it was lost, and is
\* sooner or later delivered or lost: the network implements Delivery.
ImplementsDelivery == D!Spec

\* A process dies that holds the message, after one was killed; or its call ends
\* at a node that does not listen, or that is at another push or its drain.
Cause(c) ==
    \/ /\ crashes' > 0
       /\ \E n \in Nodes : /\ phase[n] # "down" /\ phase'[n] = "down"
                           /\ \/ n = Mailbox /\ Delivered(c)
                              \/ n \in Mixers /\ n \in Calls(c)
                              \/ \E p \in HeldBy(n) : p.msg = c
    \/ \E s \in Calls(c) : out'[s] = None /\ (phase[out[s].to] # "serving" \/ Overlapped(s))

\* A message that was accepted is lost for one of these causes only: no copy,
\* shuffle or clear of a batch loses any, and no mixer fails to decrypt before a
\* process has died.
LossHasCause ==
    [][\A c \in Clients : Fate[c] \in {"transit", "delivered"} /\ Fate'[c] = "lost" => Cause(c)]_vars

\* Unless a process dies or a race destroys a message, every message reaches the
\* mailbox that is still on its way to the first mixer when every node listens.
CalmDelivers ==
    \A c \in Clients :
      (out[c] # None /\ \A n \in Nodes : phase[n] = "serving") ~> Delivered(c) \/ raced \/ crashes > 0
=============================================================================
