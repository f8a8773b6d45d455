---------------------------- MODULE MixNetProofs ----------------------------
(***************************************************************************)
(* For any mixers, clients, crashes and restarts, whatever is lost: every  *)
(* packet a mixer holds has an outermost layer that was sealed for a key   *)
(* of this mixer, and the mailbox gets only packets without one; no        *)
(* message is ever in two places; one in the mailbox was opened with every *)
(* key of its route, in order; each step is one of Delivery or none, and   *)
(* one that loses a message has a cause outside the mixers' own loops.     *)
(* Each invariant rests on those before it: Routed, Single, Opened.        *)
(***************************************************************************)
EXTENDS MixNet, SequenceTheorems, FiniteSetTheorems, TLAPS

USE NodesAssumption, BoundAssumption

\* With i[n] for inc[n]: the key lines there may be, layers sealed for them and
\* sent to the mixer that made the key, packets, those whose next hop is n, and
\* the calls of PutMessages that go to the next hop.
KeyLines(i) == {k \in [ip : Mixers, inc : Nat] : k.inc <= i[k.ip]}
Layers(i) == {l \in [ip : Mixers, key : KeyLines(i)] : l.ip = l.key.ip}
Packets(i) == [msg : Clients, layers : Seq(Layers(i))]
Bound(n, i) == {p \in Packets(i) : NextHop(p) = n}
Parcels(i) == {o \in [to : Nodes, packet : Packets(i)] : NextHop(o.packet) = o.to}

\* The inductive invariant: every message is on its way to its next hop, or there.
Routed ==
    /\ phase \in [Nodes -> {"down", "starting", "serving"}]
    /\ inc \in [Mixers -> Nat]
    /\ keys \subseteq KeyLines(inc) /\ IsFiniteSet(keys)
    /\ msgtmp \in [Nodes -> Seq(Packets(inc))] /\ reqtmp \in [Mixers -> Seq(Packets(inc))]
    /\ \A n \in Nodes : msgtmp[n] \in Seq(Bound(n, inc))
    /\ \A n \in Mixers : reqtmp[n] \in Seq(Bound(n, inc))
    /\ out \in [Senders -> Parcels(inc) \cup {None}]

LEMMA NextHopIsNode ==
  ASSUME NEW i, NEW p \in Packets(i)
  PROVE  /\ NextHop(p) \in Nodes /\ Put(p) \in Parcels(i)
         /\ p.layers # <<>> => Last(p.layers) \in Layers(i)
<1>1. p.layers # <<>> => Last(p.layers) \in Layers(i)
  BY LenProperties, EmptySeq DEF Packets, Last
<1>2. NextHop(p) \in Nodes
  BY <1>1 DEF NextHop, Nodes, Layers
<1> QED BY <1>1, <1>2 DEF Put, Parcels

\* A mixer's own address leads only to packets with a layer for it.
LEMMA HeldIsSealed ==
  ASSUME NEW i, NEW n \in Mixers, NEW p \in Bound(n, i)
  PROVE  /\ p.layers # <<>> /\ Last(p.layers).key.ip = n
         /\ Last(p.layers).key.inc <= i[n]
<1>1. p.layers # <<>> /\ Last(p.layers).ip = n
  BY DEF Bound, NextHop
<1>2. Last(p.layers) \in Layers(i)
  BY <1>1, NextHopIsNode DEF Bound
<1> QED BY <1>1, <1>2 DEF Layers, KeyLines

LEMMA PeelIsPacket ==
  ASSUME NEW i, NEW p \in Packets(i), p.layers # <<>>
  PROVE  Peel(p) \in Packets(i)
<1>1. p.layers \in Seq(Layers(i)) /\ Len(p.layers) \in Nat
  BY LenProperties DEF Packets
<1>2. \A k \in 1 .. Len(p.layers) - 1 : p.layers[k] \in Layers(i)
  BY <1>1, LenProperties
<1>3. Front(p.layers) \in Seq(Layers(i))
  BY <1>1, <1>2, SubSeqProperties DEF Front
<1> QED BY <1>3 DEF Peel, Packets

\* What the clients seal, in whatever order the key lines come.
LEMMA SealIsPacket ==
  ASSUME NEW i, NEW c \in Clients, NEW K, K \subseteq KeyLines(i), IsFiniteSet(K), NEW r \in Orders(K)
  PROVE  Seal(c, r) \in Packets(i)
<1>1. r \in [1 .. Cardinality(K) -> K] /\ Cardinality(K) \in Nat
  BY FS_CardinalityType DEF Orders, SetToSeqs
<1>2. \A k \in 1 .. Cardinality(K) : Layer(r, k) \in Layers(i)
  BY <1>1 DEF Layer, Layers, KeyLines
<1>3. [k \in DOMAIN r |-> Layer(r, k)] \in [1 .. Cardinality(K) -> Layers(i)]
  BY <1>1, <1>2
<1>4. [k \in DOMAIN r |-> Layer(r, k)] \in Seq(Layers(i))
  BY <1>1, <1>3, SeqDef
<1> QED BY <1>4 DEF Seal, Packets

LEMMA ShuffleIsSeq ==
  ASSUME NEW S, NEW q \in Seq(S), NEW s \in Shuffles(q)
  PROVE  s \in Seq(S)
<1>1. PICK f \in Bijection(DOMAIN q, DOMAIN q) : s = [k \in DOMAIN q |-> q[f[k]]]
  BY DEF Shuffles
<1>2. f \in [DOMAIN q -> DOMAIN q]
  BY DEF Bijection, Injection
<1>3. DOMAIN q = 1 .. Len(q) /\ Len(q) \in Nat /\ \A k \in DOMAIN q : q[k] \in S
  BY LenProperties
<1>4. s \in [1 .. Len(q) -> S]
  BY <1>1, <1>2, <1>3
<1> QED BY <1>3, <1>4, SeqDef

\* A new key pair makes no old layer wrong.
LEMMA Older ==
  ASSUME NEW i \in [Mixers -> Nat], NEW j \in [Mixers -> Nat], \A n \in Mixers : i[n] <= j[n]
  PROVE  /\ KeyLines(i) \subseteq KeyLines(j) /\ Packets(i) \subseteq Packets(j)
         /\ Parcels(i) \subseteq Parcels(j) /\ \A n \in Nodes : Bound(n, i) \subseteq Bound(n, j)
<1>1. KeyLines(i) \subseteq KeyLines(j)
  BY DEF KeyLines
<1>2. Layers(i) \subseteq Layers(j)
  BY <1>1 DEF Layers
<1>3. Seq(Layers(i)) \subseteq Seq(Layers(j))
  BY <1>2, SeqMonotonic
<1>4. Packets(i) \subseteq Packets(j)
  BY <1>3 DEF Packets
<1> QED BY <1>1, <1>4 DEF Parcels, Bound
-----------------------------------------------------------------------------
LEMMA RoutedInit == Init => Routed
<1> SUFFICES ASSUME Init PROVE Routed
  OBVIOUS
<1>1. \A S : <<>> \in Seq(S)
  BY EmptySeq
<1>2. IsFiniteSet(keys)
  BY FS_EmptySet DEF Init
<1>3. msgtmp \in [Nodes -> Seq(Packets(inc))] /\ reqtmp \in [Mixers -> Seq(Packets(inc))]
  BY <1>1 DEF Init
<1>4. /\ \A n \in Nodes : msgtmp[n] \in Seq(Bound(n, inc))
      /\ \A n \in Mixers : reqtmp[n] \in Seq(Bound(n, inc))
  BY <1>1 DEF Init
<1>5. phase \in [Nodes -> {"down", "starting", "serving"}] /\ inc \in [Mixers -> Nat]
  BY DEF Init
<1>6. out \in [Senders -> Parcels(inc) \cup {None}] /\ keys \subseteq KeyLines(inc)
  BY DEF Init
<1> QED BY <1>2, <1>3, <1>4, <1>5, <1>6 DEF Routed

LEMMA DieStep ==
  ASSUME Routed, NEW n \in Nodes, Die(n), UNCHANGED <<inc, keys>>
  PROVE  Routed'
<1>1. <<>> \in Seq(Packets(inc)) /\ \A m \in Nodes : <<>> \in Seq(Bound(m, inc))
  BY EmptySeq
<1>2. /\ msgtmp' \in [Nodes -> Seq(Packets(inc))]
      /\ \A m \in Nodes : msgtmp'[m] \in Seq(Bound(m, inc))
  BY <1>1 DEF Die, Routed
<1>3. /\ reqtmp' \in [Mixers -> Seq(Packets(inc))]
      /\ \A m \in Mixers : reqtmp'[m] \in Seq(Bound(m, inc))
  BY <1>1 DEF Die, Routed, Nodes
<1>4. out' \in [Senders -> Parcels(inc) \cup {None}]
  BY DEF Die, Routed
<1> QED BY <1>2, <1>3, <1>4 DEF Die, Routed

LEMMA RoutedStep == Routed /\ [Next]_vars => Routed'
<1> SUFFICES ASSUME Routed, [Next]_vars PROVE Routed'
  OBVIOUS
<1>1. ASSUME NEW c \in Clients, Send(c) PROVE Routed'
  <2>1. PICK r \in Orders(keys) : out' = [out EXCEPT ![c] = Put(Seal(c, r))]
    BY <1>1 DEF Send
  <2>2. Put(Seal(c, r)) \in Parcels(inc)
    BY SealIsPacket, NextHopIsNode DEF Routed
  <2> QED BY <1>1, <2>1, <2>2 DEF Send, Routed
<1>2. ASSUME NEW s \in Senders, Land(s) PROVE Routed'
  <2> DEFINE n == out[s].to
             p == out[s].packet
  <2>1. n \in Nodes /\ p \in Bound(n, inc) /\ p \in Packets(inc)
    BY <1>2 DEF Land, Routed, Parcels, Bound
  <2>2. Append(msgtmp[n], p) \in Seq(Bound(n, inc)) /\ Append(msgtmp[n], p) \in Seq(Packets(inc))
    BY <2>1, AppendProperties DEF Routed
  <2>3. msgtmp' = [msgtmp EXCEPT ![n] = Append(@, p)] /\ out' = [out EXCEPT ![s] = None]
    BY <1>2 DEF Land
  <2>4. UNCHANGED <<phase, inc, keys, reqtmp>>
    BY <1>2 DEF Land
  <2> HIDE DEF n, p
  <2>5. /\ msgtmp' \in [Nodes -> Seq(Packets(inc))]
        /\ \A m \in Nodes : msgtmp'[m] \in Seq(Bound(m, inc))
    BY <2>1, <2>2, <2>3 DEF Routed
  <2> QED BY <2>3, <2>4, <2>5 DEF Routed
<1>3. ASSUME NEW s \in Senders, Vanish(s) PROVE Routed'
  BY <1>3 DEF Vanish, Routed
<1>4. ASSUME NEW n \in Mixers, Publish(n) PROVE Routed'
  <2>1. Key(n) \in KeyLines(inc)
    BY DEF Key, KeyLines, Routed
  <2>2. IsFiniteSet(keys \cup {Key(n)})
    BY FS_AddElement DEF Routed
  <2> QED BY <1>4, <2>1, <2>2 DEF Publish, Routed
<1>5. ASSUME NEW n \in Mixers, Take(n) PROVE Routed'
  <2>1. PICK s \in Shuffles(msgtmp[n]) : reqtmp' = [reqtmp EXCEPT ![n] = s]
    BY <1>5 DEF Take
  <2>2. n \in Nodes
    BY DEF Nodes
  <2>3. s \in Seq(Packets(inc)) /\ s \in Seq(Bound(n, inc))
    BY <2>2, ShuffleIsSeq DEF Routed
  <2>4. <<>> \in Seq(Packets(inc)) /\ <<>> \in Seq(Bound(n, inc))
    BY EmptySeq
  <2>5. msgtmp' = [msgtmp EXCEPT ![n] = <<>>] /\ UNCHANGED <<phase, inc, keys, out>>
    BY <1>5 DEF Take, Cleared
  <2> QED BY <2>1, <2>3, <2>4, <2>5 DEF Routed
<1>6. ASSUME NEW n \in Mixers, Forward(n) PROVE Routed'
  <2> DEFINE p == Head(reqtmp[n])
  <2>1. reqtmp[n] # <<>> /\ reqtmp[n] \in Seq(Bound(n, inc)) /\ reqtmp[n] \in Seq(Packets(inc))
    BY <1>6 DEF Forward, Routed
  <2>2. p \in Bound(n, inc) /\ p \in Packets(inc)
    BY <2>1, HeadTailProperties
  <2>3. Tail(reqtmp[n]) \in Seq(Bound(n, inc)) /\ Tail(reqtmp[n]) \in Seq(Packets(inc))
    BY <2>1, HeadTailProperties
  <2>4. Put(Peel(p)) \in Parcels(inc)
    BY <2>2, HeldIsSealed, PeelIsPacket, NextHopIsNode
  <2>5. /\ out' = [out EXCEPT ![n] = Put(Peel(p))] /\ reqtmp' = [reqtmp EXCEPT ![n] = Tail(@)]
        /\ UNCHANGED <<phase, inc, keys, msgtmp>>
    BY <1>6 DEF Forward
  <2> QED BY <2>3, <2>4, <2>5 DEF Routed
<1>7. ASSUME NEW n \in Mixers, DecryptThrows(n) PROVE Routed'
  BY <1>7, DieStep DEF DecryptThrows, Nodes
<1>8. ASSUME NEW n \in Nodes, Crash(n) PROVE Routed'
  BY <1>8, DieStep DEF Crash
<1>9. ASSUME NEW n \in Mixers, Restart(n) PROVE Routed'
  <2>1. inc' \in [Mixers -> Nat] /\ \A m \in Mixers : inc[m] <= inc'[m]
    BY <1>9 DEF Restart, Routed
  <2>2. /\ KeyLines(inc) \subseteq KeyLines(inc') /\ Packets(inc) \subseteq Packets(inc')
        /\ Parcels(inc) \subseteq Parcels(inc')
        /\ \A m \in Nodes : Bound(m, inc) \subseteq Bound(m, inc')
    BY <2>1, Older DEF Routed
  <2>3. /\ Seq(Packets(inc)) \subseteq Seq(Packets(inc'))
        /\ \A m \in Nodes : Seq(Bound(m, inc)) \subseteq Seq(Bound(m, inc'))
    BY <2>2, SeqMonotonic
  <2>4. phase' \in [Nodes -> {"down", "starting", "serving"}]
    BY <1>9 DEF Restart, Routed
  <2>5. UNCHANGED <<keys, msgtmp, reqtmp, out>>
    BY <1>9 DEF Restart
  <2> QED BY <2>1, <2>2, <2>3, <2>4, <2>5 DEF Routed, Nodes
<1>10. ASSUME NEW n \in Nodes, Listen(n) PROVE Routed'
  BY <1>10 DEF Listen, Routed
<1>11. CASE Collect
  <2>1. <<>> \in Seq(Packets(inc)) /\ <<>> \in Seq(Bound(Mailbox, inc))
    BY EmptySeq
  <2> QED BY <1>11, <2>1 DEF Collect, Routed
<1>12. CASE UNCHANGED vars
  BY <1>12 DEF vars, Routed
<1> QED
  BY <1>1, <1>2, <1>3, <1>4, <1>5, <1>6, <1>7, <1>8, <1>9, <1>10, <1>11, <1>12
     DEF Next, PutMessages, StartRoundAsMixer

\* For any mixers, clients, crashes, restarts and losses: a mixer holds only
\* packets sealed for a key of its own, and the mailbox only opened ones.
THEOREM SealedCorrect == Spec => []SealedForHolder
<1>1. Routed => SealedForHolder
  <2> SUFFICES ASSUME Routed PROVE SealedForHolder
    OBVIOUS
  <2>1. ASSUME NEW n \in Nodes, NEW p \in HeldBy(n) PROVE p \in Bound(n, inc)
    <3>1. \A k \in DOMAIN msgtmp[n] : msgtmp[n][k] \in Bound(n, inc)
      BY LenProperties DEF Routed
    <3>2. n \in Mixers => \A k \in DOMAIN reqtmp[n] : reqtmp[n][k] \in Bound(n, inc)
      BY LenProperties DEF Routed
    <3> QED BY <2>1, <3>1, <3>2 DEF HeldBy, ToSet
  <2>2. ASSUME NEW n \in Mixers, NEW p \in HeldBy(n)
        PROVE  p.layers # <<>> /\ Last(p.layers).key.ip = n /\ Last(p.layers).key.inc <= inc[n]
    BY <2>1, HeldIsSealed DEF Nodes
  <2>3. ASSUME NEW p \in HeldBy(Mailbox) PROVE p.layers = <<>>
    <3>1. p \in Bound(Mailbox, inc)
      BY <2>1 DEF Nodes
    <3> QED BY <3>1, NextHopIsNode DEF Bound, NextHop, Layers
  <2> QED BY <2>2, <2>3 DEF SealedForHolder
<1> QED BY <1>1, RoutedInit, RoutedStep, PTL DEF Spec
-----------------------------------------------------------------------------
(***************************************************************************)
(* The invariant behind NothingDuplicated.  A slot is a place a message    *)
(* may be in: a position of some msgtmp, of some reqtmp or of outbox, or a *)
(* call.  No two slots hold the same message, and none one that was not    *)
(* sent.  Each step moves messages from slots to slots.                    *)
(***************************************************************************)
Slots == [kind : {"msgtmp", "reqtmp", "out", "outbox"}, at : Nodes \cup Senders, pos : Nat]

Packet(x) == IF x.kind = "msgtmp" THEN msgtmp[x.at][x.pos]
             ELSE IF x.kind = "reqtmp" THEN reqtmp[x.at][x.pos] ELSE out[x.at].packet

\* A slot holds a packet.
Full(x) ==
    \/ x.kind = "msgtmp" /\ x.at \in Nodes /\ x.pos \in DOMAIN msgtmp[x.at]
    \/ x.kind = "reqtmp" /\ x.at \in Mixers /\ x.pos \in DOMAIN reqtmp[x.at]
    \/ x.kind = "out" /\ x.at \in Senders /\ x.pos = 1 /\ out[x.at] # None

\* A slot holds the message of c, as a packet or in outbox.
Holds(x, c) ==
    \/ Full(x) /\ Packet(x).msg = c
    \/ x.kind = "outbox" /\ x.at = Mailbox /\ x.pos \in DOMAIN outbox /\ outbox[x.pos] = c

Single ==
    /\ outbox \in Seq(Clients) /\ sent \subseteq Clients
    /\ \A c \in Clients : \A x, y \in Slots : Holds(x, c) /\ Holds(y, c) => x = y
    /\ \A c \in Clients \ sent : \A x \in Slots : ~Holds(x, c)

\* In a step no message appears: what is in outbox was there, the rest was under way.
Kept ==
    \A c \in Clients : \A x \in Slots : Holds(x, c)' =>
        \E y \in Slots : Holds(y, c) /\ (x.kind = "outbox" <=> y.kind = "outbox")

\* A step in which every slot is filled from one slot of its own.
LEMMA MoveStep ==
  ASSUME Single, NEW From \in [Slots -> Slots], sent' = sent, outbox' \in Seq(Clients),
         \A c \in Clients : \A x \in Slots : Holds(x, c)' => Holds(From[x], c),
         \A c \in Clients : \A x, y \in Slots :
           Holds(x, c)' /\ Holds(y, c)' /\ From[x] = From[y] => x = y
  PROVE  Single'
BY DEF Single

\* A step in which messages only disappear.
LEMMA LoseStep ==
  ASSUME Single, sent' = sent, outbox' \in Seq(Clients),
         \A c \in Clients : \A x \in Slots : Holds(x, c)' => Holds(x, c)
  PROVE  Single'
BY DEF Single

LEMMA SingleInit == Init => Single
<1> SUFFICES ASSUME Init PROVE Single
  OBVIOUS
<1>1. ASSUME NEW x \in Slots, NEW c \in Clients PROVE ~Holds(x, c)
  <2>1. DOMAIN <<>> = {}
    OBVIOUS
  <2> QED BY <2>1 DEF Init, Holds, Full
<1> QED BY <1>1, EmptySeq DEF Init, Single

LEMMA SendSingle ==
  ASSUME Routed, Single, NEW c \in Clients, Send(c)
  PROVE  Single'
<1>1. PICK r \in Orders(keys) : out' = [out EXCEPT ![c] = Put(Seal(c, r))]
  BY DEF Send
<1>2. UNCHANGED <<msgtmp, reqtmp, outbox>> /\ c \notin sent /\ sent' = sent \cup {c}
  BY DEF Send
<1>3. ASSUME NEW x \in Slots, NEW d \in Clients, Holds(x, d)'
      PROVE  Holds(x, d) \/ (x = [kind |-> "out", at |-> c, pos |-> 1] /\ d = c)
  <2>1. CASE x.kind = "out" /\ x.at = c
    <3>1. x = [kind |-> "out", at |-> c, pos |-> 1] /\ Packet(x)'.msg = d
      BY <1>3, <2>1 DEF Holds, Full, Slots
    <3>2. out'[c] = Put(Seal(c, r))
      BY <1>1 DEF Routed, Senders
    <3>3. Packet(x)'.msg = c
      BY <3>1, <3>2 DEF Packet, Put, Seal
    <3> QED BY <3>1, <3>3
  <2>2. CASE ~(x.kind = "out" /\ x.at = c)
    BY <1>1, <1>2, <1>3, <2>2 DEF Holds, Full, Packet, Slots, Routed
  <2> QED BY <2>1, <2>2
<1>4. \A x \in Slots : ~Holds(x, c)
  BY <1>2 DEF Single
<1> QED BY <1>2, <1>3, <1>4 DEF Single

LEMMA LandSingle ==
  ASSUME Routed, Single, NEW s \in Senders, Land(s)
  PROVE  Single' /\ Kept
<1> DEFINE n == out[s].to
           p == out[s].packet
           new == [kind |-> "msgtmp", at |-> n, pos |-> Len(msgtmp[n]) + 1]
           call == [kind |-> "out", at |-> s, pos |-> 1]
           From == [x \in Slots |-> IF x = new THEN call ELSE x]
<1>1. out[s] # None /\ n \in Nodes /\ msgtmp[n] \in Seq(Packets(inc))
  BY DEF Land, Routed, Parcels
<1>2. /\ msgtmp' = [msgtmp EXCEPT ![n] = Append(@, p)] /\ out' = [out EXCEPT ![s] = None]
      /\ UNCHANGED <<reqtmp, outbox, sent>>
  BY DEF Land
<1>3. /\ Len(msgtmp[n]) \in Nat /\ DOMAIN msgtmp[n] = 1 .. Len(msgtmp[n])
      /\ DOMAIN Append(msgtmp[n], p) = 1 .. Len(msgtmp[n]) + 1
      /\ \A k \in 1 .. Len(msgtmp[n]) : Append(msgtmp[n], p)[k] = msgtmp[n][k]
      /\ Append(msgtmp[n], p)[Len(msgtmp[n]) + 1] = p
  <2>1. p \in Packets(inc)
    BY <1>1 DEF Routed, Parcels
  <2> QED BY <1>1, <2>1, AppendProperties, LenProperties
<1>4. new \in Slots /\ call \in Slots /\ Full(call) /\ Packet(call) = p /\ new # call
  BY <1>1, <1>3 DEF Slots, Full, Packet
<1>5. msgtmp'[n] = Append(msgtmp[n], p) /\ \A m \in Nodes \ {n} : msgtmp'[m] = msgtmp[m]
  BY <1>1, <1>2 DEF Routed
<1>6. out'[s] = None /\ \A t \in Senders \ {s} : out'[t] = out[t]
  BY <1>2 DEF Routed
<1> HIDE DEF n, p
<1>7. ASSUME NEW x \in Slots, NEW c \in Clients, Holds(x, c)'
      PROVE  x # call /\ Holds(From[x], c)
  <2>1. x # call
    BY <1>6, <1>7 DEF Holds, Full
  <2>2. CASE x = new
    <3>1. Packet(x)' = p
      BY <1>3, <1>5, <2>2 DEF Packet
    <3>2. Packet(x)'.msg = c
      BY <1>7, <2>2 DEF Holds
    <3> QED BY <1>4, <2>1, <2>2, <3>1, <3>2 DEF Holds
  <2>3. CASE x # new
    <3>1. CASE x.kind = "msgtmp"
      <4>1. x.at \in Nodes /\ x.pos \in DOMAIN msgtmp'[x.at] /\ msgtmp'[x.at][x.pos].msg = c
        BY <1>7, <3>1 DEF Holds, Full, Packet
      <4>2. x = [kind |-> "msgtmp", at |-> x.at, pos |-> x.pos]
        BY <3>1 DEF Slots
      <4>3. x.pos \in DOMAIN msgtmp[x.at] /\ msgtmp[x.at][x.pos].msg = c
        <5>1. CASE x.at = n
          <6>1. x.pos \in 1 .. Len(msgtmp[n])
            BY <1>3, <1>5, <2>3, <4>1, <4>2, <5>1
          <6> QED BY <1>3, <1>5, <4>1, <5>1, <6>1
        <5>2. CASE x.at # n
          BY <1>5, <4>1, <5>2
        <5> QED BY <5>1, <5>2
      <4> QED BY <2>3, <3>1, <4>1, <4>3 DEF Holds, Full, Packet
    <3>2. CASE x.kind # "msgtmp"
      BY <1>2, <1>6, <1>7, <2>3, <3>2 DEF Holds, Full, Packet
    <3> QED BY <3>1, <3>2
  <2> QED BY <2>1, <2>2, <2>3
<1>8. From \in [Slots -> Slots]
  BY <1>4
<1>9. outbox' \in Seq(Clients) /\ sent' = sent
  BY <1>2 DEF Single
<1>10. \A c \in Clients : \A x, y \in Slots : Holds(x, c)' /\ Holds(y, c)' /\ From[x] = From[y] => x = y
  BY <1>7
<1>11. \A x \in Slots : From[x].kind = "outbox" <=> x.kind = "outbox"
  OBVIOUS
<1> HIDE DEF From
<1>12. Kept
  BY <1>7, <1>8, <1>11 DEF Kept
<1> QED BY <1>7, <1>8, <1>9, <1>10, <1>12, MoveStep

LEMMA TakeSingle ==
  ASSUME Routed, Single, NEW n \in Mixers, Take(n)
  PROVE  Single' /\ Kept
<1>1. PICK s \in Shuffles(msgtmp[n]) : reqtmp' = [reqtmp EXCEPT ![n] = s]
  BY DEF Take
<1>2. PICK f \in Bijection(DOMAIN msgtmp[n], DOMAIN msgtmp[n]) : s = [k \in DOMAIN msgtmp[n] |-> msgtmp[n][f[k]]]
  BY DEF Shuffles
<1>3. /\ f \in [DOMAIN msgtmp[n] -> DOMAIN msgtmp[n]]
      /\ \A j, k \in DOMAIN msgtmp[n] : f[j] = f[k] => j = k
  BY DEF Bijection, Injection, IsInjective
<1>4. DOMAIN msgtmp[n] \subseteq Nat /\ n \in Nodes
  BY LenProperties DEF Routed, Nodes
<1>5. /\ msgtmp' = [msgtmp EXCEPT ![n] = <<>>] /\ reqtmp[n] = <<>>
      /\ UNCHANGED <<out, outbox, sent>>
  BY DEF Take, Cleared
<1>6. msgtmp'[n] = <<>> /\ \A m \in Nodes \ {n} : msgtmp'[m] = msgtmp[m]
  BY <1>4, <1>5 DEF Routed
<1>7. reqtmp'[n] = s /\ \A m \in Mixers \ {n} : reqtmp'[m] = reqtmp[m]
  BY <1>1 DEF Routed
<1> DEFINE mine(x) == x.kind = "reqtmp" /\ x.at = n /\ x.pos \in DOMAIN msgtmp[n]
           From == [x \in Slots |-> IF mine(x) THEN [kind |-> "msgtmp", at |-> n, pos |-> f[x.pos]] ELSE x]
<1>8. ASSUME NEW x \in Slots, NEW c \in Clients, Holds(x, c)'
      PROVE  Holds(From[x], c) /\ ~(x.kind = "msgtmp" /\ x.at = n)
  <2>1. ~(x.kind = "msgtmp" /\ x.at = n)
    BY <1>6, <1>8 DEF Holds, Full
  <2>2. CASE mine(x)
    <3>1. Packet(x)'.msg = c /\ Packet(x)' = msgtmp[n][f[x.pos]]
      BY <1>2, <1>7, <1>8, <2>2 DEF Holds, Packet
    <3>2. f[x.pos] \in DOMAIN msgtmp[n]
      BY <1>3, <2>2
    <3>3. From[x] = [kind |-> "msgtmp", at |-> n, pos |-> f[x.pos]]
      BY <2>2
    <3> HIDE DEF From
    <3> QED BY <1>4, <2>1, <3>1, <3>2, <3>3 DEF Holds, Full, Packet
  <2>3. CASE ~mine(x)
    <3>1. ~(x.kind = "reqtmp" /\ x.at = n)
      BY <1>2, <1>7, <1>8, <2>3 DEF Holds, Full
    <3>2. Holds(x, c)
      BY <1>5, <1>6, <1>7, <1>8, <2>1, <3>1 DEF Holds, Full, Packet
    <3> QED BY <2>1, <2>3, <3>2
  <2> QED BY <2>2, <2>3
<1>9. From \in [Slots -> Slots]
  BY <1>3, <1>4 DEF Slots
<1>10. ASSUME NEW c \in Clients, NEW x \in Slots, NEW y \in Slots, Holds(x, c)', Holds(y, c)', From[x] = From[y]
       PROVE  x = y
  <2>1. ~(x.kind = "msgtmp" /\ x.at = n) /\ ~(y.kind = "msgtmp" /\ y.at = n)
    BY <1>8, <1>10
  <2>2. CASE mine(x) /\ mine(y)
    <3>1. f[x.pos] = f[y.pos]
      BY <1>10, <2>2
    <3> QED BY <1>3, <2>2, <3>1 DEF Slots
  <2>3. CASE ~mine(x) /\ ~mine(y)
    BY <1>10, <2>3
  <2>4. CASE mine(x) /\ ~mine(y)
    BY <1>10, <2>1, <2>4
  <2>5. CASE ~mine(x) /\ mine(y)
    BY <1>10, <2>1, <2>5
  <2> QED BY <2>2, <2>3, <2>4, <2>5
<1>11. outbox' \in Seq(Clients) /\ sent' = sent
  BY <1>5 DEF Single
<1>12. \A x \in Slots : From[x].kind = "outbox" <=> x.kind = "outbox"
  OBVIOUS
<1> HIDE DEF From
<1>13. Kept
  BY <1>8, <1>9, <1>12 DEF Kept
<1> QED BY <1>8, <1>9, <1>10, <1>11, <1>13, MoveStep

LEMMA ForwardSingle ==
  ASSUME Routed, Single, NEW n \in Mixers, Forward(n)
  PROVE  Single' /\ Kept
<1> DEFINE p == Head(reqtmp[n])
           call == [kind |-> "out", at |-> n, pos |-> 1]
           From == [x \in Slots |->
                      IF x = call THEN [kind |-> "reqtmp", at |-> n, pos |-> 1]
                      ELSE IF x.kind = "reqtmp" /\ x.at = n THEN [x EXCEPT !.pos = @ + 1] ELSE x]
<1>1. /\ out' = [out EXCEPT ![n] = Put(Peel(p))] /\ reqtmp' = [reqtmp EXCEPT ![n] = Tail(@)]
      /\ reqtmp[n] # <<>> /\ UNCHANGED <<msgtmp, outbox, sent>>
  BY DEF Forward
<1>2. reqtmp[n] \in Seq(Packets(inc)) /\ n \in Senders /\ n \in Nodes
  BY DEF Routed, Nodes, Senders
<1>3. /\ Len(reqtmp[n]) \in Nat /\ DOMAIN reqtmp[n] = 1 .. Len(reqtmp[n]) /\ Len(reqtmp[n]) # 0
      /\ p = reqtmp[n][1]
  BY <1>1, <1>2, LenProperties, HeadTailProperties, EmptySeq
<1>4. /\ DOMAIN Tail(reqtmp[n]) = 1 .. Len(reqtmp[n]) - 1
      /\ \A k \in 1 .. Len(reqtmp[n]) - 1 : Tail(reqtmp[n])[k] = reqtmp[n][k + 1]
  BY <1>1, <1>2, <1>3, HeadTailProperties, LenProperties
<1>5. out'[n] = Put(Peel(p)) /\ \A t \in Senders \ {n} : out'[t] = out[t]
  BY <1>1, <1>2 DEF Routed
<1>6. reqtmp'[n] = Tail(reqtmp[n]) /\ \A m \in Mixers \ {n} : reqtmp'[m] = reqtmp[m]
  BY <1>1 DEF Routed
<1>7. Put(Peel(p)).packet.msg = p.msg
  <2>1. p \in Packets(inc)
    BY <1>2, <1>3
  <2> QED BY <2>1 DEF Put, Peel, Packets
<1>8. ASSUME NEW x \in Slots, NEW c \in Clients, Holds(x, c)' PROVE Holds(From[x], c)
  <2>1. CASE x = call
    <3>1. Packet(x)'.msg = c /\ Packet(x)' = Put(Peel(p)).packet
      BY <1>5, <1>8, <2>1 DEF Holds, Packet
    <3>2. From[x] = [kind |-> "reqtmp", at |-> n, pos |-> 1]
      BY <2>1
    <3> HIDE DEF From
    <3> QED BY <1>3, <1>7, <3>1, <3>2 DEF Holds, Full, Packet
  <2>2. CASE x.kind = "reqtmp" /\ x.at = n
    <3>1. x.pos \in 1 .. Len(reqtmp[n]) - 1 /\ reqtmp[n][x.pos + 1].msg = c
      BY <1>4, <1>6, <1>8, <2>2 DEF Holds, Full, Packet
    <3>2. From[x] = [kind |-> "reqtmp", at |-> n, pos |-> x.pos + 1]
      BY <2>2 DEF Slots
    <3>3. x.pos + 1 \in DOMAIN reqtmp[n]
      BY <1>3, <3>1
    <3> HIDE DEF From
    <3> QED BY <3>1, <3>2, <3>3 DEF Holds, Full, Packet
  <2>3. CASE x # call /\ ~(x.kind = "reqtmp" /\ x.at = n)
    <3>1. x.kind = "out" /\ x.at = n => x.pos # 1
      BY <2>3 DEF Slots
    <3>2. Holds(x, c)
      BY <1>1, <1>5, <1>6, <1>8, <2>3, <3>1 DEF Holds, Full, Packet
    <3> QED BY <2>3, <3>2
  <2> QED BY <2>1, <2>2, <2>3
<1>9. From \in [Slots -> Slots]
  BY <1>2 DEF Slots
<1>10. ASSUME NEW x \in Slots, NEW y \in Slots, From[x] = From[y],
              x.kind = "reqtmp" => x.pos # 0, y.kind = "reqtmp" => y.pos # 0
       PROVE  x = y
  <2> DEFINE batch(z) == z.kind = "reqtmp" /\ z.at = n
  <2>1. CASE batch(x) /\ batch(y)
    <3>1. x.pos + 1 = y.pos + 1
      BY <1>10, <2>1 DEF Slots
    <3> QED BY <2>1, <3>1 DEF Slots
  <2>2. CASE ~batch(x) /\ ~batch(y)
    BY <1>10, <2>2
  <2>3. CASE batch(x) /\ ~batch(y)
    <3>1. From[x].kind = "reqtmp" /\ From[x].at = n /\ From[x].pos = x.pos + 1
      BY <2>3 DEF Slots
    <3>2. y = call => From[y].pos = 1
      OBVIOUS
    <3>3. y # call => From[y] = y
      BY <2>3
    <3> QED BY <1>10, <2>3, <3>1, <3>2, <3>3 DEF Slots
  <2>4. CASE ~batch(x) /\ batch(y)
    <3>1. From[y].kind = "reqtmp" /\ From[y].at = n /\ From[y].pos = y.pos + 1
      BY <2>4 DEF Slots
    <3>2. x = call => From[x].pos = 1
      OBVIOUS
    <3>3. x # call => From[x] = x
      BY <2>4
    <3> QED BY <1>10, <2>4, <3>1, <3>2, <3>3 DEF Slots
  <2> QED BY <2>1, <2>2, <2>3, <2>4
<1>11. \A x \in Slots : \A c \in Clients : Holds(x, c)' => (x.kind = "reqtmp" => x.pos # 0)
  <2> SUFFICES ASSUME NEW x \in Slots, NEW c \in Clients, Holds(x, c)', x.kind = "reqtmp" PROVE x.pos # 0
    OBVIOUS
  <2>1. x.at \in Mixers /\ x.pos \in DOMAIN reqtmp'[x.at]
    BY DEF Holds, Full
  <2>2. CASE x.at = n
    BY <1>3, <1>4, <1>6, <2>1, <2>2
  <2>3. CASE x.at # n
    BY <1>6, <2>1, <2>3, LenProperties DEF Routed
  <2> QED BY <2>2, <2>3
<1>12. outbox' \in Seq(Clients) /\ sent' = sent
  BY <1>1 DEF Single
<1>13. \A x \in Slots : From[x].kind = "outbox" <=> x.kind = "outbox"
  BY DEF Slots
<1> HIDE DEF From
<1>14. Kept
  BY <1>8, <1>9, <1>13 DEF Kept
<1> QED BY <1>8, <1>9, <1>10, <1>11, <1>12, <1>14, MoveStep

LEMMA CollectSingle ==
  ASSUME Routed, Single, Collect
  PROVE  Single'
<1> DEFINE q == msgtmp[Mailbox]
           e == [k \in DOMAIN q |-> q[k].msg]
           l == Len(outbox)
           From == [x \in Slots |->
                      IF x.kind = "outbox" /\ x.at = Mailbox /\ x.pos > l
                        THEN [kind |-> "msgtmp", at |-> Mailbox, pos |-> x.pos - l] ELSE x]
<1>1. /\ outbox' = outbox \o e /\ msgtmp' = [msgtmp EXCEPT ![Mailbox] = <<>>]
      /\ UNCHANGED <<reqtmp, out, sent>>
  BY DEF Collect
<1>2. Mailbox \in Nodes /\ q \in Seq(Packets(inc)) /\ outbox \in Seq(Clients)
  BY DEF Nodes, Routed, Single
<1>3. DOMAIN q = 1 .. Len(q) /\ Len(q) \in Nat /\ l \in Nat /\ DOMAIN outbox = 1 .. l
  BY <1>2, LenProperties
<1>4. e \in Seq(Clients) /\ Len(e) = Len(q) /\ \A k \in 1 .. Len(q) : e[k] = q[k].msg
  <2>1. \A k \in 1 .. Len(q) : q[k] \in Packets(inc)
    BY <1>2, LenProperties
  <2>2. e \in [1 .. Len(q) -> Clients]
    BY <1>3, <2>1 DEF Packets
  <2>3. e \in Seq(Clients)
    BY <1>3, <2>2, SeqDef
  <2> QED BY <1>3, <2>2, <2>3, LenProperties
<1> HIDE DEF e, q
<1>5. /\ outbox' \in Seq(Clients) /\ DOMAIN outbox' = 1 .. l + Len(q)
      /\ \A k \in 1 .. l + Len(q) : outbox'[k] = IF k <= l THEN outbox[k] ELSE e[k - l]
  <2>1. /\ outbox' \in Seq(Clients) /\ Len(outbox') = l + Len(q)
        /\ \A k \in 1 .. l + Len(q) : outbox'[k] = IF k <= l THEN outbox[k] ELSE e[k - l]
    <3>1. /\ outbox \o e \in Seq(Clients) /\ Len(outbox \o e) = Len(outbox) + Len(e)
          /\ \A k \in 1 .. Len(outbox) + Len(e) :
               (outbox \o e)[k] = IF k <= Len(outbox) THEN outbox[k] ELSE e[k - Len(outbox)]
      BY <1>2, <1>4, ConcatProperties
    <3> QED BY <1>1, <1>4, <3>1
  <2> QED BY <2>1, LenProperties
<1>6. msgtmp'[Mailbox] = <<>> /\ \A m \in Nodes \ {Mailbox} : msgtmp'[m] = msgtmp[m]
  BY <1>1, <1>2 DEF Routed
<1> HIDE DEF l
<1>7. ASSUME NEW x \in Slots, NEW c \in Clients, Holds(x, c)'
      PROVE  Holds(From[x], c) /\ ~(x.kind = "msgtmp" /\ x.at = Mailbox)
  <2>1. ~(x.kind = "msgtmp" /\ x.at = Mailbox)
    BY <1>6, <1>7 DEF Holds, Full
  <2>2. CASE x.kind = "outbox" /\ x.at = Mailbox /\ x.pos > l
    <3>1. x.pos \in 1 .. l + Len(q) /\ outbox'[x.pos] = c
      BY <1>5, <1>7, <2>2 DEF Holds, Full
    <3>2. x.pos - l \in 1 .. Len(q) /\ q[x.pos - l].msg = c
      BY <1>3, <1>4, <1>5, <2>2, <3>1
    <3>3. From[x] = [kind |-> "msgtmp", at |-> Mailbox, pos |-> x.pos - l]
      BY <2>2
    <3> HIDE DEF From
    <3> QED BY <1>2, <1>3, <2>1, <3>2, <3>3 DEF Holds, Full, Packet, q
  <2>3. CASE x.kind = "outbox" /\ ~(x.at = Mailbox /\ x.pos > l)
    <3>1. x.at = Mailbox /\ x.pos \in 1 .. l + Len(q) /\ outbox'[x.pos] = c
      BY <1>5, <1>7, <2>3 DEF Holds, Full
    <3>2. x.pos \in DOMAIN outbox /\ outbox[x.pos] = c
      BY <1>3, <1>5, <2>3, <3>1
    <3> QED BY <2>1, <2>3, <3>1, <3>2 DEF Holds
  <2>4. CASE x.kind # "outbox"
    <3>1. Holds(x, c)
      BY <1>1, <1>6, <1>7, <2>1, <2>4 DEF Holds, Full, Packet
    <3> QED BY <2>1, <2>4, <3>1
  <2> QED BY <2>2, <2>3, <2>4
<1>8. From \in [Slots -> Slots]
  BY <1>2, <1>3 DEF Slots
<1>9. ASSUME NEW c \in Clients, NEW x \in Slots, NEW y \in Slots, Holds(x, c)', Holds(y, c)', From[x] = From[y]
      PROVE  x = y
  <2> DEFINE added(z) == z.kind = "outbox" /\ z.at = Mailbox /\ z.pos > l
  <2>1. ~(x.kind = "msgtmp" /\ x.at = Mailbox) /\ ~(y.kind = "msgtmp" /\ y.at = Mailbox)
    BY <1>7, <1>9
  <2>2. CASE added(x) /\ added(y)
    <3>1. x.pos - l = y.pos - l
      BY <1>9, <2>2
    <3>2. x.pos = y.pos
      BY <1>3, <3>1 DEF Slots
    <3> QED BY <2>2, <3>2 DEF Slots
  <2>3. CASE ~added(x) /\ ~added(y)
    BY <1>9, <2>3
  <2>4. CASE added(x) /\ ~added(y)
    BY <1>9, <2>1, <2>4
  <2>5. CASE ~added(x) /\ added(y)
    BY <1>9, <2>1, <2>5
  <2> QED BY <2>2, <2>3, <2>4, <2>5
<1> HIDE DEF From
<1> QED BY <1>1, <1>5, <1>7, <1>8, <1>9, MoveStep

LEMMA DieSingle ==
  ASSUME Routed, Single, NEW n \in Nodes, Die(n), sent' = sent
  PROVE  Single' /\ Kept
<1>1. ASSUME NEW x \in Slots, NEW c \in Clients, Holds(x, c)' PROVE Holds(x, c)
  <2>1. CASE x.kind = "msgtmp"
    BY <1>1, <2>1 DEF Die, Holds, Full, Packet, Routed
  <2>2. CASE x.kind = "reqtmp"
    BY <1>1, <2>2 DEF Die, Holds, Full, Packet, Routed
  <2>3. CASE x.kind = "out"
    BY <1>1, <2>3 DEF Die, Holds, Full, Packet, Routed
  <2>4. CASE x.kind = "outbox"
    <3>1. DOMAIN <<>> = {}
      OBVIOUS
    <3> QED BY <1>1, <2>4, <3>1 DEF Die, Holds, Full
  <2> QED BY <2>1, <2>2, <2>3, <2>4 DEF Slots
<1>2. outbox' \in Seq(Clients)
  BY EmptySeq DEF Die, Single
<1>3. Kept
  BY <1>1 DEF Kept
<1> QED BY <1>1, <1>2, <1>3, LoseStep

LEMMA SingleStep == Routed /\ Single /\ [Next]_vars => Single'
<1> SUFFICES ASSUME Routed, Single, [Next]_vars PROVE Single'
  OBVIOUS
<1>1. ASSUME UNCHANGED <<msgtmp, reqtmp, out, outbox, sent>> PROVE Single'
  BY <1>1 DEF Single, Holds, Full, Packet
<1>2. ASSUME NEW s \in Senders, Vanish(s) PROVE Single'
  <2>1. out' = [out EXCEPT ![s] = None] /\ UNCHANGED <<msgtmp, reqtmp, outbox, sent>>
    BY <1>2 DEF Vanish
  <2>2. \A c \in Clients : \A x \in Slots : Holds(x, c)' => Holds(x, c)
    BY <2>1 DEF Holds, Full, Packet, Routed
  <2>3. outbox' \in Seq(Clients)
    BY <2>1 DEF Single
  <2> QED BY <2>1, <2>2, <2>3, LoseStep
<1>3. ASSUME NEW n \in Mixers, DecryptThrows(n) PROVE Single'
  BY <1>3, DieSingle DEF DecryptThrows, Nodes
<1>4. ASSUME NEW n \in Nodes, Crash(n) PROVE Single'
  BY <1>4, DieSingle DEF Crash
<1>5. ASSUME NEW n \in Mixers, Publish(n) \/ Restart(n) PROVE Single'
  BY <1>1, <1>5 DEF Publish, Restart
<1>6. ASSUME NEW n \in Nodes, Listen(n) PROVE Single'
  BY <1>1, <1>6 DEF Listen
<1>7. CASE UNCHANGED vars
  BY <1>1, <1>7 DEF vars
<1> QED
  BY <1>2, <1>3, <1>4, <1>5, <1>6, <1>7, SendSingle, LandSingle, TakeSingle, ForwardSingle, CollectSingle
     DEF Next, PutMessages, StartRoundAsMixer
-----------------------------------------------------------------------------
LEMMA AtMostOne ==
  ASSUME NEW S, \A a, b \in S : a = b
  PROVE  Cardinality(S) \in 0 .. 1 /\ (S = {} => Cardinality(S) = 0)
<1>1. CASE S = {}
  BY <1>1, FS_EmptySet
<1>2. CASE S # {}
  <2>1. PICK a : S = {a}
    BY <1>2
  <2>2. Cardinality({a}) = 1
    BY FS_Singleton
  <2> QED BY <1>2, <2>1, <2>2
<1> QED BY <1>1, <1>2

LEMMA CopiesFromSingle ==
  ASSUME Routed, Single, NEW c \in Clients
  PROVE  Copies(c) <= IF c \in sent THEN 1 ELSE 0
<1> DEFINE M == UNION {At(<<"msgtmp", n>>, msgtmp[n], c) : n \in Nodes}
           R == UNION {At(<<"reqtmp", n>>, reqtmp[n], c) : n \in Mixers}
           O == {k \in DOMAIN outbox : outbox[k] = c}
           Slot(kind, at, k) == [kind |-> kind, at |-> at, pos |-> k]
<1>1. ASSUME NEW m \in M
      PROVE  \E n \in Nodes, k \in Nat : /\ m = <<<<"msgtmp", n>>, k>>
                                         /\ Slot("msgtmp", n, k) \in Slots /\ Holds(Slot("msgtmp", n, k), c)
  <2>1. PICK n \in Nodes : m \in At(<<"msgtmp", n>>, msgtmp[n], c)
    OBVIOUS
  <2>2. PICK k \in DOMAIN msgtmp[n] : m = <<<<"msgtmp", n>>, k>> /\ msgtmp[n][k].msg = c
    BY <2>1 DEF At
  <2>3. k \in Nat
    BY LenProperties DEF Routed
  <2> QED BY <2>2, <2>3 DEF Slots, Holds, Full, Packet
<1>2. ASSUME NEW m \in R
      PROVE  \E n \in Mixers, k \in Nat : /\ m = <<<<"reqtmp", n>>, k>>
                                          /\ Slot("reqtmp", n, k) \in Slots /\ Holds(Slot("reqtmp", n, k), c)
  <2>1. PICK n \in Mixers : m \in At(<<"reqtmp", n>>, reqtmp[n], c)
    OBVIOUS
  <2>2. PICK k \in DOMAIN reqtmp[n] : m = <<<<"reqtmp", n>>, k>> /\ reqtmp[n][k].msg = c
    BY <2>1 DEF At
  <2>3. k \in Nat
    BY LenProperties DEF Routed
  <2> QED BY <2>2, <2>3 DEF Slots, Holds, Full, Packet, Nodes
<1>3. \A s \in Calls(c) : Slot("out", s, 1) \in Slots /\ Holds(Slot("out", s, 1), c)
  BY DEF Calls, Slots, Holds, Full, Packet
<1>4. \A k \in O : Slot("outbox", Mailbox, k) \in Slots /\ Holds(Slot("outbox", Mailbox, k), c)
  BY LenProperties DEF Slots, Holds, Nodes, Single
<1>0. Copies(c) = Cardinality(M \cup R) + Cardinality(Calls(c)) + Cardinality(O)
  BY DEF Copies
<1> HIDE DEF M, R, O
<1>5. \A x, y \in Slots : Holds(x, c) /\ Holds(y, c) => x = y
  BY DEF Single
<1>6. \A a, b \in M \cup R : a = b
  BY <1>1, <1>2, <1>5
<1>7. \A a, b \in Calls(c) : a = b
  BY <1>3, <1>5
<1>8. \A a, b \in O : a = b
  BY <1>4, <1>5
<1>9. /\ M \cup R # {} => Calls(c) = {} /\ O = {}
      /\ Calls(c) # {} => O = {}
  BY <1>1, <1>2, <1>3, <1>4, <1>5
<1>10. c \notin sent => M \cup R = {} /\ Calls(c) = {} /\ O = {}
  <2> SUFFICES ASSUME c \notin sent PROVE M \cup R = {} /\ Calls(c) = {} /\ O = {}
    OBVIOUS
  <2>1. \A x \in Slots : ~Holds(x, c)
    BY DEF Single
  <2> QED BY <1>1, <1>2, <1>3, <1>4, <2>1
<1>11. /\ Cardinality(M \cup R) \in 0 .. 1 /\ (M \cup R = {} => Cardinality(M \cup R) = 0)
       /\ Cardinality(Calls(c)) \in 0 .. 1 /\ (Calls(c) = {} => Cardinality(Calls(c)) = 0)
       /\ Cardinality(O) \in 0 .. 1 /\ (O = {} => Cardinality(O) = 0)
  BY <1>6, <1>7, <1>8, AtMostOne
<1> QED BY <1>0, <1>9, <1>10, <1>11

\* For any mixers, clients, crashes, restarts and losses: the copying, shuffling
\* and clearing of batches never makes a second copy of a client's message.
THEOREM OnceCorrect == Spec => []NothingDuplicated
<1>1. Routed /\ Single => NothingDuplicated
  BY CopiesFromSingle DEF NothingDuplicated
<1> QED BY <1>1, RoutedInit, RoutedStep, SingleInit, SingleStep, PTL DEF Spec
-----------------------------------------------------------------------------
(***************************************************************************)
(* The invariant behind PeeledInOrder.  The layers of a packet are the     *)
(* first ones of its route, and the keys that have opened it are those of  *)
(* the rest, the last one first.                                           *)
(***************************************************************************)
Lines == [ip : Mixers, inc : Nat]

\* With r[c] for route[c] and d[c] for peeled[c].
Right(p, r, d) ==
    LET c == p.msg IN
      /\ Len(p.layers) + Len(d[c]) = Len(r[c])
      /\ \A k \in 1 .. Len(p.layers) : p.layers[k] = Layer(r[c], k)
      /\ \A k \in 1 .. Len(d[c]) : d[c][k] = r[c][Len(r[c]) + 1 - k]

Opened ==
    /\ route \in [Clients -> Seq(Lines)] /\ peeled \in [Clients -> Seq(Lines)]
    /\ \A c \in Clients \ sent : peeled[c] = <<>>
    /\ \A n \in Nodes : \A k \in DOMAIN msgtmp[n] : Right(msgtmp[n][k], route, peeled)
    /\ \A n \in Mixers : \A k \in DOMAIN reqtmp[n] : Right(reqtmp[n][k], route, peeled)
    /\ \A s \in Senders : out[s] # None => Right(out[s].packet, route, peeled)
    /\ \A k \in DOMAIN outbox : peeled[outbox[k]] = Reverse(route[outbox[k]])

LEMMA OpenedInit == Init => Opened
<1> SUFFICES ASSUME Init PROVE Opened
  OBVIOUS
<1>1. DOMAIN <<>> = {} /\ <<>> \in Seq(Lines)
  BY EmptySeq
<1> QED BY <1>1 DEF Init, Opened

\* Where everything that holds the message of c is.
LEMMA InSlots ==
  ASSUME Routed, Single, NEW c \in Clients
  PROVE  /\ \A n \in Nodes : \A k \in DOMAIN msgtmp[n] : msgtmp[n][k].msg = c =>
              LET x == [kind |-> "msgtmp", at |-> n, pos |-> k] IN x \in Slots /\ Holds(x, c)
         /\ \A n \in Mixers : \A k \in DOMAIN reqtmp[n] : reqtmp[n][k].msg = c =>
              LET x == [kind |-> "reqtmp", at |-> n, pos |-> k] IN x \in Slots /\ Holds(x, c)
         /\ \A s \in Senders : out[s] # None /\ out[s].packet.msg = c =>
              LET x == [kind |-> "out", at |-> s, pos |-> 1] IN x \in Slots /\ Holds(x, c)
         /\ \A k \in DOMAIN outbox : outbox[k] = c =>
              LET x == [kind |-> "outbox", at |-> Mailbox, pos |-> k] IN x \in Slots /\ Holds(x, c)
<1>1. ASSUME NEW n \in Nodes, NEW k \in DOMAIN msgtmp[n], msgtmp[n][k].msg = c
      PROVE  LET x == [kind |-> "msgtmp", at |-> n, pos |-> k] IN x \in Slots /\ Holds(x, c)
  <2>1. k \in Nat
    BY LenProperties DEF Routed
  <2> QED BY <1>1, <2>1 DEF Slots, Holds, Full, Packet
<1>2. ASSUME NEW n \in Mixers, NEW k \in DOMAIN reqtmp[n], reqtmp[n][k].msg = c
      PROVE  LET x == [kind |-> "reqtmp", at |-> n, pos |-> k] IN x \in Slots /\ Holds(x, c)
  <2>1. k \in Nat
    BY LenProperties DEF Routed
  <2> QED BY <1>2, <2>1 DEF Slots, Holds, Full, Packet, Nodes
<1>3. ASSUME NEW s \in Senders, out[s] # None, out[s].packet.msg = c
      PROVE  LET x == [kind |-> "out", at |-> s, pos |-> 1] IN x \in Slots /\ Holds(x, c)
  BY <1>3 DEF Slots, Holds, Full, Packet
<1>4. ASSUME NEW k \in DOMAIN outbox, outbox[k] = c
      PROVE  LET x == [kind |-> "outbox", at |-> Mailbox, pos |-> k] IN x \in Slots /\ Holds(x, c)
  <2>1. k \in Nat
    BY LenProperties DEF Single
  <2> QED BY <1>4, <2>1 DEF Slots, Holds, Nodes
<1> QED BY <1>1, <1>2, <1>3, <1>4

\* What a step does to the history of one message does not disturb the others.
LEMMA RightFrame ==
  ASSUME NEW p, NEW r, NEW d, NEW rr, NEW dd, rr[p.msg] = r[p.msg], dd[p.msg] = d[p.msg], Right(p, r, d)
  PROVE  Right(p, rr, dd)
BY DEF Right

LEMMA SendOpened ==
  ASSUME Routed, Single, Opened, NEW c \in Clients, Send(c)
  PROVE  Opened'
<1>1. PICK r \in Orders(keys) :
        out' = [out EXCEPT ![c] = Put(Seal(c, r))] /\ route' = [route EXCEPT ![c] = r]
  BY DEF Send
<1>2. c \notin sent /\ sent' = sent \cup {c} /\ UNCHANGED <<msgtmp, reqtmp, outbox, peeled>>
  BY DEF Send
<1>3. r \in Seq(Lines)
  <2>1. r \in [1 .. Cardinality(keys) -> keys] /\ Cardinality(keys) \in Nat
    BY FS_CardinalityType DEF Orders, SetToSeqs, Routed
  <2>2. keys \subseteq Lines
    BY DEF Routed, KeyLines, Lines
  <2> QED BY <2>1, <2>2, SeqDef
<1>4. route' \in [Clients -> Seq(Lines)] /\ route'[c] = r /\ \A d \in Clients \ {c} : route'[d] = route[d]
  BY <1>1, <1>3 DEF Opened
<1>5. \A x \in Slots : ~Holds(x, c)
  BY <1>2 DEF Single
<1>6. Right(Seal(c, r), route', peeled')
  <2>1. r \in [1 .. Len(r) -> Lines] /\ Len(r) \in Nat
    BY <1>3, LenProperties
  <2>2. Seal(c, r).msg = c /\ Seal(c, r).layers = [k \in 1 .. Len(r) |-> Layer(r, k)]
    BY <2>1 DEF Seal
  <2>3. Len([k \in 1 .. Len(r) |-> Layer(r, k)]) = Len(r)
    BY <2>1
  <2>4. peeled'[c] = <<>> /\ Len(<<>>) = 0
    BY <1>2, EmptySeq DEF Opened
  <2> QED BY <1>4, <2>1, <2>2, <2>3, <2>4 DEF Right, Layer
<1>7. ASSUME NEW n \in Nodes, NEW k \in DOMAIN msgtmp[n] PROVE Right(msgtmp[n][k], route', peeled')
  <2>1. msgtmp[n][k].msg # c /\ msgtmp[n][k].msg \in Clients
    <3>1. msgtmp[n][k] \in Packets(inc)
      BY LenProperties DEF Routed
    <3> QED BY <1>5, <3>1, InSlots DEF Packets
  <2> QED BY <1>2, <1>4, <2>1, RightFrame DEF Opened
<1>8. ASSUME NEW n \in Mixers, NEW k \in DOMAIN reqtmp[n] PROVE Right(reqtmp[n][k], route', peeled')
  <2>1. reqtmp[n][k].msg # c /\ reqtmp[n][k].msg \in Clients
    <3>1. reqtmp[n][k] \in Packets(inc)
      BY LenProperties DEF Routed
    <3> QED BY <1>5, <3>1, InSlots DEF Packets
  <2> QED BY <1>2, <1>4, <2>1, RightFrame DEF Opened
<1>9. ASSUME NEW s \in Senders, out'[s] # None PROVE Right(out'[s].packet, route', peeled')
  <2>1. CASE s = c
    <3>1. out'[s].packet = Seal(c, r)
      BY <1>1, <2>1 DEF Put, Routed, Senders
    <3> QED BY <1>6, <3>1
  <2>2. CASE s # c
    <3>1. out'[s] = out[s]
      BY <1>1, <2>2 DEF Routed
    <3>2. out[s].packet.msg # c /\ out[s].packet.msg \in Clients
      <4>1. out[s].packet \in Packets(inc)
        BY <1>9, <3>1 DEF Routed, Parcels
      <4> QED BY <1>5, <1>9, <3>1, <4>1, InSlots DEF Packets
    <3>3. Right(out[s].packet, route, peeled)
      BY <1>9, <3>1 DEF Opened
    <3> QED BY <1>2, <1>4, <3>1, <3>2, <3>3, RightFrame
  <2> QED BY <2>1, <2>2
<1>10. ASSUME NEW k \in DOMAIN outbox PROVE peeled'[outbox[k]] = Reverse(route'[outbox[k]])
  <2>1. outbox[k] # c /\ outbox[k] \in Clients
    <3>1. outbox[k] \in Clients
      BY LenProperties DEF Single
    <3> QED BY <1>5, <3>1, InSlots
  <2> QED BY <1>2, <1>4, <2>1 DEF Opened
<1> QED BY <1>2, <1>4, <1>7, <1>8, <1>9, <1>10 DEF Opened

LEMMA LandOpened ==
  ASSUME Routed, Opened, NEW s \in Senders, Land(s)
  PROVE  Opened'
<1> DEFINE n == out[s].to
           p == out[s].packet
<1>1. out[s] # None /\ n \in Nodes /\ p \in Packets(inc) /\ msgtmp[n] \in Seq(Packets(inc))
  BY DEF Land, Routed, Parcels
<1>2. /\ msgtmp' = [msgtmp EXCEPT ![n] = Append(@, p)] /\ out' = [out EXCEPT ![s] = None]
      /\ UNCHANGED <<reqtmp, outbox, sent, route, peeled>>
  BY DEF Land
<1>3. Right(p, route, peeled) /\ \A k \in DOMAIN msgtmp[n] : Right(msgtmp[n][k], route, peeled)
  BY <1>1 DEF Opened
<1> HIDE DEF n, p
<1>4. ASSUME NEW m \in Nodes, NEW k \in DOMAIN msgtmp'[m] PROVE Right(msgtmp'[m][k], route, peeled)
  <2>1. CASE m # n
    BY <1>1, <1>2, <1>4, <2>1 DEF Routed, Opened
  <2>2. CASE m = n
    <3>1. msgtmp'[m] = Append(msgtmp[n], p)
      BY <1>1, <1>2, <2>2 DEF Routed
    <3>2. k \in 1 .. Len(msgtmp[n]) + 1 /\ Len(msgtmp[n]) \in Nat /\ DOMAIN msgtmp[n] = 1 .. Len(msgtmp[n])
      BY <1>1, <1>4, <3>1, AppendProperties, LenProperties
    <3>3. k = Len(msgtmp[n]) + 1 => msgtmp'[m][k] = p
      BY <1>1, <3>1, AppendProperties
    <3>4. k \in 1 .. Len(msgtmp[n]) => msgtmp'[m][k] = msgtmp[n][k]
      BY <1>1, <3>1, AppendProperties
    <3> QED BY <1>3, <3>2, <3>3, <3>4
  <2> QED BY <2>1, <2>2
<1>5. \A t \in Senders : out'[t] # None => Right(out'[t].packet, route, peeled)
  BY <1>2 DEF Routed, Opened
<1> QED BY <1>2, <1>4, <1>5 DEF Opened

LEMMA TakeOpened ==
  ASSUME Routed, Opened, NEW n \in Mixers, Take(n)
  PROVE  Opened'
<1>1. PICK s \in Shuffles(msgtmp[n]) : reqtmp' = [reqtmp EXCEPT ![n] = s]
  BY DEF Take
<1>2. msgtmp' = [msgtmp EXCEPT ![n] = <<>>] /\ UNCHANGED <<out, outbox, sent, route, peeled>>
  BY DEF Take, Cleared
<1>3. n \in Nodes /\ DOMAIN <<>> = {}
  BY DEF Nodes
<1>4. ASSUME NEW k \in DOMAIN s PROVE Right(s[k], route, peeled)
  <2>1. PICK f \in Bijection(DOMAIN msgtmp[n], DOMAIN msgtmp[n]) : s = [j \in DOMAIN msgtmp[n] |-> msgtmp[n][f[j]]]
    BY DEF Shuffles
  <2>2. f \in [DOMAIN msgtmp[n] -> DOMAIN msgtmp[n]]
    BY DEF Bijection, Injection
  <2>3. f[k] \in DOMAIN msgtmp[n] /\ s[k] = msgtmp[n][f[k]]
    BY <2>1, <2>2
  <2> QED BY <1>3, <2>3 DEF Opened
<1>5. \A m \in Mixers : \A k \in DOMAIN reqtmp'[m] : Right(reqtmp'[m][k], route, peeled)
  BY <1>1, <1>4 DEF Routed, Opened
<1>6. \A m \in Nodes : \A k \in DOMAIN msgtmp'[m] : Right(msgtmp'[m][k], route, peeled)
  BY <1>2, <1>3 DEF Routed, Opened
<1> QED BY <1>2, <1>5, <1>6 DEF Opened

LEMMA OfClients ==
  ASSUME Routed
  PROVE  /\ \A n \in Nodes : \A k \in DOMAIN msgtmp[n] : msgtmp[n][k].msg \in Clients
         /\ \A n \in Mixers : \A k \in DOMAIN reqtmp[n] : reqtmp[n][k].msg \in Clients
<1>1. \A n \in Nodes : \A k \in DOMAIN msgtmp[n] : msgtmp[n][k] \in Packets(inc)
  BY LenProperties DEF Routed
<1>2. \A n \in Mixers : \A k \in DOMAIN reqtmp[n] : reqtmp[n][k] \in Packets(inc)
  BY LenProperties DEF Routed
<1> QED BY <1>1, <1>2 DEF Packets

\* The key that opens a packet is the next one of its route.
LEMMA PeelIsRight ==
  ASSUME NEW i, NEW p \in Packets(i), p.layers # <<>>,
         NEW r \in [Clients -> Seq(Lines)], NEW d \in [Clients -> Seq(Lines)], Right(p, r, d),
         NEW k \in Lines, Last(p.layers).key = k
  PROVE  Right(Peel(p), r, [d EXCEPT ![p.msg] = Append(@, k)])
<1> DEFINE c == p.msg
           l == p.layers
           dd == [d EXCEPT ![c] = Append(@, k)]
<1>1. c \in Clients /\ l \in Seq(Layers(i)) /\ r[c] \in Seq(Lines) /\ d[c] \in Seq(Lines)
  BY DEF Packets
<1>2. Len(l) \in Nat /\ Len(d[c]) \in Nat /\ Len(r[c]) \in Nat /\ Len(l) # 0
  BY <1>1, LenProperties, EmptySeq
<1>3. Peel(p).msg = c /\ Peel(p).layers = Front(l)
  BY DEF Peel, Packets
<1>4. Front(l) = SubSeq(l, 1, Len(l) - 1)
  BY DEF Front
<1>5. Len(Front(l)) = Len(l) - 1 /\ \A j \in 1 .. Len(l) - 1 : Front(l)[j] = l[j]
  <2>1. \A j \in 1 .. Len(l) - 1 : l[j] \in Layers(i)
    BY <1>1, LenProperties
  <2> QED BY <1>1, <1>2, <1>4, <2>1, SubSeqProperties
<1>6. dd[c] = Append(d[c], k)
  BY <1>1
<1>7. /\ Len(dd[c]) = Len(d[c]) + 1 /\ dd[c][Len(d[c]) + 1] = k
      /\ \A j \in 1 .. Len(d[c]) : dd[c][j] = d[c][j]
  BY <1>1, <1>6, AppendProperties
<1>8. Len(l) + Len(d[c]) = Len(r[c])
  BY DEF Right
<1>9. /\ \A j \in 1 .. Len(l) : l[j] = Layer(r[c], j)
      /\ \A j \in 1 .. Len(d[c]) : d[c][j] = r[c][Len(r[c]) + 1 - j]
  BY DEF Right
<1>10. k = r[c][Len(l)]
  <2>1. Len(l) \in 1 .. Len(l)
    BY <1>2
  <2>2. l[Len(l)] = Layer(r[c], Len(l))
    BY <1>9, <2>1
  <2> QED BY <2>2 DEF Last, Layer
<1> HIDE DEF l, c, dd
<1>11. Len(Front(l)) + Len(dd[c]) = Len(r[c])
  <2>1. (Len(l) - 1) + (Len(d[c]) + 1) = Len(l) + Len(d[c])
    BY <1>2
  <2>2. Len(Front(l)) = Len(l) - 1 /\ Len(dd[c]) = Len(d[c]) + 1
    BY <1>5, <1>7
  <2>3. Len(Front(l)) + Len(dd[c]) = (Len(l) - 1) + (Len(d[c]) + 1)
    BY <2>2, Zenon
  <2> QED BY <1>8, <2>1, <2>3, Zenon
<1>12. \A j \in 1 .. Len(Front(l)) : Front(l)[j] = Layer(r[c], j)
  BY <1>2, <1>5, <1>9
<1>13. ASSUME NEW j \in 1 .. Len(dd[c]) PROVE dd[c][j] = r[c][Len(r[c]) + 1 - j]
  <2>1. CASE j = Len(d[c]) + 1
    <3>1. Len(r[c]) + 1 - j = Len(l)
      BY <1>2, <1>8, <2>1
    <3> QED BY <1>7, <1>10, <2>1, <3>1
  <2>2. CASE j # Len(d[c]) + 1
    <3>1. j \in 1 .. Len(d[c])
      BY <1>2, <1>7, <2>2
    <3> QED BY <1>7, <1>9, <3>1
  <2> QED BY <2>1, <2>2
<1> QED BY <1>3, <1>11, <1>12, <1>13 DEF Right, dd, c

LEMMA ForwardOpened ==
  ASSUME Routed, Single, Opened, NEW n \in Mixers, Forward(n)
  PROVE  Opened'
<1> DEFINE p == Head(reqtmp[n])
           c == p.msg
           own == [kind |-> "reqtmp", at |-> n, pos |-> 1]
<1>1. /\ reqtmp[n] # <<>> /\ Last(p.layers).key = Key(n)
      /\ out' = [out EXCEPT ![n] = Put(Peel(p))] /\ reqtmp' = [reqtmp EXCEPT ![n] = Tail(@)]
      /\ peeled' = [peeled EXCEPT ![c] = Append(@, Key(n))]
      /\ UNCHANGED <<msgtmp, outbox, sent, route>>
  BY DEF Forward
<1>2. reqtmp[n] \in Seq(Packets(inc)) /\ reqtmp[n] \in Seq(Bound(n, inc)) /\ n \in Senders /\ n \in Nodes
  BY DEF Routed, Senders, Nodes
<1>3. Len(reqtmp[n]) \in Nat /\ DOMAIN reqtmp[n] = 1 .. Len(reqtmp[n]) /\ Len(reqtmp[n]) # 0 /\ p = reqtmp[n][1]
  BY <1>1, <1>2, LenProperties, HeadTailProperties, EmptySeq
<1>4. p \in Packets(inc) /\ p.layers # <<>> /\ c \in Clients
  <2>1. p \in Bound(n, inc)
    BY <1>1, <1>2, HeadTailProperties
  <2> QED BY <2>1, HeldIsSealed DEF Bound, Packets
<1>5. own \in Slots /\ Holds(own, c)
  <2>1. 1 \in DOMAIN reqtmp[n] /\ reqtmp[n][1].msg = c
    BY <1>3
  <2> QED BY <1>2, <2>1 DEF Slots, Holds, Full, Packet
<1>6. \A x \in Slots : Holds(x, c) => x = own
  BY <1>4, <1>5 DEF Single
<1>7. c \in sent
  BY <1>4, <1>5 DEF Single
<1>8. Key(n) \in Lines /\ Right(p, route, peeled)
  BY <1>2, <1>3 DEF Routed, Key, Lines, Opened
<1>9. Right(Peel(p), route, peeled')
  BY <1>1, <1>4, <1>8, PeelIsRight DEF Opened
<1>10. peeled' \in [Clients -> Seq(Lines)] /\ \A d \in Clients \ {c} : peeled'[d] = peeled[d]
  <2>1. Append(peeled[c], Key(n)) \in Seq(Lines)
    BY <1>4, <1>8, AppendProperties DEF Opened
  <2> QED BY <1>1, <2>1 DEF Opened
<1> HIDE DEF p, c
<1>11. ASSUME NEW q, q.msg \in Clients, q.msg # c, Right(q, route, peeled) PROVE Right(q, route', peeled')
  BY <1>1, <1>10, <1>11, RightFrame
<1>12. ASSUME NEW m \in Nodes, NEW k \in DOMAIN msgtmp[m] PROVE Right(msgtmp[m][k], route', peeled')
  <2>1. msgtmp[m][k].msg \in Clients
    BY OfClients
  <2>2. msgtmp[m][k].msg # c
    BY <1>4, <1>6, InSlots DEF own
  <2> QED BY <1>11, <2>1, <2>2 DEF Opened
<1>13. ASSUME NEW m \in Mixers, NEW k \in DOMAIN reqtmp'[m] PROVE Right(reqtmp'[m][k], route', peeled')
  <2>1. CASE m = n
    <3>1. /\ Tail(reqtmp[n]) \in Seq(Packets(inc)) /\ Len(Tail(reqtmp[n])) = Len(reqtmp[n]) - 1
          /\ \A j \in 1 .. Len(Tail(reqtmp[n])) : Tail(reqtmp[n])[j] = reqtmp[n][j + 1]
      BY <1>1, <1>2, HeadTailProperties
    <3>2. DOMAIN Tail(reqtmp[n]) = 1 .. Len(Tail(reqtmp[n]))
      BY <3>1, LenProperties
    <3>3. /\ reqtmp'[m] = Tail(reqtmp[n]) /\ k \in 1 .. Len(reqtmp[n]) - 1
          /\ Tail(reqtmp[n])[k] = reqtmp[n][k + 1]
      <4>1. reqtmp'[m] = Tail(reqtmp[n])
        BY <1>1, <2>1 DEF Routed
      <4> QED BY <1>13, <4>1, <3>1, <3>2
    <3>4. k + 1 \in DOMAIN reqtmp[n] /\ k + 1 # 1
      BY <1>3, <3>3
    <3>5. reqtmp[n][k + 1].msg \in Clients
      BY <3>4, OfClients
    <3>6. reqtmp[n][k + 1].msg # c
      BY <1>4, <1>6, <3>4, InSlots DEF own
    <3> QED BY <1>11, <3>3, <3>4, <3>5, <3>6 DEF Opened
  <2>2. CASE m # n
    <3>1. reqtmp'[m] = reqtmp[m]
      BY <1>1, <2>2 DEF Routed
    <3>2. reqtmp[m][k].msg \in Clients
      BY <1>13, <3>1, OfClients
    <3>3. reqtmp[m][k].msg # c
      BY <1>4, <1>6, <1>13, <2>2, <3>1, InSlots DEF own
    <3> QED BY <1>11, <1>13, <3>1, <3>2, <3>3 DEF Opened
  <2> QED BY <2>1, <2>2
<1>14. ASSUME NEW s \in Senders, out'[s] # None PROVE Right(out'[s].packet, route', peeled')
  <2>1. CASE s = n
    <3>1. out'[s].packet = Peel(p)
      BY <1>1, <1>2, <2>1 DEF Put, Routed
    <3> QED BY <1>1, <1>9, <3>1
  <2>2. CASE s # n
    <3>1. out'[s] = out[s]
      BY <1>1, <2>2 DEF Routed
    <3>2. out[s].packet.msg \in Clients
      BY <1>14, <3>1 DEF Routed, Parcels, Packets
    <3>3. out[s].packet.msg # c
      BY <1>4, <1>6, <1>14, <3>1, InSlots DEF own
    <3> QED BY <1>11, <1>14, <3>1, <3>2, <3>3 DEF Opened
  <2> QED BY <2>1, <2>2
<1>15. ASSUME NEW k \in DOMAIN outbox PROVE peeled'[outbox[k]] = Reverse(route[outbox[k]])
  <2>1. outbox[k] \in Clients
    BY LenProperties DEF Single
  <2>2. outbox[k] # c
    BY <1>4, <1>6, InSlots DEF own
  <2> QED BY <1>10, <2>1, <2>2 DEF Opened
<1> QED BY <1>1, <1>7, <1>10, <1>12, <1>13, <1>14, <1>15 DEF Opened

LEMMA CollectOpened ==
  ASSUME Routed, Single, Opened, Collect
  PROVE  Opened'
<1> DEFINE q == msgtmp[Mailbox]
           e == [k \in DOMAIN q |-> q[k].msg]
<1>1. /\ outbox' = outbox \o e /\ msgtmp' = [msgtmp EXCEPT ![Mailbox] = <<>>]
      /\ UNCHANGED <<reqtmp, out, sent, route, peeled>>
  BY DEF Collect
<1>2. Mailbox \in Nodes /\ q \in Seq(Bound(Mailbox, inc)) /\ outbox \in Seq(Clients) /\ DOMAIN <<>> = {}
  BY DEF Nodes, Routed, Single
<1>3. DOMAIN q = 1 .. Len(q) /\ Len(q) \in Nat
  BY <1>2, LenProperties
<1>4. ASSUME NEW k \in DOMAIN q PROVE q[k].msg \in Clients /\ peeled[q[k].msg] = Reverse(route[q[k].msg])
  <2> DEFINE p == q[k]
             c == p.msg
  <2>1. p \in Bound(Mailbox, inc) /\ Right(p, route, peeled)
    BY <1>2, LenProperties DEF Opened
  <2>2. p \in Packets(inc) /\ p.layers = <<>>
    BY <2>1, NextHopIsNode, NodesAssumption DEF Bound, NextHop, Layers
  <2>3. c \in Clients /\ Len(p.layers) = 0
    BY <2>2, EmptySeq DEF Packets
  <2>4. route[c] \in Seq(Lines) /\ peeled[c] \in Seq(Lines)
    BY <2>3 DEF Opened
  <2>5. /\ Len(peeled[c]) \in Nat /\ Len(route[c]) \in Nat
        /\ peeled[c] \in [1 .. Len(peeled[c]) -> Lines]
    BY <2>4, LenProperties
  <2>6. /\ 0 + Len(peeled[c]) = Len(route[c])
        /\ \A j \in 1 .. Len(peeled[c]) : peeled[c][j] = route[c][Len(route[c]) + 1 - j]
    BY <2>1, <2>3 DEF Right
  <2> HIDE DEF c
  <2>7. Len(peeled[c]) = Len(route[c])
    BY <2>5, <2>6
  <2>8. \A j \in 1 .. Len(route[c]) : Len(route[c]) + 1 - j = (Len(route[c]) - j) + 1
    BY <2>5
  <2>9. peeled[c] = [j \in 1 .. Len(route[c]) |-> route[c][(Len(route[c]) - j) + 1]]
    BY <2>5, <2>6, <2>7, <2>8
  <2> QED BY <2>3, <2>9 DEF c, Reverse
<1>5. e \in Seq(Clients) /\ Len(e) = Len(q) /\ \A k \in 1 .. Len(q) : e[k] = q[k].msg
  <2>1. e \in [1 .. Len(q) -> Clients]
    BY <1>3, <1>4
  <2>2. e \in Seq(Clients)
    BY <1>3, <2>1, SeqDef
  <2> QED BY <1>3, <2>1, <2>2, LenProperties
<1> HIDE DEF q, e
<1>6. ASSUME NEW k \in DOMAIN outbox' PROVE peeled[outbox'[k]] = Reverse(route[outbox'[k]])
  <2>1. /\ outbox \o e \in Seq(Clients) /\ Len(outbox \o e) = Len(outbox) + Len(e)
        /\ \A j \in 1 .. Len(outbox) + Len(e) :
             (outbox \o e)[j] = IF j <= Len(outbox) THEN outbox[j] ELSE e[j - Len(outbox)]
    BY <1>2, <1>5, ConcatProperties
  <2>2. Len(outbox) \in Nat /\ DOMAIN outbox = 1 .. Len(outbox) /\ DOMAIN (outbox \o e) = 1 .. Len(outbox \o e)
    BY <1>2, <2>1, LenProperties
  <2>3. k \in 1 .. Len(outbox) + Len(q)
    BY <1>1, <1>5, <1>6, <2>1, <2>2
  <2>4. CASE k <= Len(outbox)
    <3>1. k \in DOMAIN outbox /\ outbox'[k] = outbox[k]
      BY <1>1, <1>3, <1>5, <2>1, <2>2, <2>3, <2>4
    <3> QED BY <3>1 DEF Opened
  <2>5. CASE ~(k <= Len(outbox))
    <3>1. k - Len(outbox) \in 1 .. Len(q)
      BY <1>3, <2>2, <2>3, <2>5
    <3>2. outbox'[k] = q[k - Len(outbox)].msg
      BY <1>1, <1>5, <2>1, <2>3, <2>5, <3>1
    <3> QED BY <1>3, <1>4, <3>1, <3>2
  <2> QED BY <2>4, <2>5
<1>7. \A m \in Nodes : \A k \in DOMAIN msgtmp'[m] : Right(msgtmp'[m][k], route, peeled)
  BY <1>1, <1>2 DEF Routed, Opened
<1> QED BY <1>1, <1>6, <1>7 DEF Opened

LEMMA DieOpened ==
  ASSUME Routed, Opened, NEW n \in Nodes, Die(n), UNCHANGED <<sent, route, peeled>>
  PROVE  Opened'
<1>1. DOMAIN <<>> = {}
  OBVIOUS
<1>2. \A m \in Nodes : \A k \in DOMAIN msgtmp'[m] : Right(msgtmp'[m][k], route, peeled)
  BY <1>1 DEF Die, Routed, Opened
<1>3. \A m \in Mixers : \A k \in DOMAIN reqtmp'[m] : Right(reqtmp'[m][k], route, peeled)
  BY <1>1 DEF Die, Routed, Opened
<1>4. \A s \in Senders : out'[s] # None => Right(out'[s].packet, route, peeled)
  BY DEF Die, Routed, Opened
<1>5. \A k \in DOMAIN outbox' : peeled[outbox'[k]] = Reverse(route[outbox'[k]])
  BY <1>1 DEF Die, Opened
<1> QED BY <1>2, <1>3, <1>4, <1>5 DEF Opened

LEMMA OpenedStep == Routed /\ Single /\ Opened /\ [Next]_vars => Opened'
<1> SUFFICES ASSUME Routed, Single, Opened, [Next]_vars PROVE Opened'
  OBVIOUS
<1>1. ASSUME UNCHANGED <<msgtmp, reqtmp, out, outbox, sent, route, peeled>> PROVE Opened'
  BY <1>1 DEF Opened
<1>2. ASSUME NEW s \in Senders, Vanish(s) PROVE Opened'
  <2>1. out' = [out EXCEPT ![s] = None] /\ UNCHANGED <<msgtmp, reqtmp, outbox, sent, route, peeled>>
    BY <1>2 DEF Vanish
  <2>2. \A t \in Senders : out'[t] # None => Right(out'[t].packet, route, peeled)
    BY <2>1 DEF Routed, Opened
  <2> QED BY <2>1, <2>2 DEF Opened
<1>3. ASSUME NEW n \in Mixers, DecryptThrows(n) PROVE Opened'
  BY <1>3, DieOpened DEF DecryptThrows, Nodes
<1>4. ASSUME NEW n \in Nodes, Crash(n) PROVE Opened'
  BY <1>4, DieOpened DEF Crash
<1>5. ASSUME NEW n \in Mixers, Publish(n) \/ Restart(n) PROVE Opened'
  BY <1>1, <1>5 DEF Publish, Restart
<1>6. ASSUME NEW n \in Nodes, Listen(n) PROVE Opened'
  BY <1>1, <1>6 DEF Listen
<1>7. CASE UNCHANGED vars
  BY <1>1, <1>7 DEF vars
<1> QED
  BY <1>2, <1>3, <1>4, <1>5, <1>6, <1>7, SendOpened, LandOpened, TakeOpened, ForwardOpened, CollectOpened
     DEF Next, PutMessages, StartRoundAsMixer

\* For any mixers, clients, crashes, restarts and losses: a message in the mailbox
\* was opened with every key of its route, the last one sealed first.
THEOREM PeeledCorrect == Spec => []PeeledInOrder
<1>1. Opened => PeeledInOrder
  BY DEF Opened, PeeledInOrder, ToSet
<1> QED BY <1>1, RoutedInit, RoutedStep, SingleInit, SingleStep, OpenedInit, OpenedStep, PTL DEF Spec
-----------------------------------------------------------------------------
(***************************************************************************)
(* Every step of the network is a step of Delivery, or none.  Delivery     *)
(* lets any message under way be lost at any time: it is enough that none  *)
(* appears, and that what Collect takes is delivered.                      *)
(***************************************************************************)
UnderWay(c) == \E x \in Slots : Holds(x, c) /\ x.kind # "outbox"
Arrived(c) == \E x \in Slots : Holds(x, c) /\ x.kind = "outbox"

FateOfSlots ==
    \A c \in Clients : (InTransit(c) <=> UnderWay(c)) /\ (Delivered(c) <=> Arrived(c))

LEMMA FateFromSlots == Routed /\ Single => FateOfSlots
<1> SUFFICES ASSUME Routed, Single, NEW c \in Clients
             PROVE  (InTransit(c) <=> UnderWay(c)) /\ (Delivered(c) <=> Arrived(c))
  BY DEF FateOfSlots
<1>1. ASSUME InTransit(c) PROVE UnderWay(c)
  <2>1. CASE Calls(c) # {}
    BY <2>1, InSlots DEF Calls, UnderWay
  <2>2. CASE \E n \in Nodes : \E p \in HeldBy(n) : p.msg = c
    <3>1. PICK n \in Nodes : \E p \in HeldBy(n) : p.msg = c
      BY <2>2
    <3>2. PICK p \in HeldBy(n) : p.msg = c
      BY <3>1
    <3>3. CASE p \in ToSet(msgtmp[n])
      BY <3>2, <3>3, InSlots DEF ToSet, UnderWay
    <3>4. CASE n \in Mixers /\ p \in ToSet(reqtmp[n])
      BY <3>2, <3>4, InSlots DEF ToSet, UnderWay
    <3> QED BY <3>2, <3>3, <3>4 DEF HeldBy
  <2> QED BY <1>1, <2>1, <2>2 DEF InTransit
<1>2. ASSUME UnderWay(c) PROVE InTransit(c)
  <2>1. PICK x \in Slots : Full(x) /\ Packet(x).msg = c
    BY <1>2 DEF UnderWay, Holds
  <2>2. CASE x.kind = "msgtmp"
    <3>1. x.at \in Nodes /\ Packet(x) \in HeldBy(x.at)
      BY <2>1, <2>2 DEF Full, Packet, HeldBy, ToSet
    <3> QED BY <2>1, <3>1 DEF InTransit
  <2>3. CASE x.kind = "reqtmp"
    <3>1. x.at \in Nodes /\ Packet(x) \in HeldBy(x.at)
      BY <2>1, <2>3 DEF Full, Packet, HeldBy, ToSet, Nodes
    <3> QED BY <2>1, <3>1 DEF InTransit
  <2>4. CASE x.kind = "out"
    BY <2>1, <2>4 DEF Full, Packet, InTransit, Calls
  <2> QED BY <2>1, <2>2, <2>3, <2>4 DEF Full
<1>3. Delivered(c) => Arrived(c)
  BY InSlots DEF Delivered, ToSet, Arrived
<1>4. Arrived(c) => Delivered(c)
  BY DEF Delivered, ToSet, Arrived, Holds, Full
<1> QED BY <1>1, <1>2, <1>3, <1>4

LEMMA FateFromSlotsNext == (Routed /\ Single => FateOfSlots)'
BY FateFromSlots, PTL

\* A step that only moves or loses messages.
LEMMA KeptFate ==
  ASSUME Routed, Routed', Single, Single', Kept, sent' = sent
  PROVE  [D!Next]_Fate
<1> DEFINE S == {c \in Clients : Fate'[c] # Fate[c]}
<1>1. ASSUME NEW c \in Clients
      PROVE  (InTransit(c)' => InTransit(c)) /\ (Delivered(c)' => Delivered(c)) /\ ~(InTransit(c) /\ Delivered(c))
  <2>1. (InTransit(c) <=> UnderWay(c)) /\ (Delivered(c) <=> Arrived(c))
    BY FateFromSlots DEF FateOfSlots
  <2>2. (InTransit(c)' <=> UnderWay(c)') /\ (Delivered(c)' <=> Arrived(c)')
    BY FateFromSlotsNext DEF FateOfSlots
  <2>3. (UnderWay(c)' => UnderWay(c)) /\ (Arrived(c)' => Arrived(c))
    BY DEF Kept, UnderWay, Arrived
  <2>4. ~(UnderWay(c) /\ Arrived(c))
    BY DEF Single, UnderWay, Arrived
  <2> QED BY <2>1, <2>2, <2>3, <2>4
<1>2. ASSUME NEW c \in S PROVE Fate[c] \in {"transit", "delivered"} /\ Fate'[c] = "lost"
  BY <1>1 DEF Fate
<1>3. Fate' = [c \in Clients |-> IF c \in S THEN "lost" ELSE Fate[c]]
  BY <1>2 DEF Fate
<1>4. CASE S = {}
  <2>1. Fate' = Fate
    BY <1>4 DEF Fate
  <2> QED BY <2>1
<1>5. CASE S # {}
  <2>1. S \in (SUBSET Clients) \ {{}}
    BY <1>5
  <2>2. D!Lose(S)
    BY <1>2, <1>3 DEF D!Lose
  <2> QED BY <2>1, <2>2 DEF D!Next
<1> QED BY <1>4, <1>5

\* A client is in no call before it sends.
Waiting == \A c \in Clients \ sent : out[c] = None

LEMMA WaitingStep == Routed /\ Waiting /\ [Next]_vars => Waiting'
<1> SUFFICES ASSUME Routed, Waiting, [Next]_vars, NEW c \in Clients, c \notin sent' PROVE out'[c] = None
  BY DEF Waiting
<1> USE DEF Waiting
<1>1. c \in Senders /\ c \notin Mixers
  BY NodesAssumption DEF Senders
<1>2. ASSUME NEW d \in Clients, Send(d) PROVE out'[c] = None
  BY <1>2 DEF Send, Routed
<1>3. ASSUME NEW s \in Senders, PutMessages(s) PROVE out'[c] = None
  BY <1>1, <1>3 DEF PutMessages, Land, Vanish, Routed
<1>4. ASSUME NEW n \in Mixers, Forward(n) PROVE out'[c] = None
  BY <1>1, <1>4 DEF Forward, Routed
<1>5. ASSUME NEW n \in Nodes, Die(n), sent' = sent PROVE out'[c] = None
  BY <1>1, <1>5 DEF Die, Routed
<1>6. ASSUME UNCHANGED <<out, sent>> PROVE out'[c] = None
  BY <1>6
<1>7. ASSUME NEW n \in Mixers, Take(n) \/ Publish(n) \/ Restart(n) PROVE out'[c] = None
  BY <1>6, <1>7 DEF Take, Publish, Restart
<1>8. ASSUME NEW n \in Mixers, DecryptThrows(n) PROVE out'[c] = None
  BY <1>5, <1>8 DEF DecryptThrows, Nodes
<1>9. ASSUME NEW n \in Nodes, Listen(n) \/ Crash(n) PROVE out'[c] = None
  BY <1>5, <1>6, <1>9 DEF Listen, Crash
<1>10. CASE Collect \/ UNCHANGED vars
  BY <1>6, <1>10 DEF Collect, vars
<1> QED
  BY <1>2, <1>3, <1>4, <1>7, <1>8, <1>9, <1>10 DEF Next, StartRoundAsMixer

LEMMA SendFate ==
  ASSUME Routed, Routed', Single, Single', Waiting, NEW c \in Clients, Send(c)
  PROVE  D!Next
<1>1. PICK r \in Orders(keys) : out' = [out EXCEPT ![c] = Put(Seal(c, r))]
  BY DEF Send
<1>2. c \notin sent /\ sent' = sent \cup {c} /\ UNCHANGED <<msgtmp, reqtmp, outbox>>
  BY DEF Send
<1>3. InTransit(c)'
  <2>1. Put(Seal(c, r)) \in Parcels(inc)
    BY SealIsPacket, NextHopIsNode DEF Routed
  <2>2. Parcels(inc) \subseteq [to : Mixers \cup {Mailbox},
                packet : [msg : Clients, layers : Seq([ip : Mixers, key : [ip : Mixers, inc : Nat]])]]
    <3>1. Layers(inc) \subseteq [ip : Mixers, key : [ip : Mixers, inc : Nat]]
      BY DEF Layers, KeyLines
    <3>2. Seq(Layers(inc)) \subseteq Seq([ip : Mixers, key : [ip : Mixers, inc : Nat]])
      BY <3>1, SeqMonotonic
    <3> QED BY <3>2 DEF Parcels, Packets, Nodes
  <2>3. out'[c] = Put(Seal(c, r)) /\ c \in Senders
    BY <1>1 DEF Routed, Senders
  <2>4. out'[c] # None
    BY <2>1, <2>2, <2>3, NoneAssumption
  <2>5. out'[c].packet.msg = c
    BY <2>3 DEF Put, Seal
  <2> QED BY <2>3, <2>4, <2>5 DEF InTransit, Calls
<1>4. Fate[c] = "unsent" /\ Fate'[c] = "transit"
  <2>1. ~Delivered(c)'
    <3>1. FateOfSlots'
      BY FateFromSlotsNext
    <3>2. ~(UnderWay(c)' /\ Arrived(c)')
      BY DEF Single, UnderWay, Arrived
    <3> QED BY <1>3, <3>1, <3>2 DEF FateOfSlots
  <2> QED BY <1>2, <1>3, <2>1 DEF Fate
<1>5. ASSUME NEW d \in Clients \ {c} PROVE Fate'[d] = Fate[d]
  <2>1. InTransit(d)' <=> InTransit(d)
    <3>1. \A s \in Senders \ {c} : out'[s] = out[s]
      BY <1>1 DEF Routed
    <3>2. c \in Senders /\ out'[c] = Put(Seal(c, r)) /\ Put(Seal(c, r)).packet.msg = c
      BY <1>1 DEF Routed, Senders, Put, Seal
    <3>3. c \notin Calls(d)'
      BY <3>2 DEF Calls
    <3>4. c \notin Calls(d)
      BY <1>2 DEF Waiting, Calls
    <3>5. Calls(d)' = Calls(d)
      BY <3>1, <3>3, <3>4 DEF Calls
    <3> QED BY <1>2, <3>5 DEF InTransit, HeldBy
  <2> QED BY <1>2, <2>1 DEF Fate, Delivered
<1>6. Fate' = [Fate EXCEPT ![c] = "transit"]
  BY <1>4, <1>5 DEF Fate
<1> QED BY <1>4, <1>6 DEF D!Submit, D!Next

\* What Collect takes is delivered, and stays nowhere else.
InBox(c) == \E k \in DOMAIN msgtmp[Mailbox] : msgtmp[Mailbox][k].msg = c

LEMMA CollectMoves ==
  ASSUME Routed, Single, Collect, NEW c \in Clients
  PROVE  /\ Delivered(c)' <=> Delivered(c) \/ InBox(c)
         /\ InTransit(c) <=> InTransit(c)' \/ InBox(c)
<1> DEFINE q == msgtmp[Mailbox]
           e == [k \in DOMAIN q |-> q[k].msg]
<1>1. /\ outbox' = outbox \o e /\ msgtmp' = [msgtmp EXCEPT ![Mailbox] = <<>>]
      /\ UNCHANGED <<reqtmp, out, sent>>
  BY DEF Collect
<1>2. Mailbox \in Nodes /\ Mailbox \notin Mixers /\ q \in Seq(Packets(inc)) /\ outbox \in Seq(Clients)
  BY NodesAssumption DEF Nodes, Routed, Single
<1>3. DOMAIN q = 1 .. Len(q) /\ Len(q) \in Nat
  BY <1>2, LenProperties
<1>4. e \in Seq(Clients) /\ Len(e) = Len(q) /\ DOMAIN e = DOMAIN q /\ \A k \in DOMAIN q : e[k] = q[k].msg
  <2>1. \A k \in DOMAIN q : q[k].msg \in Clients
    BY <1>2, OfClients
  <2>2. e \in [1 .. Len(q) -> Clients]
    BY <1>3, <2>1
  <2>3. e \in Seq(Clients)
    BY <1>3, <2>2, SeqDef
  <2> QED BY <1>3, <2>2, <2>3, LenProperties
<1>5. ToSet(outbox') = ToSet(outbox) \cup ToSet(e)
  <2> HIDE DEF e, q
  <2>1. /\ outbox \o e \in Seq(Clients) /\ Len(outbox \o e) = Len(outbox) + Len(e)
        /\ \A j \in 1 .. Len(outbox) + Len(e) :
             (outbox \o e)[j] = IF j <= Len(outbox) THEN outbox[j] ELSE e[j - Len(outbox)]
    BY <1>2, <1>4, ConcatProperties
  <2>2. /\ Len(outbox) \in Nat /\ DOMAIN outbox = 1 .. Len(outbox) /\ DOMAIN (outbox \o e) = 1 .. Len(outbox \o e)
        /\ Len(e) \in Nat /\ DOMAIN e = 1 .. Len(e)
    BY <1>2, <1>4, <2>1, LenProperties
  <2>3. ASSUME NEW j \in DOMAIN (outbox \o e) PROVE (outbox \o e)[j] \in ToSet(outbox) \cup ToSet(e)
    <3>1. j <= Len(outbox) => j \in DOMAIN outbox
      BY <2>1, <2>2
    <3>2. ~(j <= Len(outbox)) => j - Len(outbox) \in DOMAIN e
      BY <2>1, <2>2
    <3> QED BY <2>1, <2>2, <3>1, <3>2 DEF ToSet
  <2>4. ASSUME NEW j \in DOMAIN outbox PROVE outbox[j] \in ToSet(outbox \o e)
    <3>1. j \in DOMAIN (outbox \o e) /\ (outbox \o e)[j] = outbox[j]
      BY <2>1, <2>2
    <3> QED BY <3>1 DEF ToSet
  <2>5. ASSUME NEW j \in DOMAIN e PROVE e[j] \in ToSet(outbox \o e)
    <3>1. Len(outbox) + j \in DOMAIN (outbox \o e) /\ ~(Len(outbox) + j <= Len(outbox))
          /\ (Len(outbox) + j) - Len(outbox) = j
      BY <2>1, <2>2
    <3>2. (outbox \o e)[Len(outbox) + j] = e[j]
      BY <2>1, <2>2, <3>1
    <3> QED BY <3>1, <3>2 DEF ToSet
  <2>6. ToSet(outbox \o e) \subseteq ToSet(outbox) \cup ToSet(e)
    BY <2>3 DEF ToSet
  <2>7. ToSet(outbox) \subseteq ToSet(outbox \o e) /\ ToSet(e) \subseteq ToSet(outbox \o e)
    BY <2>4, <2>5 DEF ToSet
  <2>8. ToSet(outbox \o e) = ToSet(outbox) \cup ToSet(e)
    BY <2>6, <2>7, Zenon
  <2> QED BY <1>1, <2>8
<1>6. Delivered(c)' <=> Delivered(c) \/ InBox(c)
  <2>1. c \in ToSet(e) <=> \E k \in DOMAIN q : q[k].msg = c
    BY <1>4 DEF ToSet
  <2> QED BY <1>5, <2>1 DEF Delivered, InBox
<1>7. InTransit(c) <=> InTransit(c)' \/ InBox(c)
  <2>1. msgtmp'[Mailbox] = <<>> /\ DOMAIN <<>> = {} /\ \A n \in Nodes \ {Mailbox} : msgtmp'[n] = msgtmp[n]
    BY <1>1, <1>2 DEF Routed
  <2>2. \A n \in Nodes \ {Mailbox} : HeldBy(n)' = HeldBy(n)
    BY <1>1, <2>1 DEF HeldBy
  <2>3. HeldBy(Mailbox)' = {} /\ HeldBy(Mailbox) = ToSet(q)
    BY <1>2, <2>1 DEF HeldBy, ToSet
  <2>4. Calls(c)' = Calls(c)
    BY <1>1 DEF Calls
  <2> QED BY <1>2, <2>2, <2>3, <2>4 DEF InTransit, InBox, ToSet
<1> QED BY <1>6, <1>7

\* Collect loses nothing: what it takes is delivered.
LEMMA CollectFate ==
  ASSUME Routed, Routed', Single, Single', Collect
  PROVE  [D!Next]_Fate
<1> DEFINE S == {c \in Clients : Fate'[c] # Fate[c]}
<1>1. /\ sent' = sent
      /\ \A c \in Clients : /\ Delivered(c)' <=> Delivered(c) \/ InBox(c)
                            /\ InTransit(c) <=> InTransit(c)' \/ InBox(c)
  BY CollectMoves DEF Collect
<1>2. ASSUME NEW c \in Clients PROVE ~(InTransit(c) /\ Delivered(c)) /\ ~(InTransit(c)' /\ Delivered(c)')
  <2>1. FateOfSlots /\ FateOfSlots'
    BY FateFromSlots, FateFromSlotsNext
  <2>2. ~(UnderWay(c) /\ Arrived(c)) /\ ~(UnderWay(c)' /\ Arrived(c)')
    BY DEF Single, UnderWay, Arrived
  <2> QED BY <2>1, <2>2 DEF FateOfSlots
<1>3. ASSUME NEW c \in S PROVE Fate[c] = "transit" /\ Fate'[c] = "delivered"
  BY <1>1, <1>2 DEF Fate
<1>4. Fate' = [c \in Clients |-> IF c \in S THEN "delivered" ELSE Fate[c]]
  BY <1>3 DEF Fate
<1>5. CASE S = {}
  <2>1. Fate' = Fate
    BY <1>5 DEF Fate
  <2> QED BY <2>1
<1>6. CASE S # {}
  <2>1. S \in (SUBSET Clients) \ {{}}
    BY <1>6
  <2>2. D!Deliver(S)
    BY <1>3, <1>4 DEF D!Deliver
  <2> QED BY <2>1, <2>2 DEF D!Next
<1> QED BY <1>5, <1>6

LEMMA FateStep ==
  Routed /\ Routed' /\ Single /\ Single' /\ Waiting /\ [Next]_vars => [D!Next]_Fate
<1> SUFFICES ASSUME Routed, Routed', Single, Single', Waiting, [Next]_vars PROVE [D!Next]_Fate
  OBVIOUS
<1>1. ASSUME UNCHANGED <<msgtmp, reqtmp, out, outbox, sent>> PROVE [D!Next]_Fate
  BY <1>1 DEF Fate, Delivered, InTransit, Calls, HeldBy
<1>2. ASSUME NEW s \in Senders, Land(s) PROVE [D!Next]_Fate
  BY <1>2, LandSingle, KeptFate DEF Land
<1>3. ASSUME NEW s \in Senders, Vanish(s) PROVE [D!Next]_Fate
  <2>1. out' = [out EXCEPT ![s] = None] /\ UNCHANGED <<msgtmp, reqtmp, outbox, sent>>
    BY <1>3 DEF Vanish
  <2>2. \A c \in Clients : \A x \in Slots : Holds(x, c)' => Holds(x, c)
    BY <2>1 DEF Holds, Full, Packet, Routed
  <2> QED BY <2>1, <2>2, KeptFate DEF Kept
<1>4. ASSUME NEW n \in Mixers, Take(n) PROVE [D!Next]_Fate
  BY <1>4, TakeSingle, KeptFate DEF Take
<1>5. ASSUME NEW n \in Mixers, Forward(n) PROVE [D!Next]_Fate
  BY <1>5, ForwardSingle, KeptFate DEF Forward
<1>6. ASSUME NEW n \in Mixers, DecryptThrows(n) PROVE [D!Next]_Fate
  BY <1>6, DieSingle, KeptFate DEF DecryptThrows, Nodes
<1>7. ASSUME NEW n \in Nodes, Crash(n) PROVE [D!Next]_Fate
  BY <1>7, DieSingle, KeptFate DEF Crash
<1>8. ASSUME NEW n \in Mixers, Publish(n) \/ Restart(n) PROVE [D!Next]_Fate
  BY <1>1, <1>8 DEF Publish, Restart
<1>9. ASSUME NEW n \in Nodes, Listen(n) PROVE [D!Next]_Fate
  BY <1>1, <1>9 DEF Listen
<1>10. CASE UNCHANGED vars
  BY <1>1, <1>10 DEF vars
<1>11. ASSUME NEW c \in Clients, Send(c) PROVE [D!Next]_Fate
  BY <1>11, SendFate
<1>12. CASE Collect
  BY <1>12, CollectFate
<1> QED
  BY <1>2, <1>3, <1>4, <1>5, <1>6, <1>7, <1>8, <1>9, <1>10, <1>11, <1>12
     DEF Next, PutMessages, StartRoundAsMixer

\* The network implements Delivery but for its fairness: each message is submitted
\* once, delivered at most once, and neither under way again after it was
\* delivered nor back after it was lost.
THEOREM DeliveryCorrect == Spec => D!Init /\ [][D!Next]_Fate
<1>1. Init => D!Init
  BY DEF Init, D!Init, Fate
<1>2. Init => Waiting
  BY DEF Init, Waiting, Senders
<1> QED
  BY <1>1, <1>2, RoutedInit, RoutedStep, SingleInit, SingleStep, WaitingStep, FateStep, PTL DEF Spec
-----------------------------------------------------------------------------
(***************************************************************************)
(* What a message is lost for.  Delivery allows any loss; LossHasCause     *)
(* names the causes there are.  That a mixer ends because it cannot        *)
(* decrypt has one too: it was started again, so a process has died.       *)
(***************************************************************************)
\* No process is down or was started again before one has died.
Undying ==
    /\ crashes \in Nat
    /\ crashes = 0 => \A n \in Nodes : phase[n] # "down" /\ (n \in Mixers => inc[n] = 0)

LEMMA ThrowsLater ==
  ASSUME Routed, Undying, NEW n \in Mixers, DecryptThrows(n)
  PROVE  crashes > 0
<1>1. reqtmp[n] # <<>> /\ Last(Head(reqtmp[n]).layers).key # Key(n)
  BY DEF DecryptThrows
<1>2. Head(reqtmp[n]) \in Bound(n, inc)
  BY <1>1, HeadTailProperties DEF Routed
<1> DEFINE k == Last(Head(reqtmp[n]).layers).key
<1>3. k.ip = n /\ k.inc <= inc[n] /\ k \in KeyLines(inc)
  <2>1. Head(reqtmp[n]).layers # <<>>
    BY <1>2, HeldIsSealed
  <2>2. Last(Head(reqtmp[n]).layers) \in Layers(inc)
    BY <1>2, <2>1, NextHopIsNode DEF Bound
  <2> QED BY <1>2, <2>2, HeldIsSealed DEF Layers
<1>4. k # [ip |-> n, inc |-> inc[n]]
  BY <1>1 DEF Key
<1> HIDE DEF k
<1>5. inc[n] # 0
  <2> SUFFICES ASSUME inc[n] = 0 PROVE FALSE
    OBVIOUS
  <2>1. k.inc = 0 /\ k \in [ip : Mixers, inc : Nat]
    BY <1>3 DEF KeyLines
  <2>2. k = [ip |-> n, inc |-> 0]
    BY <1>3, <2>1
  <2> QED BY <1>4, <2>2
<1> QED BY <1>5 DEF Undying, Nodes

LEMMA UndyingStep == Routed /\ Undying /\ [Next]_vars => Undying'
<1> SUFFICES ASSUME Routed, Undying, [Next]_vars PROVE Undying'
  OBVIOUS
<1>1. ASSUME UNCHANGED <<phase, inc, crashes>> PROVE Undying'
  BY <1>1 DEF Undying
<1>2. ASSUME NEW s \in Senders, PutMessages(s) PROVE Undying'
  BY <1>1, <1>2 DEF PutMessages, Land, Vanish
<1>3. ASSUME NEW n \in Mixers, Publish(n) \/ Take(n) \/ Forward(n) PROVE Undying'
  BY <1>1, <1>3 DEF Publish, Take, Forward
<1>4. ASSUME NEW n \in Mixers, DecryptThrows(n) PROVE Undying'
  <2>1. crashes > 0 /\ crashes' = crashes
    BY <1>4, ThrowsLater DEF DecryptThrows
  <2> QED BY <2>1 DEF Undying
<1>5. ASSUME NEW n \in Mixers, Restart(n) PROVE Undying'
  <2>1. crashes' = crashes /\ phase[n] = "down"
    BY <1>5 DEF Restart
  <2>2. crashes # 0
    BY <2>1 DEF Undying, Nodes
  <2> QED BY <2>1, <2>2 DEF Undying
<1>6. ASSUME NEW n \in Nodes, Listen(n) PROVE Undying'
  BY <1>6 DEF Listen, Undying, Routed
<1>7. ASSUME NEW n \in Nodes, Crash(n) PROVE Undying'
  BY <1>7 DEF Crash, Undying
<1>8. ASSUME NEW c \in Clients, Send(c) PROVE Undying'
  BY <1>1, <1>8 DEF Send
<1>9. CASE Collect \/ UNCHANGED vars
  BY <1>1, <1>9 DEF Collect, vars
<1> QED
  BY <1>2, <1>3, <1>4, <1>5, <1>6, <1>7, <1>8, <1>9 DEF Next, StartRoundAsMixer

\* Steps that lose nothing.
Keeps(c) == (InTransit(c) => InTransit(c)' \/ Delivered(c)') /\ (Delivered(c) => Delivered(c)')

LEMMA ParcelIsNotNone == \A o \in Parcels(inc) : o # None
<1>1. Layers(inc) \subseteq [ip : Mixers, key : [ip : Mixers, inc : Nat]]
  BY DEF Layers, KeyLines
<1>2. Seq(Layers(inc)) \subseteq Seq([ip : Mixers, key : [ip : Mixers, inc : Nat]])
  BY <1>1, SeqMonotonic
<1> QED BY <1>2, NoneAssumption DEF Parcels, Packets, Nodes

LEMMA LandKeeps ==
  ASSUME Routed, NEW s \in Senders, Land(s), NEW c \in Clients
  PROVE  Keeps(c)
<1>0. PICK o : o = out[s]
  OBVIOUS
<1>1. /\ o # None /\ msgtmp' = [msgtmp EXCEPT ![o.to] = Append(@, o.packet)] /\ out' = [out EXCEPT ![s] = None]
      /\ UNCHANGED <<reqtmp, outbox>>
  BY <1>0 DEF Land
<1>2. o.to \in Nodes /\ o.packet \in Packets(inc) /\ msgtmp[o.to] \in Seq(Packets(inc))
  BY <1>0, <1>1 DEF Routed, Parcels
<1>3. ToSet(msgtmp'[o.to]) = ToSet(msgtmp[o.to]) \cup {o.packet}
  <2> DEFINE q == msgtmp[o.to]
  <2>1. /\ Append(q, o.packet) \in Seq(Packets(inc)) /\ Len(Append(q, o.packet)) = Len(q) + 1
        /\ Append(q, o.packet)[Len(q) + 1] = o.packet
        /\ \A i \in 1 .. Len(q) : Append(q, o.packet)[i] = q[i]
    BY <1>2, AppendProperties
  <2>2. /\ Len(q) \in Nat /\ DOMAIN q = 1 .. Len(q) /\ DOMAIN Append(q, o.packet) = 1 .. Len(q) + 1
    BY <1>2, <2>1, LenProperties
  <2>3. msgtmp'[o.to] = Append(q, o.packet)
    BY <1>1, <1>2 DEF Routed
  <2> HIDE DEF q
  <2>4. \A i \in 1 .. Len(q) + 1 : i = Len(q) + 1 \/ i \in 1 .. Len(q)
    BY <2>2
  <2>5. Len(q) + 1 \in 1 .. Len(q) + 1 /\ \A i \in 1 .. Len(q) : i \in 1 .. Len(q) + 1
    BY <2>2
  <2>6. ToSet(Append(q, o.packet)) = ToSet(q) \cup {o.packet}
    BY <2>1, <2>2, <2>4, <2>5 DEF ToSet
  <2> QED BY <2>3, <2>6 DEF q
<1>4. \A n \in Nodes \ {o.to} : msgtmp'[n] = msgtmp[n]
  BY <1>1, <1>2 DEF Routed
<1>5. \A n \in Nodes : HeldBy(n) \subseteq HeldBy(n)'
  BY <1>1, <1>3, <1>4 DEF HeldBy
<1>6. o.packet \in HeldBy(o.to)'
  BY <1>3 DEF HeldBy
<1>7. \A t \in Senders \ {s} : out'[t] = out[t]
  BY <1>1 DEF Routed
<1>8. Calls(c) # {} => Calls(c)' # {} \/ o.packet.msg = c
  BY <1>0, <1>7 DEF Calls
<1> QED BY <1>1, <1>2, <1>5, <1>6, <1>8 DEF Keeps, InTransit, Delivered

LEMMA TakeKeeps ==
  ASSUME Routed, NEW n \in Mixers, Take(n), NEW c \in Clients
  PROVE  Keeps(c)
<1>1. PICK s \in Shuffles(msgtmp[n]) : reqtmp' = [reqtmp EXCEPT ![n] = s]
  BY DEF Take
<1>2. msgtmp' = [msgtmp EXCEPT ![n] = <<>>] /\ reqtmp[n] = <<>> /\ UNCHANGED <<out, outbox>>
  BY DEF Take, Cleared
<1>3. n \in Nodes /\ DOMAIN <<>> = {}
  BY DEF Nodes
<1>4. ToSet(msgtmp[n]) \subseteq ToSet(s)
  <2>1. PICK f \in Bijection(DOMAIN msgtmp[n], DOMAIN msgtmp[n]) : s = [j \in DOMAIN msgtmp[n] |-> msgtmp[n][f[j]]]
    BY DEF Shuffles
  <2>2. \A j \in DOMAIN msgtmp[n] : \E i \in DOMAIN msgtmp[n] : f[i] = j
    BY DEF Bijection, Surjection
  <2>3. DOMAIN s = DOMAIN msgtmp[n] /\ \A i \in DOMAIN msgtmp[n] : s[i] = msgtmp[n][f[i]]
    BY <2>1
  <2>4. ASSUME NEW j \in DOMAIN msgtmp[n] PROVE \E i \in DOMAIN s : s[i] = msgtmp[n][j]
    <3>1. PICK i \in DOMAIN msgtmp[n] : f[i] = j
      BY <2>2
    <3>2. i \in DOMAIN s /\ s[i] = msgtmp[n][j]
      BY <2>3, <3>1
    <3> QED BY <3>2
  <2> QED BY <2>4 DEF ToSet
<1>5. reqtmp'[n] = s /\ \A m \in Mixers \ {n} : reqtmp'[m] = reqtmp[m]
  BY <1>1 DEF Routed
<1>6. \A m \in Nodes \ {n} : msgtmp'[m] = msgtmp[m]
  BY <1>2 DEF Routed
<1>7. \A m \in Nodes \ {n} : HeldBy(m)' = HeldBy(m)
  BY <1>5, <1>6 DEF HeldBy
<1>8. HeldBy(n) \subseteq HeldBy(n)'
  <2>1. ToSet(reqtmp[n]) = {}
    BY <1>2, <1>3 DEF ToSet
  <2> QED BY <1>4, <1>5, <2>1 DEF HeldBy
<1>9. Calls(c)' = Calls(c)
  BY <1>2 DEF Calls
<1> QED BY <1>2, <1>7, <1>8, <1>9 DEF Keeps, InTransit, Delivered

LEMMA ForwardKeeps ==
  ASSUME Routed, NEW n \in Mixers, Forward(n), NEW c \in Clients
  PROVE  Keeps(c)
<1>1. PICK p, t : p = Head(reqtmp[n]) /\ t = Tail(reqtmp[n])
  OBVIOUS
<1>2. /\ out[n] = None /\ reqtmp[n] # <<>> /\ out' = [out EXCEPT ![n] = Put(Peel(p))]
      /\ reqtmp' = [reqtmp EXCEPT ![n] = t] /\ UNCHANGED <<msgtmp, outbox>>
  BY <1>1 DEF Forward
<1>3. p \in Bound(n, inc) /\ ToSet(reqtmp[n]) = {p} \cup ToSet(t)
  <2> DEFINE q == reqtmp[n]
  <2>1. q \in Seq(Bound(n, inc)) /\ q # <<>>
    BY <1>2 DEF Routed
  <2>2. /\ p \in Bound(n, inc) /\ t \in Seq(Bound(n, inc)) /\ Len(t) = Len(q) - 1 /\ p = q[1]
        /\ \A i \in 1 .. Len(t) : t[i] = q[i + 1]
    <3> HIDE DEF q
    <3>1. p = Head(q) /\ t = Tail(q)
      BY <1>1 DEF q
    <3> QED BY <2>1, <3>1, HeadTailProperties
  <2> HIDE DEF q
  <2>3. /\ Len(q) \in Nat /\ Len(q) # 0 /\ DOMAIN q = 1 .. Len(q) /\ DOMAIN t = 1 .. Len(t)
    BY <2>1, <2>2, LenProperties, EmptySeq
  <2>4. \A i \in DOMAIN q : i = 1 \/ (i - 1 \in DOMAIN t /\ q[i] = t[i - 1])
    BY <2>2, <2>3
  <2>5. 1 \in DOMAIN q /\ \A i \in DOMAIN t : i + 1 \in DOMAIN q /\ q[i + 1] = t[i]
    BY <2>2, <2>3
  <2>6. ToSet(q) = {p} \cup ToSet(t)
    <3>1. ToSet(q) \subseteq {p} \cup ToSet(t)
      BY <2>2, <2>4 DEF ToSet
    <3>2. p \in ToSet(q) /\ ToSet(t) \subseteq ToSet(q)
      BY <2>2, <2>5 DEF ToSet
    <3> QED BY <3>1, <3>2
  <2> QED BY <2>2, <2>6 DEF q
<1>4. p.layers # <<>> /\ p \in Packets(inc)
  BY <1>3, HeldIsSealed DEF Bound
<1>5. Put(Peel(p)) \in Parcels(inc) /\ Put(Peel(p)).packet.msg = p.msg
  <2>1. Peel(p) \in Packets(inc)
    BY <1>4, PeelIsPacket
  <2>2. Put(Peel(p)) \in Parcels(inc)
    BY <2>1, NextHopIsNode
  <2>3. Peel(p).msg = p.msg
    BY <1>4 DEF Peel, Packets
  <2> QED BY <2>2, <2>3 DEF Put
<1>6. Put(Peel(p)) # None
  BY <1>5, ParcelIsNotNone
<1>7. n \in Senders /\ n \in Nodes /\ out'[n] = Put(Peel(p)) /\ \A s \in Senders \ {n} : out'[s] = out[s]
  BY <1>2 DEF Routed, Senders, Nodes
<1>8. p.msg = c => n \in Calls(c)'
  BY <1>5, <1>6, <1>7 DEF Calls
<1>9. Calls(c) \subseteq Calls(c)'
  BY <1>2, <1>7 DEF Calls
<1>10. reqtmp'[n] = t /\ \A m \in Mixers \ {n} : reqtmp'[m] = reqtmp[m]
  BY <1>2 DEF Routed
<1>11. \A m \in Nodes \ {n} : HeldBy(m)' = HeldBy(m)
  BY <1>2, <1>10 DEF HeldBy
<1>12. \A x \in HeldBy(n) : x = p \/ x \in HeldBy(n)'
  BY <1>2, <1>3, <1>10 DEF HeldBy
<1> QED BY <1>2, <1>7, <1>8, <1>9, <1>11, <1>12 DEF Keeps, InTransit, Delivered

LEMMA VanishKeeps ==
  ASSUME Routed, NEW s \in Senders, Vanish(s), NEW c \in Clients
  PROVE  Keeps(c) \/ Cause(c)
<1>1. /\ out[s] # None /\ out' = [out EXCEPT ![s] = None] /\ UNCHANGED <<msgtmp, reqtmp, outbox>>
      /\ phase[out[s].to] # "serving" \/ Overlapped(s)
  BY DEF Vanish
<1>2. out'[s] = None /\ \A t \in Senders \ {s} : out'[t] = out[t]
  BY <1>1 DEF Routed
<1>3. CASE out[s].packet.msg = c
  BY <1>1, <1>2, <1>3 DEF Cause, Calls
<1>4. CASE out[s].packet.msg # c
  <2>1. Calls(c)' = Calls(c)
    BY <1>1, <1>2, <1>4 DEF Calls
  <2> QED BY <1>1, <2>1 DEF Keeps, InTransit, Delivered, HeldBy
<1> QED BY <1>3, <1>4

LEMMA DieKeeps ==
  ASSUME Routed, NEW n \in Nodes, phase[n] # "down", Die(n), crashes' > 0, NEW c \in Clients
  PROVE  Keeps(c) \/ Cause(c)
<1>1. /\ phase'[n] = "down"
      /\ n # Mailbox => outbox' = outbox
      /\ \A m \in Nodes \ {n} : HeldBy(m)' = HeldBy(m)
      /\ \A s \in Senders : s = n \/ out'[s] = out[s]
      /\ n \notin Mixers => out' = out
  BY DEF Die, Routed, HeldBy
<1>2. ASSUME ~Cause(c) PROVE Keeps(c)
  <2>1. /\ ~(n = Mailbox /\ Delivered(c))
        /\ ~(n \in Mixers /\ n \in Calls(c))
        /\ ~\E p \in HeldBy(n) : p.msg = c
    BY <1>1, <1>2, Zenon DEF Cause
  <2>2. \A s \in Calls(c) : s \in Senders /\ out'[s] = out[s]
    BY <1>1, <2>1 DEF Calls
  <2>3. Calls(c) \subseteq Calls(c)'
    BY <1>1, <2>2 DEF Calls
  <2> QED BY <1>1, <2>1, <2>3 DEF Keeps, InTransit, Delivered
<1> QED BY <1>2

LEMMA SendKeeps ==
  ASSUME Routed, Waiting, NEW d \in Clients, Send(d), NEW c \in Clients
  PROVE  Keeps(c)
<1>1. out[d] = None /\ UNCHANGED <<msgtmp, reqtmp, outbox>> /\ \A s \in Senders \ {d} : out'[s] = out[s]
  BY DEF Send, Waiting, Routed
<1>2. Calls(c) \subseteq Calls(c)'
  BY <1>1 DEF Calls
<1> QED BY <1>1, <1>2 DEF Keeps, InTransit, Delivered, HeldBy

LEMMA NothingElseLoses ==
  ASSUME Routed, Single, Waiting, Undying, [Next]_vars, NEW c \in Clients
  PROVE  (Keeps(c) \/ Cause(c)) /\ sent \subseteq sent'
<1>1. ASSUME UNCHANGED <<msgtmp, reqtmp, out, outbox>> PROVE Keeps(c)
  BY <1>1 DEF Keeps, InTransit, Delivered, Calls, HeldBy
<1>2. ASSUME NEW s \in Senders, PutMessages(s) PROVE (Keeps(c) \/ Cause(c)) /\ sent' = sent
  <2>1. sent' = sent
    BY <1>2 DEF PutMessages, Land, Vanish
  <2> QED BY <1>2, <2>1, LandKeeps, VanishKeeps DEF PutMessages
<1>3. ASSUME NEW n \in Mixers, Take(n) \/ Forward(n) PROVE Keeps(c) /\ sent' = sent
  <2>1. sent' = sent
    BY <1>3 DEF Take, Forward
  <2> QED BY <1>3, <2>1, TakeKeeps, ForwardKeeps
<1>4. ASSUME NEW n \in Mixers, DecryptThrows(n) PROVE (Keeps(c) \/ Cause(c)) /\ sent' = sent
  <2>1. sent' = sent /\ crashes' = crashes /\ phase[n] = "serving" /\ Die(n) /\ n \in Nodes
    BY <1>4 DEF DecryptThrows, Nodes
  <2>2. crashes' > 0
    BY <1>4, <2>1, ThrowsLater
  <2> QED BY <2>1, <2>2, DieKeeps
<1>5. ASSUME NEW n \in Nodes, Crash(n) PROVE (Keeps(c) \/ Cause(c)) /\ sent' = sent
  <2>1. sent' = sent /\ crashes' = crashes + 1 /\ phase[n] # "down" /\ Die(n)
    BY <1>5 DEF Crash
  <2>2. crashes' > 0
    BY <2>1 DEF Undying
  <2> QED BY <2>1, <2>2, DieKeeps
<1>6. ASSUME NEW n \in Mixers, Publish(n) \/ Restart(n) PROVE Keeps(c) /\ sent' = sent
  BY <1>1, <1>6 DEF Publish, Restart
<1>7. ASSUME NEW n \in Nodes, Listen(n) PROVE Keeps(c) /\ sent' = sent
  BY <1>1, <1>7 DEF Listen
<1>8. ASSUME NEW d \in Clients, Send(d) PROVE Keeps(c) /\ sent \subseteq sent'
  <2>1. sent \subseteq sent'
    BY <1>8 DEF Send
  <2> QED BY <1>8, <2>1, SendKeeps
<1>9. CASE Collect
  <2>1. sent' = sent
    BY <1>9 DEF Collect
  <2> QED BY <1>9, <2>1, CollectMoves DEF Keeps
<1>10. CASE UNCHANGED vars
  BY <1>1, <1>10 DEF vars
<1> QED
  BY <1>2, <1>3, <1>4, <1>5, <1>6, <1>7, <1>8, <1>9, <1>10 DEF Next, StartRoundAsMixer

\* For any mixers, clients, crashes and restarts: what was accepted is lost only
\* with a process that holds it and dies, after one was killed, or in a call to a
\* node that does not listen or that is at another call or its drain; no copy, shuffle or clear, and no
\* decryption before a process has died, loses any.
THEOREM LossCorrect == Spec => LossHasCause
<1>1. Init => Undying /\ Waiting
  BY DEF Init, Undying, Nodes, Waiting, Senders
<1>2. Routed /\ Single /\ Waiting /\ Undying /\ [Next]_vars =>
        [\A c \in Clients : Fate[c] \in {"transit", "delivered"} /\ Fate'[c] = "lost" => Cause(c)]_vars
  <2> SUFFICES ASSUME Routed, Single, Waiting, Undying, [Next]_vars, NEW c \in Clients,
                      Fate[c] \in {"transit", "delivered"}, Fate'[c] = "lost"
               PROVE  Cause(c)
    OBVIOUS
  <2>1. c \in sent /\ (InTransit(c) \/ Delivered(c))
    BY DEF Fate
  <2>2. ~InTransit(c)' /\ ~Delivered(c)'
    BY DEF Fate
  <2> QED BY <2>1, <2>2, NothingElseLoses DEF Keeps
<1> QED
  BY <1>1, <1>2, RoutedInit, RoutedStep, SingleInit, SingleStep, WaitingStep, UndyingStep, PTL DEF Spec, LossHasCause
=============================================================================
