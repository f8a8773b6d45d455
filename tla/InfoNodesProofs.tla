--------------------------- MODULE InfoNodesProofs ---------------------------
(***************************************************************************)
(* For any number of info nodes, clients, key lines and restarts, whatever *)
(* is lost in the DHT, in a call that breaks or between a copy and its     *)
(* clear: no info node serves a key line twice, and none is put into the   *)
(* DHT twice.                                                              *)
(***************************************************************************)
EXTENDS InfoNodes, SequenceTheorems, FiniteSetTheorems, TLAPS

LEMMA Lists == /\ Config \in Seq(ToSet(Config)) /\ Config # <<>> /\ None \notin Infos
               /\ Ipspub \in Seq(Lines) /\ IsInjective(Ipspub)
BY ConfigAssumption, IpspubAssumption DEF Lines

\* A draw is one of the addresses or none.
LEMMA ChosenType == \A r \in Rand : Chosen(r) \in ToSet(Config) \cup {None}
<1> SUFFICES ASSUME NEW r \in Rand, Chosen(r) # None PROVE Chosen(r) \in ToSet(Config)
  OBVIOUS
<1>1. Len(Config) \in Nat /\ Len(Config) > 0
  BY Lists, EmptySeq
<1>2. r \in 0 .. Len(Config) - 1
  BY DEF Rand
<1>3. Num(r) + 1 \in 0 .. Len(Config) - 1 /\ (Num(r) >= 0 => Num(r) + 1 \in 1 .. Len(Config))
  BY <1>1, <1>2 DEF Num
<1>4. Num(r) >= 0 /\ Chosen(r) = Config[Num(r) + 1]
  BY DEF Chosen
<1> QED BY <1>3, <1>4, Lists, ElementOfSeq
-----------------------------------------------------------------------------
LEMMA ConcatAppend ==
  ASSUME NEW S, NEW s \in Seq(S), NEW t \in Seq(S), NEW x \in S
  PROVE  s \o Append(t, x) = Append(s \o t, x)
<1> DEFINE a == Len(s)
           b == Len(t)
           l == s \o Append(t, x)
           r == Append(s \o t, x)
<1>1. a \in Nat /\ b \in Nat
  BY LenProperties
<1>2. /\ Append(t, x) \in Seq(S) /\ Len(Append(t, x)) = b + 1
      /\ \A i \in 1 .. b : Append(t, x)[i] = t[i]
      /\ Append(t, x)[b + 1] = x
  BY AppendProperties
<1>3. /\ s \o t \in Seq(S) /\ Len(s \o t) = a + b
      /\ \A i \in 1 .. a + b : (s \o t)[i] = IF i <= a THEN s[i] ELSE t[i - a]
  BY ConcatProperties
<1>4. /\ l \in Seq(S) /\ Len(l) = a + (b + 1)
      /\ \A i \in 1 .. a + (b + 1) : l[i] = IF i <= a THEN s[i] ELSE Append(t, x)[i - a]
  BY <1>2, ConcatProperties
<1>5. /\ r \in Seq(S) /\ Len(r) = (a + b) + 1
      /\ \A i \in 1 .. a + b : r[i] = (s \o t)[i]
      /\ r[a + b + 1] = x
  BY <1>3, AppendProperties
<1> HIDE DEF a, b, l, r
<1>6. Len(l) = a + b + 1 /\ Len(r) = a + b + 1
  BY <1>1, <1>4, <1>5
<1>7. ASSUME NEW i \in 1 .. a + b + 1 PROVE l[i] = r[i]
  <2>1. CASE i <= a
    <3>1. i \in 1 .. a + b /\ i \in 1 .. a + (b + 1)
      BY <1>1, <2>1
    <3> QED BY <1>3, <1>4, <1>5, <2>1, <3>1
  <2>2. CASE i > a /\ i <= a + b
    <3>1. i - a \in 1 .. b /\ i \in 1 .. a + b /\ i \in 1 .. a + (b + 1) /\ ~(i <= a)
      BY <1>1, <2>2
    <3> QED BY <1>2, <1>3, <1>4, <1>5, <3>1
  <2>3. CASE i = a + b + 1
    <3>1. i - a = b + 1 /\ i \in 1 .. a + (b + 1) /\ ~(i <= a)
      BY <1>1, <2>3
    <3> QED BY <1>2, <1>4, <1>5, <2>3, <3>1
  <2> QED BY <1>1, <2>1, <2>2, <2>3
<1>8. l = r
  BY <1>4, <1>5, <1>6, <1>7, SeqEqual
<1> QED BY <1>8 DEF l, r

LEMMA InjectiveEmpty == IsInjective(<<>>)
<1>1. DOMAIN <<>> = {}
  OBVIOUS
<1> QED BY <1>1 DEF IsInjective

\* A sequence and the beginning of another, in both of them one after the other.
LEMMA ConcatPrefix ==
  ASSUME NEW S, NEW s \in Seq(S), NEW t \in Seq(S), NEW k \in 1 .. Len(t)
  PROVE  /\ SubSeq(t, 1, k) \in Seq(S) /\ SubSeq(t, 1, k) # <<>>
         /\ s \o SubSeq(t, 1, k) \in Seq(S) /\ s \o SubSeq(t, 1, k) # <<>>
         /\ \A i \in DOMAIN (s \o SubSeq(t, 1, k)) :
              i \in DOMAIN (s \o t) /\ (s \o SubSeq(t, 1, k))[i] = (s \o t)[i]
<1> DEFINE a == Len(s)
           b == Len(t)
           u == SubSeq(t, 1, k)
<1>1. a \in Nat /\ b \in Nat /\ k \in 1 .. b
  BY LenProperties
<1>2. u \in Seq(S) /\ Len(u) = k /\ \A i \in 1 .. k : u[i] = t[i]
  <2>1. \A i \in 1 .. k : i \in 1 .. Len(t)
    BY <1>1
  <2>2. \A i \in 1 .. k : t[i] \in S
    BY <2>1, ElementOfSeq
  <2> QED BY <1>1, <2>2, SubSeqProperties
<1>3. /\ s \o t \in Seq(S) /\ Len(s \o t) = a + b
      /\ \A i \in 1 .. a + b : (s \o t)[i] = IF i <= a THEN s[i] ELSE t[i - a]
  BY ConcatProperties
<1>4. /\ s \o u \in Seq(S) /\ Len(s \o u) = a + k
      /\ \A i \in 1 .. a + k : (s \o u)[i] = IF i <= a THEN s[i] ELSE u[i - a]
  BY <1>2, ConcatProperties
<1>5. DOMAIN (s \o u) = 1 .. a + k /\ DOMAIN (s \o t) = 1 .. a + b
  BY <1>3, <1>4, LenProperties
<1>6. u # <<>> /\ s \o u # <<>>
  <2>1. Len(u) # 0 /\ Len(s \o u) # 0
    BY <1>1, <1>2, <1>4
  <2> QED BY <2>1, EmptySeq
<1> HIDE DEF a, b, u
<1>7. ASSUME NEW i \in 1 .. a + k PROVE i \in 1 .. a + b /\ (s \o u)[i] = (s \o t)[i]
  <2>1. i \in 1 .. a + b /\ (i > a => i - a \in 1 .. k)
    BY <1>1
  <2> QED BY <1>1, <1>2, <1>3, <1>4, <2>1
<1>8. \A i \in DOMAIN (s \o u) : i \in DOMAIN (s \o t) /\ (s \o u)[i] = (s \o t)[i]
  BY <1>5, <1>7
<1> QED BY <1>2, <1>4, <1>6, <1>8 DEF u

\* Another element at the end.
LEMMA InjectiveAppend ==
  ASSUME NEW S, NEW s \in Seq(S), NEW x \in S, IsInjective(s), \A i \in DOMAIN s : s[i] # x
  PROVE  IsInjective(Append(s, x))
<1>1. /\ Append(s, x) \in Seq(S) /\ Len(Append(s, x)) = Len(s) + 1
      /\ \A i \in 1 .. Len(s) : Append(s, x)[i] = s[i]
      /\ Append(s, x)[Len(s) + 1] = x
  BY AppendProperties
<1>2. Len(s) \in Nat /\ DOMAIN s = 1 .. Len(s) /\ DOMAIN Append(s, x) = 1 .. Len(s) + 1
  BY <1>1, LenProperties
<1>3. \A i \in 1 .. Len(s) + 1 : i \in 1 .. Len(s) \/ i = Len(s) + 1
  BY <1>2
<1> QED BY <1>1, <1>2, <1>3 DEF IsInjective
-----------------------------------------------------------------------------
(***************************************************************************)
(* The inductive invariant behind OncePerKey: which positions of the       *)
(* stream or of the DHT a node's lines come from.                          *)
(***************************************************************************)
Prefix(k) == SubSeq(Ipspub, 1, k)

\* Before the stream is made nobody has any line.
Begun ==
    stream = "none" =>
      /\ target = None /\ written = 0 /\ dht = <<>>
      /\ \A n \in Infos : /\ outbox[n] = <<>> /\ msgtmp[n] = <<>> /\ pc[n] # "clear"
                          /\ ~havedata[n] /\ ~pushed[n] /\ next[n] = 1

\* A stream that goes on goes to a node that runs.
Reaches == stream = "on" => target \in listening

Sent(n) == outbox[n] \o msgtmp[n]

\* A copy is the beginning of msgtmp.
Copied(n) == \E k \in 1 .. Len(msgtmp[n]) : msgtmp2[n] = SubSeq(msgtmp[n], 1, k)

\* The node the stream goes to, from the stream's beginning to its own first
\* restart: it has lines that were written, unless a line was destroyed all of them;
\* it found nothing in the DHT, and the values there are among the lines it serves
\* before the next to put.
Streamed(n) ==
    /\ n = target
    /\ IsInjective(Sent(n)) /\ \A i \in DOMAIN Sent(n) : \E k \in 1 .. written : Sent(n)[i] = Ipspub[k]
    /\ ~raced => Sent(n) = Prefix(written)
    /\ pc[n] = "clear" => Copied(n) /\ (~raced => msgtmp2[n] = msgtmp[n])
    /\ outbox[n] # <<>> <=> havedata[n]
    /\ ~havedata[n] => ~pushed[n]
    /\ pc[n] = "get" => ~havedata[n]
    /\ pc[n] = "put" => havedata[n] /\ \A j \in DOMAIN dht : \E k \in 1 .. next[n] - 1 : dht[j] = outbox[n][k]
    /\ ~pushed[n] => dht = <<>> /\ next[n] = 1

\* Any other node, or one that was started again: it serves values of the DHT,
\* each from a position its get has called back with.
Gathered(n) ==
    /\ n = target => stream = "over" /\ restarts > 0
    /\ msgtmp[n] = <<>> /\ pc[n] \in {"loop", "get"}
    /\ havedata[n] => pushed[n]
    /\ outbox[n] # <<>> => havedata[n]
    /\ ~pushed[n] => next[n] = 1
    /\ pc[n] = "get" => \A i \in DOMAIN outbox[n] : \E j \in seen[n] : outbox[n][i] = dht[j]
    /\ IsInjective(outbox[n])

Origin ==
    /\ Begun /\ Reaches
    /\ \A n \in Infos : pc[n] # "get" => seen[n] = {}
    /\ \A n \in Infos : Streamed(n) \/ Gathered(n)
    /\ IsInjective(dht)
    /\ \A c \in Clients : IsInjective(got[c])

LEMMA PrefixType ==
  ASSUME NEW k \in 0 .. Len(Ipspub)
  PROVE  /\ Prefix(k) \in Seq(Lines) /\ Len(Prefix(k)) = k
         /\ \A i \in 1 .. k : Prefix(k)[i] = Ipspub[i]
<1>1. Ipspub \in Seq(Lines) /\ Len(Ipspub) \in Nat
  BY Lists
<1>2. \A i \in 1 .. k : i \in 1 .. Len(Ipspub)
  BY <1>1
<1>3. \A i \in 1 .. k : Ipspub[i] \in Lines
  BY <1>1, <1>2, ElementOfSeq
<1>4. k \in Nat
  BY <1>1
<1> QED BY <1>1, <1>3, <1>4, SubSeqProperties DEF Prefix

LEMMA PrefixNext ==
  ASSUME NEW k \in 0 .. Len(Ipspub), k < Len(Ipspub)
  PROVE  /\ Append(Prefix(k), Ipspub[k + 1]) = Prefix(k + 1)
         /\ Ipspub[k + 1] \in Lines /\ \A i \in 1 .. k : Ipspub[i] # Ipspub[k + 1]
<1>1. Len(Ipspub) \in Nat /\ DOMAIN Ipspub = 1 .. Len(Ipspub)
  BY Lists, LenProperties
<1>2. k \in Nat /\ k + 1 \in 1 .. Len(Ipspub) /\ k + 1 \in 0 .. Len(Ipspub)
  BY <1>1
<1>3. Ipspub[k + 1] \in Lines
  BY <1>2, Lists, ElementOfSeq
<1>4. /\ Prefix(k) \in Seq(Lines) /\ Len(Prefix(k)) = k
      /\ \A i \in 1 .. k : Prefix(k)[i] = Ipspub[i]
  BY PrefixType
<1>5. /\ Prefix(k + 1) \in Seq(Lines) /\ Len(Prefix(k + 1)) = k + 1
      /\ \A i \in 1 .. k + 1 : Prefix(k + 1)[i] = Ipspub[i]
  BY <1>2, PrefixType
<1> DEFINE x == Ipspub[k + 1]
<1>6. /\ Append(Prefix(k), x) \in Seq(Lines) /\ Len(Append(Prefix(k), x)) = k + 1
      /\ \A i \in 1 .. k : Append(Prefix(k), x)[i] = Prefix(k)[i]
      /\ Append(Prefix(k), x)[k + 1] = x
  BY <1>3, <1>4, AppendProperties
<1>7. \A i \in 1 .. k + 1 : i \in 1 .. k \/ i = k + 1
  BY <1>2
<1>8. \A i \in 1 .. k + 1 : Append(Prefix(k), x)[i] = Prefix(k + 1)[i]
  BY <1>4, <1>5, <1>6, <1>7
<1>9. \A i \in 1 .. k : i \in DOMAIN Ipspub /\ k + 1 \in DOMAIN Ipspub /\ i # k + 1
  BY <1>1, <1>2
<1> QED BY <1>3, <1>5, <1>6, <1>8, <1>9, SeqEqual, Lists DEF IsInjective

\* What it serves is the beginning of what was sent to it.
LEMMA Served ==
  ASSUME TypeOK, NEW n \in Infos, Streamed(n)
  PROVE  IsInjective(outbox[n])
<1>1. outbox[n] \in Seq(Lines) /\ msgtmp[n] \in Seq(Lines)
  BY DEF TypeOK
<1> DEFINE a == Len(outbox[n])
           b == Len(msgtmp[n])
<1>2. /\ a \in Nat /\ b \in Nat /\ DOMAIN outbox[n] = 1 .. a
      /\ Sent(n) \in Seq(Lines) /\ Len(Sent(n)) = a + b
      /\ \A i \in 1 .. a + b : Sent(n)[i] = IF i <= a THEN outbox[n][i] ELSE msgtmp[n][i - a]
  BY <1>1, LenProperties, ConcatProperties DEF Sent
<1>3. DOMAIN Sent(n) = 1 .. a + b
  BY <1>2, LenProperties
<1> HIDE DEF a, b
<1>4. \A i \in 1 .. a : i \in 1 .. a + b /\ Sent(n)[i] = outbox[n][i]
  BY <1>2
<1>5. IsInjective(Sent(n))
  BY DEF Streamed
<1> QED BY <1>2, <1>3, <1>4, <1>5 DEF IsInjective

LEMMA OutboxInjective ==
  ASSUME TypeOK, NEW n \in Infos, Streamed(n) \/ Gathered(n)
  PROVE  IsInjective(outbox[n])
BY Served DEF Gathered
-----------------------------------------------------------------------------
IInv == TypeOK /\ Origin

LEMMA InvInit == Init => IInv
<1> SUFFICES ASSUME Init PROVE IInv
  OBVIOUS
<1>1. Len(Ipspub) \in Nat /\ Len(<<>>) = 0 /\ DOMAIN <<>> = {} /\ <<>> \in Seq(Lines)
  BY Lists, EmptySeq
<1>2. TypeOK
  <2>1. /\ written \in 0 .. Len(Ipspub) /\ Len(dht) = 0 /\ dht \in Seq(Lines) /\ DOMAIN dht = {}
        /\ got \in [Clients -> Seq(Lines)] /\ restarts \in 0 .. MaxRestarts
    BY <1>1, BoundAssumption DEF Init
  <2>2. asked \in [Infos -> 0 .. Len(dht)] /\ seen \in [Infos -> SUBSET DOMAIN dht]
    BY <2>1 DEF Init
  <2>3. /\ msgtmp \in [Infos -> Seq(Lines)] /\ msgtmp2 \in [Infos -> Seq(Lines)]
        /\ outbox \in [Infos -> Seq(Lines)]
    BY <1>1 DEF Init
  <2>4. /\ havedata \in [Infos -> BOOLEAN] /\ pushed \in [Infos -> BOOLEAN]
        /\ pc \in [Infos -> {"loop", "clear", "put", "get"}] /\ next \in [Infos -> Nat \ {0}]
        /\ \A n \in Infos : pc[n] = "put" => next[n] \in DOMAIN outbox[n]
    BY DEF Init
  <2>5. /\ stream \in {"none", "on", "over"} /\ target \in ToSet(Config) \cup {None}
        /\ listening \subseteq Infos /\ failed \in BOOLEAN /\ raced \in BOOLEAN
        /\ gone \subseteq Clients /\ lost \in BOOLEAN
    BY DEF Init
  <2> QED BY <2>1, <2>2, <2>3, <2>4, <2>5, Zenon DEF TypeOK
<1>3. Begun /\ Reaches /\ \A n \in Infos : seen[n] = {}
  BY DEF Init, Begun, Reaches
<1>4. \A n \in Infos : Gathered(n)
  BY <1>1, InjectiveEmpty, Lists DEF Init, Gathered
<1>5. IsInjective(dht) /\ \A c \in Clients : IsInjective(got[c])
  BY InjectiveEmpty DEF Init
<1> QED BY <1>2, <1>3, <1>4, <1>5 DEF IInv, Origin

\* A node that does nothing keeps where its lines come from, as the DHT's values
\* stay where they are.
LEMMA GatheredKept ==
  ASSUME TypeOK, NEW k \in Infos, Gathered(k), k = target' => stream' = "over" /\ restarts' > 0,
         outbox'[k] = outbox[k], msgtmp'[k] = msgtmp[k], havedata'[k] = havedata[k],
         pushed'[k] = pushed[k], pc'[k] = pc[k], next'[k] = next[k], seen'[k] = seen[k],
         \A j \in DOMAIN dht : dht'[j] = dht[j]
  PROVE  Gathered(k)'
<1>1. seen[k] \subseteq DOMAIN dht
  BY DEF TypeOK
<1> QED BY <1>1 DEF Gathered

LEMMA NodeKept ==
  ASSUME TypeOK, NEW k \in Infos, Streamed(k) \/ Gathered(k),
         UNCHANGED <<target, written, raced, dht>>,
         stream' \in {stream, "over"}, restarts' \in {restarts, restarts + 1},
         outbox'[k] = outbox[k], msgtmp'[k] = msgtmp[k], msgtmp2'[k] = msgtmp2[k],
         havedata'[k] = havedata[k], pushed'[k] = pushed[k], pc'[k] = pc[k], next'[k] = next[k],
         seen'[k] = seen[k]
  PROVE  (Streamed(k) \/ Gathered(k))'
<1>1. CASE Streamed(k)
  <2>1. Sent(k)' = Sent(k) /\ Prefix(written)' = Prefix(written) /\ (Copied(k) => Copied(k)')
    BY DEF Sent, Prefix, Copied
  <2>2. Streamed(k)'
    BY <1>1, <2>1 DEF Streamed
  <2> QED BY <2>2
<1>2. CASE Gathered(k)
  <2>1. k = target' => stream' = "over" /\ restarts' > 0
    BY <1>2 DEF Gathered, TypeOK
  <2>2. Gathered(k)'
    BY <1>2, <2>1, GatheredKept
  <2> QED BY <2>2
<1> QED BY <1>1, <1>2
-----------------------------------------------------------------------------
LEMMA ChooseInfoStep ==
  ASSUME IInv, ChooseInfo
  PROVE  IInv'
<1> USE DEF IInv
<1>1. /\ stream = "none" /\ target' \in ToSet(Config) \cup {None} /\ stream' \in {"over", "on"}
      /\ stream' = "on" => target' \in listening
      /\ failed' \in BOOLEAN
      /\ UNCHANGED <<written, raced, listening, msgtmp, msgtmp2, outbox, loopvars, dht, clientvars, restarts, lost>>
  BY ChosenType DEF ChooseInfo
<1>2. TypeOK'
  BY <1>1 DEF loopvars, clientvars, TypeOK
<1>3. /\ target = None /\ written = 0 /\ dht = <<>>
      /\ \A n \in Infos : /\ outbox[n] = <<>> /\ msgtmp[n] = <<>> /\ pc[n] # "clear"
                          /\ ~havedata[n] /\ ~pushed[n] /\ next[n] = 1
  BY <1>1 DEF Origin, Begun
<1>4. \A n \in Infos : Gathered(n) /\ n # target
  BY <1>3, Lists DEF Origin, Streamed
<1>5. ASSUME NEW n \in Infos PROVE (Streamed(n) \/ Gathered(n))'
  <2>1. CASE n = target'
    <3>1. pc[n] # "put"
      BY <1>4 DEF Gathered
    <3>2. /\ <<>> \o <<>> = <<>> /\ Prefix(0) = <<>> /\ DOMAIN <<>> = {}
      BY PrefixType, Lists, EmptySeq
    <3>3. Streamed(n)'
      BY <1>1, <1>3, <2>1, <3>1, <3>2, InjectiveEmpty DEF loopvars, Streamed, Sent
    <3> QED BY <3>3
  <2>2. CASE n # target'
    <3>1. Gathered(n)'
      BY <1>1, <1>4, <2>2, GatheredKept DEF loopvars
    <3> QED BY <3>1
  <2> QED BY <2>1, <2>2
<1>6. Begun' /\ Reaches'
  BY <1>1 DEF Begun, Reaches
<1>7. UNCHANGED <<pc, seen, dht, got>>
  BY <1>1 DEF loopvars, clientvars
<1>8. Origin'
  BY <1>5, <1>6, <1>7 DEF Origin
<1> QED BY <1>2, <1>8

LEMMA WriteStep ==
  ASSUME IInv, Write
  PROVE  IInv'
<1> USE DEF IInv
<1>1. /\ stream = "on" /\ UNCHANGED <<target, failed, listening, msgtmp2, outbox, dht, restarts, lost>>
      /\ UNCHANGED <<havedata, pushed, pc, next, asked, seen, got, gone>>
  BY DEF Write, loopvars, clientvars
<1>2. stream' \in {"on", "over"}
  BY <1>1 DEF Write
<1>3. Begun' /\ Reaches' /\ target \in Infos
  BY <1>1, <1>2 DEF Begun, Reaches, Origin, TypeOK
<1>4. Len(Ipspub) \in Nat /\ written \in 0 .. Len(Ipspub) /\ msgtmp \in [Infos -> Seq(Lines)]
  BY Lists DEF TypeOK
<1>5. CASE written < Len(Ipspub)
  <2>1. /\ written' = written + 1 /\ stream' = stream
        /\ msgtmp' = [msgtmp EXCEPT ![target] = Append(@, Ipspub[written + 1])]
        /\ raced' = (raced \/ pc[target] = "clear")
    BY <1>5 DEF Write
  <2>2. written + 1 \in 1 .. Len(Ipspub) /\ written + 1 \in 0 .. Len(Ipspub)
    BY <1>4, <1>5
  <2> DEFINE x == Ipspub[written + 1]
  <2>3. /\ Append(Prefix(written), x) = Prefix(written + 1)
        /\ x \in Lines /\ \A i \in 1 .. written : Ipspub[i] # x
    BY <1>4, <1>5, PrefixNext
  <2>4. msgtmp' \in [Infos -> Seq(Lines)]
    BY <1>4, <2>1, <2>3, AppendProperties
  <2>5. TypeOK'
    BY <1>1, <1>2, <2>1, <2>2, <2>4 DEF TypeOK
  <2>6. Streamed(target)'
    <3>1. Streamed(target)
      BY <1>1, <1>3 DEF Origin, Gathered
    <3>2. /\ msgtmp'[target] = Append(msgtmp[target], x)
          /\ outbox[target] \in Seq(Lines) /\ msgtmp[target] \in Seq(Lines)
      BY <1>3, <1>4, <2>1 DEF TypeOK
    <3>3. Sent(target)' = Append(Sent(target), x)
      <4>1. x \in Lines
        BY <2>3
      <4>2. \A s, t \in Seq(Lines), y \in Lines : s \o Append(t, y) = Append(s \o t, y)
        BY ConcatAppend
      <4>3. Sent(target)' = outbox[target] \o msgtmp'[target]
        BY <1>1 DEF Sent
      <4> HIDE DEF x
      <4> QED BY <3>2, <4>1, <4>2, <4>3, Zenon DEF Sent
    <3>4. Sent(target) \in Seq(Lines)
      BY <3>2, ConcatProperties DEF Sent
    <3>5. IsInjective(Sent(target)) /\ \A i \in DOMAIN Sent(target) : \E k \in 1 .. written : Sent(target)[i] = Ipspub[k]
      BY <3>1 DEF Streamed
    <3>6. IsInjective(Sent(target)')
      <4>1. \A i \in DOMAIN Sent(target) : Sent(target)[i] # x
        BY <2>3, <3>5
      <4>2. x \in Lines
        BY <2>3
      <4> HIDE DEF x
      <4> QED BY <3>3, <3>4, <3>5, <4>1, <4>2, InjectiveAppend
    <3>7. \A i \in DOMAIN Sent(target)' : \E k \in 1 .. written' : Sent(target)'[i] = Ipspub[k]
      <4>1. /\ Append(Sent(target), x) \in Seq(Lines)
            /\ Len(Append(Sent(target), x)) = Len(Sent(target)) + 1
            /\ \A i \in 1 .. Len(Sent(target)) : Append(Sent(target), x)[i] = Sent(target)[i]
            /\ Append(Sent(target), x)[Len(Sent(target)) + 1] = x
        BY <2>3, <3>4, AppendProperties
      <4>2. /\ Len(Sent(target)) \in Nat /\ DOMAIN Sent(target) = 1 .. Len(Sent(target))
            /\ DOMAIN Sent(target)' = 1 .. Len(Sent(target)) + 1
        BY <3>3, <3>4, <4>1, LenProperties
      <4> SUFFICES ASSUME NEW i \in 1 .. Len(Sent(target)) + 1
                   PROVE  \E k \in 1 .. written' : Sent(target)'[i] = Ipspub[k]
        BY <4>2
      <4>3. written + 1 \in 1 .. written' /\ \A k \in 1 .. written : k \in 1 .. written'
        BY <1>4, <2>1
      <4>4. CASE i = Len(Sent(target)) + 1
        BY <3>3, <4>1, <4>3, <4>4
      <4>5. CASE i # Len(Sent(target)) + 1
        <5>1. i \in 1 .. Len(Sent(target))
          BY <4>2, <4>5
        <5>2. PICK k \in 1 .. written : Sent(target)[i] = Ipspub[k]
          BY <3>5, <4>2, <5>1
        <5> QED BY <3>3, <4>1, <4>3, <5>1, <5>2
      <4> QED BY <4>4, <4>5
    <3>8. ~raced' => Sent(target)' = Prefix(written')
      BY <2>1, <2>3, <3>1, <3>3 DEF Streamed
    <3>9. pc[target] = "clear" => Copied(target)' /\ raced'
      <4> SUFFICES ASSUME pc[target] = "clear" PROVE Copied(target)'
        BY <2>1
      <4>1. PICK k \in 1 .. Len(msgtmp[target]) : msgtmp2[target] = SubSeq(msgtmp[target], 1, k)
        BY <3>1 DEF Streamed, Copied
      <4>2. /\ Append(msgtmp[target], x) \in Seq(Lines)
            /\ Len(Append(msgtmp[target], x)) = Len(msgtmp[target]) + 1
            /\ \A i \in 1 .. Len(msgtmp[target]) : Append(msgtmp[target], x)[i] = msgtmp[target][i]
        BY <2>3, <3>2, AppendProperties
      <4>3. Len(msgtmp[target]) \in Nat
        BY <3>2, LenProperties
      <4>4. k \in 1 .. Len(msgtmp'[target]) /\ \A i \in 1 .. k : i \in 1 .. Len(msgtmp[target])
        BY <3>2, <4>2, <4>3
      <4>5. SubSeq(msgtmp'[target], 1, k) = SubSeq(msgtmp[target], 1, k)
        <5>1. /\ k \in Nat /\ msgtmp'[target] \in Seq(Lines)
              /\ \A i \in 1 .. k : msgtmp'[target][i] = msgtmp[target][i] /\ msgtmp[target][i] \in Lines
          BY <3>2, <4>2, <4>3, <4>4, ElementOfSeq
        <5>2. /\ SubSeq(msgtmp[target], 1, k) \in Seq(Lines) /\ Len(SubSeq(msgtmp[target], 1, k)) = k
              /\ \A i \in 1 .. k : SubSeq(msgtmp[target], 1, k)[i] = msgtmp[target][i]
          BY <3>2, <5>1, SubSeqProperties
        <5>3. /\ SubSeq(msgtmp'[target], 1, k) \in Seq(Lines) /\ Len(SubSeq(msgtmp'[target], 1, k)) = k
              /\ \A i \in 1 .. k : SubSeq(msgtmp'[target], 1, k)[i] = msgtmp'[target][i]
          BY <5>1, SubSeqProperties
        <5> QED BY <5>1, <5>2, <5>3, SeqEqual
      <4> QED BY <1>1, <4>1, <4>4, <4>5 DEF Copied
    <3> QED BY <1>1, <3>1, <3>6, <3>7, <3>8, <3>9 DEF Streamed
  <2>7. ASSUME NEW n \in Infos, n # target PROVE Gathered(n)'
    <3>1. Gathered(n) /\ msgtmp'[n] = msgtmp[n]
      BY <1>4, <2>1, <2>7 DEF Origin, Streamed
    <3> QED BY <1>1, <2>7, <3>1, GatheredKept
  <2>8. Origin'
    BY <1>1, <1>3, <2>6, <2>7 DEF Origin
  <2> QED BY <2>5, <2>8
<1>6. CASE ~(written < Len(Ipspub))
  <2>1. stream' = "over" /\ UNCHANGED <<written, msgtmp, raced>>
    BY <1>6 DEF Write
  <2>2. TypeOK'
    BY <1>1, <2>1 DEF TypeOK
  <2>3. \A n \in Infos : (Streamed(n) \/ Gathered(n))'
    BY <1>1, <2>1, NodeKept DEF Origin
  <2>4. Origin'
    BY <1>1, <1>3, <2>3 DEF Origin
  <2> QED BY <2>2, <2>4
<1> QED BY <1>5, <1>6

LEMMA BreakStep ==
  ASSUME IInv, Break
  PROVE  IInv'
<1> USE DEF IInv
<1>1. /\ stream' = "over" /\ failed' = TRUE /\ UNCHANGED <<target, written, raced, listening>>
      /\ UNCHANGED <<msgtmp, msgtmp2, outbox, dht, restarts, lost>>
      /\ UNCHANGED <<havedata, pushed, pc, next, asked, seen, got, gone>>
  BY DEF Break, loopvars, clientvars
<1>2. TypeOK'
  BY <1>1 DEF TypeOK
<1>3. \A n \in Infos : (Streamed(n) \/ Gathered(n))'
  BY <1>1, NodeKept DEF Origin
<1>4. Begun' /\ Reaches'
  BY <1>1 DEF Begun, Reaches
<1> QED BY <1>1, <1>2, <1>3, <1>4 DEF Origin

LEMMA ListenStep ==
  ASSUME IInv, NEW n \in Infos, Listen(n)
  PROVE  IInv'
<1> USE DEF IInv
<1>1. /\ listening' = listening \cup {n} /\ UNCHANGED <<stream, target, written, failed, raced>>
      /\ UNCHANGED <<msgtmp, msgtmp2, outbox, dht, restarts, lost>>
      /\ UNCHANGED <<havedata, pushed, pc, next, asked, seen, got, gone>>
  BY DEF Listen, loopvars, callvars, clientvars
<1>2. TypeOK'
  BY <1>1 DEF TypeOK
<1>3. \A k \in Infos : (Streamed(k) \/ Gathered(k))'
  BY <1>1, NodeKept DEF Origin
<1>4. Begun' /\ Reaches'
  BY <1>1 DEF Origin, Begun, Reaches
<1> QED BY <1>1, <1>2, <1>3, <1>4 DEF Origin

LEMMA CopyStep ==
  ASSUME IInv, NEW n \in Infos, Copy(n)
  PROVE  IInv'
<1> USE DEF IInv
<1>1. /\ pc[n] = "loop" /\ msgtmp[n] # <<>>
      /\ msgtmp2' = [msgtmp2 EXCEPT ![n] = msgtmp[n]] /\ pc' = [pc EXCEPT ![n] = "clear"]
      /\ UNCHANGED <<stream, target, written, failed, raced, listening, msgtmp, outbox, dht, restarts, lost>>
      /\ UNCHANGED <<havedata, pushed, next, asked, seen, got, gone>>
  BY DEF Copy, HasMail, callvars, clientvars
<1>2. /\ msgtmp \in [Infos -> Seq(Lines)] /\ msgtmp2 \in [Infos -> Seq(Lines)]
      /\ pc \in [Infos -> {"loop", "clear", "put", "get"}]
  BY DEF TypeOK
<1>3. /\ msgtmp2'[n] = msgtmp[n] /\ pc'[n] = "clear"
      /\ \A k \in Infos \ {n} : msgtmp2'[k] = msgtmp2[k] /\ pc'[k] = pc[k]
  BY <1>1, <1>2
<1>4. TypeOK'
  <2>1. msgtmp2' \in [Infos -> Seq(Lines)] /\ pc' \in [Infos -> {"loop", "clear", "put", "get"}]
    BY <1>1, <1>2
  <2>2. \A k \in Infos : pc'[k] = "put" => next[k] \in DOMAIN outbox[k]
    BY <1>3 DEF TypeOK
  <2> QED BY <1>1, <2>1, <2>2 DEF TypeOK
<1>5. Streamed(n)
  BY <1>1 DEF Origin, Gathered
<1>6. Streamed(n)'
  <2>1. msgtmp[n] \in Seq(Lines) /\ Len(msgtmp[n]) \in Nat /\ Len(msgtmp[n]) # 0
    BY <1>1, <1>2, EmptySeq, LenProperties
  <2>2. SubSeq(msgtmp[n], 1, Len(msgtmp[n])) = msgtmp[n]
    <3>1. /\ \A i \in 1 .. Len(msgtmp[n]) : msgtmp[n][i] \in Lines
      BY <2>1, ElementOfSeq
    <3>2. /\ SubSeq(msgtmp[n], 1, Len(msgtmp[n])) \in Seq(Lines)
          /\ Len(SubSeq(msgtmp[n], 1, Len(msgtmp[n]))) = Len(msgtmp[n])
          /\ \A i \in 1 .. Len(msgtmp[n]) : SubSeq(msgtmp[n], 1, Len(msgtmp[n]))[i] = msgtmp[n][i]
      BY <2>1, <3>1, SubSeqProperties
    <3> QED BY <2>1, <3>2, SeqEqual
  <2>3. Len(msgtmp[n]) \in 1 .. Len(msgtmp[n])
    BY <2>1
  <2>4. Copied(n)'
    BY <1>1, <1>3, <2>2, <2>3 DEF Copied
  <2>5. Sent(n)' = Sent(n) /\ Prefix(written)' = Prefix(written) /\ UNCHANGED <<target, raced, written>>
    BY <1>1 DEF Sent, Prefix
  <2>6. UNCHANGED <<outbox, havedata, pushed, next, dht, msgtmp>>
    BY <1>1
  <2> QED BY <1>3, <1>5, <2>4, <2>5, <2>6 DEF Streamed
<1>7. ASSUME NEW k \in Infos, k # n PROVE (Streamed(k) \/ Gathered(k))'
  BY <1>1, <1>3, <1>7, NodeKept DEF Origin
<1>8. Begun' /\ Reaches'
  <2>1. stream # "none"
    BY <1>1 DEF Origin, Begun
  <2> QED BY <1>1, <2>1 DEF Origin, Begun, Reaches
<1>9. \A k \in Infos : pc'[k] # "get" => seen'[k] = {}
  BY <1>1, <1>3 DEF Origin
<1>10. Origin'
  BY <1>1, <1>6, <1>7, <1>8, <1>9 DEF Origin
<1> QED BY <1>4, <1>10

LEMMA ClearStep ==
  ASSUME IInv, NEW n \in Infos, Clear(n)
  PROVE  IInv'
<1> USE DEF IInv
<1>1. /\ pc[n] = "clear"
      /\ msgtmp' = [msgtmp EXCEPT ![n] = <<>>] /\ msgtmp2' = [msgtmp2 EXCEPT ![n] = <<>>]
      /\ outbox' = [outbox EXCEPT ![n] = @ \o msgtmp2[n]]
      /\ havedata' = [havedata EXCEPT ![n] = TRUE]
      /\ pc' = [pc EXCEPT ![n] = Decided(n)]
      /\ UNCHANGED <<stream, target, written, failed, raced, listening, dht, restarts, lost>>
      /\ UNCHANGED <<pushed, next, asked, seen, got, gone>>
  BY DEF Clear, callvars, clientvars
<1>2. /\ msgtmp \in [Infos -> Seq(Lines)] /\ msgtmp2 \in [Infos -> Seq(Lines)]
      /\ outbox \in [Infos -> Seq(Lines)] /\ havedata \in [Infos -> BOOLEAN]
      /\ pushed \in [Infos -> BOOLEAN] /\ next \in [Infos -> Nat \ {0}]
      /\ pc \in [Infos -> {"loop", "clear", "put", "get"}]
  BY DEF TypeOK
<1>3. /\ msgtmp'[n] = <<>> /\ outbox'[n] = outbox[n] \o msgtmp2[n] /\ havedata'[n] = TRUE
      /\ pc'[n] = IF ~pushed[n] THEN "put" ELSE "loop"
  BY <1>1, <1>2 DEF Decided
<1>4. \A k \in Infos \ {n} :
        /\ msgtmp'[k] = msgtmp[k] /\ msgtmp2'[k] = msgtmp2[k] /\ outbox'[k] = outbox[k]
        /\ havedata'[k] = havedata[k] /\ pc'[k] = pc[k]
  BY <1>1, <1>2
<1>5. Streamed(n)
  BY <1>1 DEF Origin, Gathered
\* What is served now is the beginning of what was sent.
<1>6. PICK k \in 1 .. Len(msgtmp[n]) : msgtmp2[n] = SubSeq(msgtmp[n], 1, k)
  BY <1>1, <1>5 DEF Streamed, Copied
<1>7. /\ outbox'[n] \in Seq(Lines) /\ outbox'[n] # <<>>
      /\ \A i \in DOMAIN outbox'[n] : i \in DOMAIN Sent(n) /\ outbox'[n][i] = Sent(n)[i]
  <2>1. outbox[n] \in Seq(Lines) /\ msgtmp[n] \in Seq(Lines)
    BY <1>2
  <2>2. \A s, t \in Seq(Lines) : \A l \in 1 .. Len(t) :
          /\ s \o SubSeq(t, 1, l) \in Seq(Lines) /\ s \o SubSeq(t, 1, l) # <<>>
          /\ \A i \in DOMAIN (s \o SubSeq(t, 1, l)) :
               i \in DOMAIN (s \o t) /\ (s \o SubSeq(t, 1, l))[i] = (s \o t)[i]
    BY ConcatPrefix
  <2>3. outbox'[n] = outbox[n] \o SubSeq(msgtmp[n], 1, k)
    BY <1>3, <1>6
  <2>4. /\ outbox[n] \o SubSeq(msgtmp[n], 1, k) \in Seq(Lines) /\ outbox[n] \o SubSeq(msgtmp[n], 1, k) # <<>>
        /\ \A i \in DOMAIN (outbox[n] \o SubSeq(msgtmp[n], 1, k)) :
             /\ i \in DOMAIN (outbox[n] \o msgtmp[n])
             /\ (outbox[n] \o SubSeq(msgtmp[n], 1, k))[i] = (outbox[n] \o msgtmp[n])[i]
    BY <2>1, <2>2, Zenon
  <2> QED BY <2>3, <2>4 DEF Sent
<1>8. Sent(n)' = outbox'[n]
  BY <1>3, <1>7, ConcatEmptySeq DEF Sent
<1>9. Streamed(n)'
  <2>1. IsInjective(outbox'[n])
    BY <1>5, <1>7 DEF Streamed, IsInjective
  <2>2. \A i \in DOMAIN outbox'[n] : \E j \in 1 .. written : outbox'[n][i] = Ipspub[j]
    BY <1>5, <1>7 DEF Streamed
  <2>3. ~raced => outbox'[n] = Prefix(written)
    BY <1>1, <1>3, <1>5 DEF Streamed, Sent
  <2>4. pc'[n] = "put" => dht = <<>>
    BY <1>3, <1>5 DEF Streamed
  <2>5. pc'[n] = "put" => \A j \in DOMAIN dht : \E i \in 1 .. next'[n] - 1 : dht[j] = outbox'[n][i]
    <3>1. DOMAIN <<>> = {}
      OBVIOUS
    <3> QED BY <2>4, <3>1
  <2>6. pc'[n] \in {"put", "loop"} /\ n = target /\ (~pushed[n] => dht = <<>> /\ next[n] = 1)
    BY <1>3, <1>5 DEF Streamed
  <2>7. UNCHANGED <<target, raced, written, dht, pushed, next>>
    BY <1>1
  <2>8. (~raced => Sent(n) = Prefix(written))'
    BY <1>8, <2>3, <2>7 DEF Prefix
  <2>9. outbox'[n] # <<>> /\ havedata'[n] /\ pc'[n] # "clear" /\ pc'[n] # "get"
    BY <1>3, <1>7, <2>6
  <2>10. (~pushed[n] => dht = <<>> /\ next[n] = 1)' /\ n = target'
    BY <2>6, <2>7
  <2>11. (\A i \in DOMAIN Sent(n) : \E j \in 1 .. written : Sent(n)[i] = Ipspub[j])'
    BY <1>8, <2>2, <2>7
  <2>12. IsInjective(Sent(n))'
    BY <1>8, <2>1
  <2>13. /\ (outbox[n] # <<>> <=> havedata[n])' /\ (~havedata[n] => ~pushed[n])'
         /\ (pc[n] = "clear" => Copied(n) /\ (~raced => msgtmp2[n] = msgtmp[n]))'
         /\ (pc[n] = "get" => ~havedata[n])'
    BY <1>3, <2>9
  <2>14. (pc[n] = "put" => havedata[n] /\ \A j \in DOMAIN dht : \E i \in 1 .. next[n] - 1 : dht[j] = outbox[n][i])'
    BY <2>5, <2>9, <2>7
  <2> QED BY <2>8, <2>10, <2>11, <2>12, <2>13, <2>14, Zenon DEF Streamed
<1>10. ASSUME NEW j \in Infos, j # n PROVE (Streamed(j) \/ Gathered(j))'
  BY <1>1, <1>4, <1>10, NodeKept DEF Origin
<1>11. Begun' /\ Reaches'
  <2>1. stream # "none"
    BY <1>1 DEF Origin, Begun
  <2> QED BY <1>1, <2>1 DEF Origin, Begun, Reaches
<1>12. \A j \in Infos : pc'[j] # "get" => seen'[j] = {}
  BY <1>1, <1>4 DEF Origin
<1>13. TypeOK'
  <2>1. /\ msgtmp' \in [Infos -> Seq(Lines)] /\ msgtmp2' \in [Infos -> Seq(Lines)]
        /\ outbox' \in [Infos -> Seq(Lines)]
    <3>1. <<>> \in Seq(Lines)
      OBVIOUS
    <3> QED BY <1>1, <1>2, <1>3, <1>7, <3>1
  <2>2. havedata' \in [Infos -> BOOLEAN] /\ pc' \in [Infos -> {"loop", "clear", "put", "get"}]
    BY <1>1, <1>2 DEF Decided
  <2>3. pc'[n] = "put" => next[n] \in DOMAIN outbox'[n]
    <3>1. Len(outbox'[n]) \in Nat /\ Len(outbox'[n]) # 0 /\ DOMAIN outbox'[n] = 1 .. Len(outbox'[n])
      BY <1>7, EmptySeq, LenProperties
    <3>2. pc'[n] = "put" => next[n] = 1
      BY <1>3, <1>5 DEF Streamed
    <3> QED BY <3>1, <3>2
  <2>4. \A j \in Infos : pc'[j] = "put" => next[j] \in DOMAIN outbox'[j]
    BY <1>4, <2>3 DEF TypeOK
  <2> QED BY <1>1, <2>1, <2>2, <2>4 DEF TypeOK
<1>14. Origin'
  BY <1>1, <1>9, <1>10, <1>11, <1>12 DEF Origin
<1> QED BY <1>13, <1>14

LEMMA IdleStep ==
  ASSUME IInv, NEW n \in Infos, Idle(n)
  PROVE  IInv'
<1> USE DEF IInv
<1>1. /\ pc[n] = "loop" /\ msgtmp[n] = <<>> /\ Decided(n) # "loop"
      /\ pc' = [pc EXCEPT ![n] = Decided(n)]
      /\ asked' = IF Decided(n) = "get" THEN [asked EXCEPT ![n] = Len(dht)] ELSE asked
      /\ UNCHANGED <<stream, target, written, failed, raced, listening, msgtmp, msgtmp2, outbox, dht>>
      /\ UNCHANGED <<havedata, pushed, next, seen, got, gone, restarts, lost>>
  BY DEF Idle, HasMail, callvars, clientvars
<1>2. /\ pc \in [Infos -> {"loop", "clear", "put", "get"}] /\ Len(dht) \in Nat
      /\ asked \in [Infos -> 0 .. Len(dht)] /\ outbox \in [Infos -> Seq(Lines)]
  BY LenProperties DEF TypeOK
<1>3. /\ pc'[n] = (IF ~havedata[n] THEN "get" ELSE "put") /\ (havedata[n] => ~pushed[n])
      /\ \A k \in Infos \ {n} : pc'[k] = pc[k]
  BY <1>1, <1>2 DEF Decided
<1>4. ASSUME Streamed(n) PROVE Streamed(n)'
  <2>1. ~pushed[n] => dht = <<>> /\ next[n] = 1
    BY <1>4 DEF Streamed
  <2>2. DOMAIN <<>> = {}
    OBVIOUS
  <2>3. pc'[n] = "put" => havedata[n] /\ \A j \in DOMAIN dht : \E k \in 1 .. next[n] - 1 : dht[j] = outbox[n][k]
    BY <1>3, <2>1, <2>2
  <2>4. pc'[n] # "clear" /\ (pc'[n] = "get" => ~havedata[n])
    BY <1>3
  <2> QED BY <1>1, <1>4, <2>3, <2>4 DEF Streamed, Sent, Prefix
<1>5. ASSUME Gathered(n) PROVE Gathered(n)' /\ pc'[n] # "put"
  <2>1. ~havedata[n] /\ outbox[n] = <<>> /\ DOMAIN outbox[n] = {}
    BY <1>3, <1>5 DEF Gathered
  <2>2. pc'[n] = "get"
    BY <1>3, <2>1
  <2> QED BY <1>1, <1>5, <2>1, <2>2 DEF Gathered
<1>6. ASSUME NEW k \in Infos, k # n PROVE (Streamed(k) \/ Gathered(k))'
  BY <1>1, <1>3, <1>6, NodeKept DEF Origin
<1>7. Begun' /\ Reaches'
  <2>1. \A k \in Infos : pc'[k] = "clear" => pc[k] = "clear"
    BY <1>3
  <2> QED BY <1>1, <2>1 DEF Origin, Begun, Reaches
<1>8. \A k \in Infos : pc'[k] # "get" => seen'[k] = {}
  BY <1>1, <1>3 DEF Origin
<1>9. TypeOK'
  <2>1. pc' \in [Infos -> {"loop", "clear", "put", "get"}]
    BY <1>1, <1>2 DEF Decided
  <2>2. asked' \in [Infos -> 0 .. Len(dht)]
    BY <1>1, <1>2
  <2>3. pc'[n] = "put" => next[n] \in DOMAIN outbox[n]
    <3> SUFFICES ASSUME pc'[n] = "put" PROVE next[n] \in DOMAIN outbox[n]
      OBVIOUS
    <3>1. Streamed(n) /\ havedata[n] /\ ~pushed[n]
      BY <1>3, <1>5 DEF Origin
    <3>2. next[n] = 1 /\ outbox[n] # <<>>
      BY <3>1 DEF Streamed
    <3>3. Len(outbox[n]) \in Nat /\ Len(outbox[n]) # 0 /\ DOMAIN outbox[n] = 1 .. Len(outbox[n])
      BY <1>2, <3>2, EmptySeq, LenProperties
    <3> QED BY <3>2, <3>3
  <2>4. \A k \in Infos : pc'[k] = "put" => next[k] \in DOMAIN outbox[k]
    BY <1>3, <2>3 DEF TypeOK
  <2> QED BY <1>1, <2>1, <2>2, <2>4 DEF TypeOK
<1>10. \A k \in Infos : (Streamed(k) \/ Gathered(k))'
  BY <1>4, <1>5, <1>6 DEF Origin
<1>11. Origin'
  BY <1>1, <1>7, <1>8, <1>10 DEF Origin
<1> QED BY <1>9, <1>11

LEMMA PutStep ==
  ASSUME IInv, NEW n \in Infos, Put(n)
  PROVE  IInv'
<1> USE DEF IInv
<1>1. PICK success \in BOOLEAN :
        /\ dht' = dht \o Left(outbox[n][next[n]], success)
        /\ lost' = (lost \/ ~success)
  BY DEF Put
<1>2. /\ pc[n] = "put" /\ pushed' = [pushed EXCEPT ![n] = TRUE]
      /\ UNCHANGED <<stream, target, written, failed, raced, listening, msgtmp, msgtmp2, outbox>>
      /\ UNCHANGED <<havedata, asked, seen, got, gone, restarts>>
  BY DEF Put, callvars, clientvars
<1>3. /\ More(n) => next' = [next EXCEPT ![n] = @ + 1] /\ pc' = pc
      /\ ~More(n) => pc' = [pc EXCEPT ![n] = "loop"] /\ next' = next
  BY DEF Put
<1>4. /\ outbox \in [Infos -> Seq(Lines)] /\ pc \in [Infos -> {"loop", "clear", "put", "get"}]
      /\ pushed \in [Infos -> BOOLEAN] /\ next \in [Infos -> Nat \ {0}]
      /\ next[n] \in DOMAIN outbox[n] /\ dht \in Seq(Lines)
      /\ asked \in [Infos -> 0 .. Len(dht)] /\ seen \in [Infos -> SUBSET DOMAIN dht]
  BY <1>2 DEF TypeOK
<1>5. Streamed(n)
  BY <1>2 DEF Origin, Gathered
<1> DEFINE x == outbox[n][next[n]]
<1>6. x \in Lines /\ IsInjective(outbox[n]) /\ outbox[n] \in Seq(Lines)
  BY <1>4, <1>5, Served, LenProperties, ElementOfSeq
<1>7. \A j \in DOMAIN dht : \E k \in 1 .. next[n] - 1 : dht[j] = outbox[n][k]
  BY <1>2, <1>5 DEF Streamed
<1>8. Left(x, success) \in Seq(Lines) /\ Len(Left(x, success)) \in {0, 1}
      /\ DOMAIN Left(x, success) \subseteq {1} /\ \A j \in DOMAIN Left(x, success) : Left(x, success)[j] = x
  <2> HIDE DEF x
  <2>1. CASE success
    <3>1. Left(x, success) = <<x>>
      BY <2>1 DEF Left
    <3>2. <<x>> \in Seq(Lines) /\ Len(<<x>>) = 1 /\ DOMAIN <<x>> = {1} /\ <<x>>[1] = x
      BY <1>6
    <3> QED BY <3>1, <3>2
  <2>2. CASE ~success
    <3>1. Left(x, success) = <<>> /\ <<>> \in Seq(Lines) /\ Len(<<>>) = 0 /\ DOMAIN <<>> = {}
      BY <2>2 DEF Left
    <3> QED BY <3>1
  <2> QED BY <2>1, <2>2
<1> DEFINE l == Left(x, success)
<1>9. /\ dht' \in Seq(Lines) /\ Len(dht) \in Nat /\ Len(dht') \in Nat /\ Len(dht) <= Len(dht')
      /\ DOMAIN dht = 1 .. Len(dht) /\ DOMAIN dht' = 1 .. Len(dht')
      /\ \A j \in DOMAIN dht : j \in DOMAIN dht' /\ dht'[j] = dht[j]
      /\ \A j \in DOMAIN dht' \ DOMAIN dht : dht'[j] = x
  <2>1. l \in Seq(Lines) /\ Len(l) \in {0, 1} /\ DOMAIN l \subseteq {1} /\ \A j \in DOMAIN l : l[j] = x
    BY <1>8
  <2>2. dht' = dht \o l
    BY <1>1
  <2> HIDE DEF l, x
  <2>3. /\ dht \o l \in Seq(Lines) /\ Len(dht \o l) = Len(dht) + Len(l)
        /\ \A j \in 1 .. Len(dht) + Len(l) : (dht \o l)[j] = IF j <= Len(dht) THEN dht[j] ELSE l[j - Len(dht)]
    BY <1>4, <2>1, ConcatProperties
  <2>4. Len(dht) \in Nat /\ DOMAIN dht = 1 .. Len(dht) /\ DOMAIN l = 1 .. Len(l)
        /\ DOMAIN dht' = 1 .. Len(dht')
    BY <1>4, <2>1, <2>2, <2>3, LenProperties
  <2>5. \A j \in 1 .. Len(dht) + Len(l) : j > Len(dht) => j - Len(dht) \in 1 .. Len(l)
    BY <2>1, <2>4
  <2>6. \A j \in DOMAIN dht' \ DOMAIN dht : dht'[j] = x
    BY <2>1, <2>2, <2>3, <2>4, <2>5
  <2> QED BY <2>1, <2>2, <2>3, <2>4, <2>6
<1>10. \A j \in DOMAIN dht' : \E k \in 1 .. next[n] : dht'[j] = outbox[n][k]
  <2> SUFFICES ASSUME NEW j \in DOMAIN dht' PROVE \E k \in 1 .. next[n] : dht'[j] = outbox[n][k]
    OBVIOUS
  <2>1. next[n] \in 1 .. next[n] /\ \A k \in 1 .. next[n] - 1 : k \in 1 .. next[n]
    BY <1>4
  <2>2. CASE j \in DOMAIN dht
    BY <1>7, <1>9, <2>1, <2>2
  <2>3. CASE j \notin DOMAIN dht
    BY <1>6, <1>9, <2>1, <2>3
  <2> QED BY <2>2, <2>3
<1>11. IsInjective(dht')
  <2>1. \A j \in DOMAIN dht : dht[j] # x
    <3> SUFFICES ASSUME NEW j \in DOMAIN dht, dht[j] = x PROVE FALSE
      OBVIOUS
    <3>1. PICK k \in 1 .. next[n] - 1 : dht[j] = outbox[n][k]
      BY <1>7
    <3>2. Len(outbox[n]) \in Nat /\ DOMAIN outbox[n] = 1 .. Len(outbox[n])
      BY <1>6, LenProperties
    <3>3. k \in DOMAIN outbox[n] /\ k # next[n]
      BY <1>4, <3>2
    <3> QED BY <1>4, <1>6, <3>1, <3>3 DEF IsInjective
  <2>2. \A i, j \in DOMAIN dht' \ DOMAIN dht : i = j
    <3>1. Len(dht') = Len(dht) + Len(l) /\ Len(l) \in {0, 1}
      <4>1. l \in Seq(Lines) /\ Len(l) \in {0, 1} /\ dht' = dht \o l
        BY <1>1, <1>8
      <4> HIDE DEF l
      <4> QED BY <1>4, <4>1, ConcatProperties
    <3> HIDE DEF l, x
    <3>2. \A a, b, i \in Nat : b \in {0, 1} /\ i \in (1 .. a + b) \ (1 .. a) => i = a + 1
      OBVIOUS
    <3>3. \A i \in DOMAIN dht' \ DOMAIN dht :
            i \in Nat /\ Len(l) \in Nat /\ i \in (1 .. Len(dht) + Len(l)) \ (1 .. Len(dht))
      <4>2. Len(l) \in Nat
        BY <3>1
      <4>3. DOMAIN dht' = 1 .. Len(dht) + Len(l) /\ DOMAIN dht = 1 .. Len(dht)
        BY <1>9, <3>1, Zenon
      <4>4. \A i \in DOMAIN dht' : i \in Nat
        BY <1>9
      <4> QED BY <4>2, <4>3, <4>4, Zenon
    <3>4. \A i \in DOMAIN dht' \ DOMAIN dht : i = Len(dht) + 1
      BY <1>9, <3>1, <3>2, <3>3, Zenon
    <3> QED BY <3>4, Zenon
  <2>3. IsInjective(dht)
    BY DEF Origin
  <2> SUFFICES ASSUME NEW i \in DOMAIN dht', NEW j \in DOMAIN dht', dht'[i] = dht'[j] PROVE i = j
    BY DEF IsInjective
  <2> HIDE DEF x
  <2>4. CASE i \in DOMAIN dht /\ j \in DOMAIN dht
    BY <1>9, <2>3, <2>4 DEF IsInjective
  <2>5. CASE i \in DOMAIN dht /\ j \notin DOMAIN dht
    BY <1>9, <2>1, <2>5
  <2>6. CASE i \notin DOMAIN dht /\ j \in DOMAIN dht
    BY <1>9, <2>1, <2>6
  <2>7. CASE i \notin DOMAIN dht /\ j \notin DOMAIN dht
    BY <2>2, <2>7
  <2> QED BY <2>4, <2>5, <2>6, <2>7
<1> HIDE DEF x, l
<1>12. Streamed(n)'
  <2>1. havedata[n] /\ UNCHANGED <<target, raced, written, outbox, havedata>>
    BY <1>2, <1>5 DEF Streamed
  <2>2. pushed'[n]
    BY <1>2, <1>4
  <2>3. pc'[n] = "put" \/ pc'[n] = "loop"
    BY <1>2, <1>3, <1>4
  <2>4. pc'[n] = "put" => next'[n] = next[n] + 1
    BY <1>3, <1>4
  <2>5. pc'[n] = "put" => \A j \in DOMAIN dht' : \E k \in 1 .. next'[n] - 1 : dht'[j] = outbox[n][k]
    <3>1. next[n] + 1 - 1 = next[n] /\ (pc'[n] = "put" => 1 .. next'[n] - 1 = 1 .. next[n])
      BY <1>4, <2>4
    <3> QED BY <1>10, <3>1
  <2>6. Sent(n)' = Sent(n) /\ Prefix(written)' = Prefix(written)
    BY <1>2 DEF Sent, Prefix
  <2> QED BY <1>5, <2>1, <2>2, <2>3, <2>5, <2>6 DEF Streamed
<1>13. ASSUME NEW k \in Infos PROVE (Streamed(k) \/ Gathered(k))'
  <2>1. CASE k = n
    BY <1>12, <2>1
  <2>2. CASE k # n
    <3>1. Gathered(k)
      BY <1>5, <2>2 DEF Origin, Streamed
    <3>2. pc'[k] = pc[k] /\ next'[k] = next[k] /\ pushed'[k] = pushed[k]
      BY <1>2, <1>3, <1>4, <2>2
    <3>3. Gathered(k)'
      BY <1>2, <1>9, <2>2, <3>1, <3>2, GatheredKept DEF Gathered
    <3> QED BY <3>3
  <2> QED BY <2>1, <2>2
<1>14. TypeOK'
  <2>4. next' \in [Infos -> Nat \ {0}]
    <3>1. next[n] + 1 \in Nat \ {0}
      BY <1>4
    <3> QED BY <1>3, <1>4, <3>1
  <2>5. pc' \in [Infos -> {"loop", "clear", "put", "get"}] /\ pushed' \in [Infos -> BOOLEAN]
    BY <1>2, <1>3, <1>4
  <2>6. lost' \in BOOLEAN
    BY <1>1
  <2>1. next' \in [Infos -> Nat \ {0}] /\ pc' \in [Infos -> {"loop", "clear", "put", "get"}]
        /\ pushed' \in [Infos -> BOOLEAN] /\ lost' \in BOOLEAN
    BY <2>4, <2>5, <2>6
  <2>2. \A k \in Infos : pc'[k] = "put" => next'[k] \in DOMAIN outbox[k]
    <3> SUFFICES ASSUME NEW k \in Infos, pc'[k] = "put" PROVE next'[k] \in DOMAIN outbox[k]
      OBVIOUS
    <3>1. CASE k # n
      BY <1>3, <1>4, <3>1 DEF TypeOK
    <3>2. CASE k = n
      <4>1. More(n) /\ next'[n] = next[n] + 1
        BY <1>3, <1>4, <3>2
      <4>2. Len(outbox[n]) \in Nat /\ DOMAIN outbox[n] = 1 .. Len(outbox[n])
        BY <1>4, LenProperties
      <4> QED BY <1>4, <3>2, <4>1, <4>2 DEF More
    <3> QED BY <3>1, <3>2
  <2>3. asked \in [Infos -> 0 .. Len(dht')] /\ seen \in [Infos -> SUBSET DOMAIN dht']
    <3>1. 0 .. Len(dht) \subseteq 0 .. Len(dht') /\ DOMAIN dht \subseteq DOMAIN dht'
      BY <1>9
    <3> QED BY <1>4, <3>1
  <2> QED BY <1>2, <1>9, <2>1, <2>2, <2>3 DEF TypeOK
<1>15. Begun' /\ Reaches'
  <2>1. stream # "none"
    BY <1>2, <1>5 DEF Origin, Begun, Streamed
  <2> QED BY <1>2, <2>1 DEF Origin, Begun, Reaches
<1>16. \A k \in Infos : pc'[k] # "get" => seen'[k] = {}
  <2>1. \A k \in Infos : pc'[k] # "get" => pc[k] # "get"
    BY <1>2, <1>3, <1>4
  <2> QED BY <1>2, <2>1 DEF Origin
<1>17. Origin'
  BY <1>2, <1>11, <1>13, <1>15, <1>16 DEF Origin
<1> QED BY <1>14, <1>17

LEMMA FoundStep ==
  ASSUME IInv, NEW n \in Infos, Found(n)
  PROVE  IInv'
<1> USE DEF IInv
<1>1. PICK p \in DOMAIN dht \ seen[n] :
        /\ seen' = [seen EXCEPT ![n] = @ \cup {p}]
        /\ outbox' = [outbox EXCEPT ![n] = Append(@, dht[p])]
  BY DEF Found
<1>2. /\ pc[n] = "get" /\ havedata' = [havedata EXCEPT ![n] = TRUE]
      /\ pushed' = [pushed EXCEPT ![n] = TRUE]
      /\ UNCHANGED <<stream, target, written, failed, raced, listening, msgtmp, msgtmp2>>
      /\ UNCHANGED <<pc, next, asked, dht, got, gone, restarts, lost>>
  BY DEF Found, PushedByOther, callvars, clientvars
<1>3. /\ outbox \in [Infos -> Seq(Lines)] /\ dht \in Seq(Lines) /\ seen \in [Infos -> SUBSET DOMAIN dht]
      /\ havedata \in [Infos -> BOOLEAN] /\ pushed \in [Infos -> BOOLEAN] /\ IsInjective(dht)
  BY DEF TypeOK, Origin
\* Nothing is in the DHT while the stream's node has nothing.
<1>4. Gathered(n)
  <2>1. ASSUME Streamed(n) PROVE FALSE
    <3>1. dht = <<>>
      BY <1>2, <2>1 DEF Streamed
    <3>2. DOMAIN dht = {}
      BY <3>1
    <3> QED BY <3>2
  <2> QED BY <2>1 DEF Origin
<1> DEFINE x == dht[p]
<1>5. x \in Lines
  BY <1>3, LenProperties, ElementOfSeq
<1>6. outbox'[n] = Append(outbox[n], x) /\ \A k \in Infos \ {n} : outbox'[k] = outbox[k]
  BY <1>1, <1>3
<1>7. seen'[n] = seen[n] \cup {p} /\ \A k \in Infos \ {n} : seen'[k] = seen[k]
  BY <1>1, <1>3
<1>8. outbox[n] \in Seq(Lines) /\ IsInjective(outbox[n])
      /\ \A i \in DOMAIN outbox[n] : \E j \in seen[n] : outbox[n][i] = dht[j]
  BY <1>2, <1>3, <1>4 DEF Gathered
\* What was found before comes from other positions, and so is another line.
<1>9. \A i \in DOMAIN outbox[n] : outbox[n][i] # x
  <2> SUFFICES ASSUME NEW i \in DOMAIN outbox[n], outbox[n][i] = x PROVE FALSE
    OBVIOUS
  <2>1. PICK j \in seen[n] : outbox[n][i] = dht[j]
    BY <1>8
  <2>2. j \in DOMAIN dht /\ p \in DOMAIN dht /\ j # p
    BY <1>3
  <2> QED BY <1>3, <2>1, <2>2 DEF IsInjective
<1> HIDE DEF x
<1>10. /\ Append(outbox[n], x) \in Seq(Lines) /\ Len(Append(outbox[n], x)) = Len(outbox[n]) + 1
       /\ \A i \in 1 .. Len(outbox[n]) : Append(outbox[n], x)[i] = outbox[n][i]
       /\ Append(outbox[n], x)[Len(outbox[n]) + 1] = x
  BY <1>5, <1>8, AppendProperties
<1>11. \A i \in DOMAIN outbox'[n] : \E j \in seen'[n] : outbox'[n][i] = dht[j]
  <2>1. /\ Len(outbox[n]) \in Nat /\ DOMAIN outbox[n] = 1 .. Len(outbox[n])
        /\ DOMAIN outbox'[n] = 1 .. Len(outbox[n]) + 1
    BY <1>6, <1>8, <1>10, LenProperties
  <2> SUFFICES ASSUME NEW i \in 1 .. Len(outbox[n]) + 1 PROVE \E j \in seen'[n] : outbox'[n][i] = dht[j]
    BY <2>1
  <2>2. CASE i = Len(outbox[n]) + 1
    BY <1>6, <1>7, <1>10, <2>2 DEF x
  <2>3. CASE i # Len(outbox[n]) + 1
    <3>1. i \in 1 .. Len(outbox[n])
      BY <2>1, <2>3
    <3> QED BY <1>6, <1>7, <1>8, <1>10, <2>1, <3>1
  <2> QED BY <2>2, <2>3
<1>12. IsInjective(outbox'[n])
  BY <1>5, <1>6, <1>8, <1>9, InjectiveAppend
<1>13. Gathered(n)'
  <2>1. msgtmp[n] = <<>> /\ havedata'[n] /\ pushed'[n] /\ (n = target => stream = "over" /\ restarts > 0)
    BY <1>2, <1>3, <1>4 DEF Gathered
  <2> QED BY <1>2, <1>11, <1>12, <2>1 DEF Gathered
<1>14. ASSUME NEW k \in Infos, k # n PROVE (Streamed(k) \/ Gathered(k))'
  <2>1. havedata'[k] = havedata[k] /\ pushed'[k] = pushed[k]
    BY <1>2, <1>3, <1>14
  <2> QED BY <1>2, <1>6, <1>7, <1>14, <2>1, NodeKept DEF Origin
<1>15. TypeOK'
  <2>1. outbox' \in [Infos -> Seq(Lines)] /\ seen' \in [Infos -> SUBSET DOMAIN dht]
    BY <1>1, <1>3, <1>6, <1>10
  <2>2. havedata' \in [Infos -> BOOLEAN] /\ pushed' \in [Infos -> BOOLEAN]
    BY <1>2, <1>3
  <2>3. \A k \in Infos : pc[k] = "put" => next[k] \in DOMAIN outbox'[k]
    BY <1>2, <1>6 DEF TypeOK
  <2> QED BY <1>2, <2>1, <2>2, <2>3 DEF TypeOK
<1>16. Begun' /\ Reaches'
  <2>1. stream # "none"
    <3>1. DOMAIN <<>> = {}
      OBVIOUS
    <3> QED BY <1>1, <3>1 DEF Origin, Begun
  <2> QED BY <1>2, <2>1 DEF Origin, Begun, Reaches
<1>17. \A k \in Infos : pc'[k] # "get" => seen'[k] = {}
  BY <1>2, <1>7 DEF Origin
<1>18. Origin'
  BY <1>2, <1>13, <1>14, <1>16, <1>17 DEF Origin
<1> QED BY <1>15, <1>18

LEMMA GotStep ==
  ASSUME IInv, NEW n \in Infos, Got(n)
  PROVE  IInv'
<1> USE DEF IInv
<1>1. /\ pc[n] = "get" /\ pc' = [pc EXCEPT ![n] = "loop"]
      /\ seen' = [seen EXCEPT ![n] = {}] /\ asked' = [asked EXCEPT ![n] = 0]
      /\ lost' \in BOOLEAN
      /\ UNCHANGED <<stream, target, written, failed, raced, listening, msgtmp, msgtmp2, outbox>>
      /\ UNCHANGED <<havedata, pushed, next, dht, got, gone, restarts>>
  BY DEF Got, callvars, clientvars
<1>2. /\ pc \in [Infos -> {"loop", "clear", "put", "get"}] /\ seen \in [Infos -> SUBSET DOMAIN dht]
      /\ Len(dht) \in Nat /\ asked \in [Infos -> 0 .. Len(dht)]
  BY LenProperties DEF TypeOK
<1>3. pc'[n] = "loop" /\ seen'[n] = {} /\ \A k \in Infos \ {n} : pc'[k] = pc[k] /\ seen'[k] = seen[k]
  BY <1>1, <1>2
<1>4. TypeOK'
  <2>1. pc' \in [Infos -> {"loop", "clear", "put", "get"}] /\ seen' \in [Infos -> SUBSET DOMAIN dht]
    BY <1>1, <1>2
  <2>2. asked' \in [Infos -> 0 .. Len(dht)]
    BY <1>1, <1>2
  <2>3. \A k \in Infos : pc'[k] = "put" => next[k] \in DOMAIN outbox[k]
    BY <1>3 DEF TypeOK
  <2> QED BY <1>1, <2>1, <2>2, <2>3 DEF TypeOK
<1>5. ASSUME NEW k \in Infos PROVE (Streamed(k) \/ Gathered(k))'
  <2>1. CASE k = n /\ Streamed(n)
    <3>1. Sent(n)' = Sent(n) /\ Prefix(written)' = Prefix(written)
      BY <1>1 DEF Sent, Prefix
    <3>2. pc'[n] = "loop" /\ UNCHANGED <<target, written, raced, outbox, havedata, pushed, next, dht>>
      BY <1>1, <1>3
    <3>3. Streamed(n)'
      BY <2>1, <3>1, <3>2 DEF Streamed
    <3> QED BY <2>1, <3>3
  <2>2. CASE k = n /\ Gathered(n)
    <3>1. Gathered(n)'
      BY <1>1, <1>3, <2>2 DEF Gathered
    <3> QED BY <2>2, <3>1
  <2>3. CASE k # n
    BY <1>1, <1>3, <2>3, NodeKept DEF Origin
  <2> QED BY <2>1, <2>2, <2>3 DEF Origin
<1>6. Begun' /\ Reaches'
  BY <1>1, <1>3 DEF Origin, Begun, Reaches
<1>7. \A k \in Infos : pc'[k] # "get" => seen'[k] = {}
  BY <1>3 DEF Origin
<1>8. Origin'
  BY <1>1, <1>5, <1>6, <1>7 DEF Origin
<1> QED BY <1>4, <1>8

LEMMA RestartStep ==
  ASSUME IInv, NEW n \in Infos, Restart(n)
  PROVE  IInv'
<1> USE DEF IInv
<1>1. /\ restarts < MaxRestarts /\ restarts' = restarts + 1
      /\ stream' = (IF target = n /\ stream = "on" THEN "over" ELSE stream) /\ failed' \in BOOLEAN
      /\ listening' = listening \ {n}
      /\ msgtmp' = [msgtmp EXCEPT ![n] = <<>>] /\ outbox' = [outbox EXCEPT ![n] = <<>>]
      /\ msgtmp2' = [msgtmp2 EXCEPT ![n] = <<>>]
      /\ havedata' = [havedata EXCEPT ![n] = FALSE] /\ pushed' = [pushed EXCEPT ![n] = FALSE]
      /\ pc' = [pc EXCEPT ![n] = "loop"] /\ next' = [next EXCEPT ![n] = 1]
      /\ seen' = [seen EXCEPT ![n] = {}] /\ asked' = [asked EXCEPT ![n] = 0]
      /\ UNCHANGED <<target, written, raced, dht, got, gone, lost>>
  BY DEF Restart, clientvars, TypeOK
<1>2. TypeOK
  OBVIOUS
<1>3. /\ msgtmp'[n] = <<>> /\ outbox'[n] = <<>> /\ ~havedata'[n] /\ ~pushed'[n]
      /\ pc'[n] = "loop" /\ next'[n] = 1 /\ seen'[n] = {}
  BY <1>1 DEF TypeOK
<1>4. \A k \in Infos \ {n} :
        /\ msgtmp'[k] = msgtmp[k] /\ outbox'[k] = outbox[k] /\ havedata'[k] = havedata[k]
        /\ pushed'[k] = pushed[k] /\ pc'[k] = pc[k] /\ next'[k] = next[k] /\ seen'[k] = seen[k]
        /\ msgtmp2'[k] = msgtmp2[k]
  BY <1>1 DEF TypeOK
<1>5. TypeOK'
  <2>1. <<>> \in Seq(Lines) /\ Len(dht) \in Nat
    BY LenProperties DEF TypeOK
  <2>2. /\ msgtmp' \in [Infos -> Seq(Lines)] /\ msgtmp2' \in [Infos -> Seq(Lines)]
        /\ outbox' \in [Infos -> Seq(Lines)] /\ listening' \subseteq Infos
    BY <1>1, <2>1 DEF TypeOK
  <2>3. havedata' \in [Infos -> BOOLEAN] /\ pushed' \in [Infos -> BOOLEAN]
    BY <1>1 DEF TypeOK
  <2>4. pc' \in [Infos -> {"loop", "clear", "put", "get"}] /\ next' \in [Infos -> Nat \ {0}]
    BY <1>1 DEF TypeOK
  <2>5. seen' \in [Infos -> SUBSET DOMAIN dht] /\ asked' \in [Infos -> 0 .. Len(dht)]
    BY <1>1, <2>1 DEF TypeOK
  <2>6. \A k \in Infos : pc'[k] = "put" => next'[k] \in DOMAIN outbox'[k]
    BY <1>3, <1>4 DEF TypeOK
  <2>7. restarts' \in 0 .. MaxRestarts /\ stream' \in {"none", "on", "over"}
    BY <1>1, BoundAssumption DEF TypeOK
  <2> QED BY <1>1, <2>2, <2>3, <2>4, <2>5, <2>6, <2>7 DEF TypeOK
<1>6. n = target => stream' = "over" /\ restarts' > 0
  <2>1. stream = "none" => target = None
    BY DEF Origin, Begun
  <2> QED BY <1>1, <2>1, Lists DEF TypeOK
<1>7. ASSUME NEW k \in Infos PROVE (Streamed(k) \/ Gathered(k))'
  <2>1. CASE k = n
    <3>1. DOMAIN <<>> = {} /\ IsInjective(<<>>)
      BY InjectiveEmpty
    <3> QED BY <1>1, <1>3, <1>6, <2>1, <3>1 DEF Gathered
  <2>2. CASE k # n
    <3>1. stream' \in {stream, "over"} /\ restarts' \in {restarts, restarts + 1}
      BY <1>1
    <3> QED BY <1>1, <1>4, <2>2, <3>1, NodeKept DEF Origin
  <2> QED BY <2>1, <2>2
<1>8. Begun'
  <2> SUFFICES ASSUME stream' = "none" PROVE Begun'
    BY DEF Begun
  <2>1. /\ stream = "none" /\ target = None /\ written = 0 /\ dht = <<>>
        /\ \A k \in Infos : /\ outbox[k] = <<>> /\ msgtmp[k] = <<>> /\ pc[k] # "clear"
                            /\ ~havedata[k] /\ ~pushed[k] /\ next[k] = 1
    BY <1>1 DEF Origin, Begun
  <2>2. \A k \in Infos : /\ outbox'[k] = <<>> /\ msgtmp'[k] = <<>> /\ pc'[k] # "clear"
                         /\ ~havedata'[k] /\ ~pushed'[k] /\ next'[k] = 1
    BY <1>3, <1>4, <2>1
  <2> QED BY <1>1, <2>1, <2>2 DEF Begun
<1>9. \A k \in Infos : pc'[k] # "get" => seen'[k] = {}
  BY <1>3, <1>4 DEF Origin
<1>10. Reaches'
  <2> SUFFICES ASSUME stream' = "on" PROVE target' \in listening'
    BY DEF Reaches
  <2>1. stream = "on" /\ target # n /\ target' = target
    BY <1>1
  <2> QED BY <1>1, <2>1 DEF Origin, Reaches
<1>11. Origin'
  BY <1>1, <1>7, <1>8, <1>9, <1>10 DEF Origin
<1> QED BY <1>5, <1>11

\* What a client can get is the beginning of what a node serves.
LEMMA AnswersInjective ==
  ASSUME TypeOK, Origin, NEW n \in Drawn, NEW lines \in Answers(n)
  PROVE  lines \in Seq(Lines) /\ IsInjective(lines)
<1>1. CASE n \notin listening
  <2>1. lines = <<>>
    BY <1>1 DEF Answers
  <2> QED BY <2>1, InjectiveEmpty
<1>2. CASE n \in listening
  <2>1. n \in Infos /\ outbox[n] \in Seq(Lines)
    BY <1>2 DEF TypeOK
  <2>2. IsInjective(outbox[n])
    BY <2>1, OutboxInjective DEF Origin
  <2>3. PICK k \in 0 .. Len(outbox[n]) : lines = SubSeq(outbox[n], 1, k)
    BY <1>2 DEF Answers
  <2>4. Len(outbox[n]) \in Nat /\ DOMAIN outbox[n] = 1 .. Len(outbox[n])
    BY <2>1, LenProperties
  <2>5. k \in Nat /\ \A i \in 1 .. k : i \in DOMAIN outbox[n] /\ outbox[n][i] \in Lines
    BY <2>1, <2>4, ElementOfSeq
  <2>6. lines \in Seq(Lines) /\ Len(lines) = k /\ \A i \in 1 .. k : lines[i] = outbox[n][i]
    BY <2>3, <2>5, SubSeqProperties
  <2>7. DOMAIN lines = 1 .. k
    BY <2>6, LenProperties
  <2> QED BY <2>2, <2>5, <2>6, <2>7 DEF IsInjective
<1> QED BY <1>1, <1>2

LEMMA GetKeysStep ==
  ASSUME IInv, NEW c \in Clients, GetKeys(c)
  PROVE  IInv'
<1> USE DEF IInv
<1>1. /\ gone' \subseteq Clients
      /\ \/ got' = got
         \/ \E n \in Drawn : \E lines \in Answers(n) : got' = [got EXCEPT ![c] = lines]
      /\ UNCHANGED <<stream, target, written, failed, raced, listening, msgtmp, msgtmp2, outbox, dht>>
      /\ UNCHANGED <<havedata, pushed, pc, next, asked, seen, restarts, lost>>
  BY DEF GetKeys, Nowhere, Ask, callvars, loopvars, TypeOK
<1>2. got' \in [Clients -> Seq(Lines)] /\ \A d \in Clients : IsInjective(got'[d])
  <2>1. CASE got' = got
    BY <2>1 DEF TypeOK, Origin
  <2>2. CASE got' # got
    <3>1. PICK n \in Drawn : \E lines \in Answers(n) : got' = [got EXCEPT ![c] = lines]
      BY <1>1, <2>2
    <3> PICK lines \in Answers(n) : got' = [got EXCEPT ![c] = lines]
      BY <3>1
    <3>2. lines \in Seq(Lines) /\ IsInjective(lines)
      BY AnswersInjective
    <3> QED BY <3>2 DEF TypeOK, Origin
  <2> QED BY <2>1, <2>2
<1>3. TypeOK'
  BY <1>1, <1>2 DEF TypeOK
<1>4. \A n \in Infos : (Streamed(n) \/ Gathered(n))'
  BY <1>1, NodeKept DEF Origin
<1>5. Begun' /\ Reaches'
  BY <1>1 DEF Origin, Begun, Reaches
<1>6. Origin'
  BY <1>1, <1>2, <1>4, <1>5 DEF Origin
<1> QED BY <1>3, <1>6
-----------------------------------------------------------------------------
LEMMA InvStep == IInv /\ [Next]_vars => IInv'
<1> SUFFICES ASSUME IInv, [Next]_vars PROVE IInv'
  OBVIOUS
<1>1. CASE ChooseInfo
  BY <1>1, ChooseInfoStep
<1>2. CASE Write
  BY <1>2, WriteStep
<1>3. CASE Break
  BY <1>3, BreakStep
<1>4. ASSUME NEW n \in Infos, DhtStart(n) PROVE IInv'
  BY <1>4, CopyStep, ClearStep, IdleStep, PutStep, FoundStep, GotStep DEF DhtStart
<1>5. ASSUME NEW n \in Infos, Listen(n) \/ Restart(n) PROVE IInv'
  BY <1>5, ListenStep, RestartStep
<1>6. ASSUME NEW c \in Clients, GetKeys(c) PROVE IInv'
  BY <1>6, GetKeysStep
<1>7. CASE UNCHANGED vars
  <2>1. /\ UNCHANGED <<stream, target, written, failed, raced, listening, msgtmp, msgtmp2, outbox, dht>>
        /\ UNCHANGED <<havedata, pushed, pc, next, asked, seen, got, gone, restarts, lost>>
    BY <1>7 DEF vars, callvars, loopvars, clientvars
  <2>2. TypeOK'
    BY <2>1 DEF IInv, TypeOK
  <2>3. \A n \in Infos : (Streamed(n) \/ Gathered(n))'
    BY <2>1, NodeKept DEF IInv, Origin
  <2> QED BY <2>1, <2>2, <2>3 DEF IInv, Origin, Begun, Reaches
<1> QED BY <1>1, <1>2, <1>3, <1>4, <1>5, <1>6, <1>7 DEF Next

LEMMA InvImplies == IInv => OncePerKey
<1> SUFFICES ASSUME IInv PROVE OncePerKey
  OBVIOUS
<1>1. TypeOK /\ Origin
  BY DEF IInv
<1>2. ASSUME NEW n \in Infos PROVE IsInjective(outbox[n] \o msgtmp[n])
  <2>1. CASE Streamed(n)
    BY <2>1 DEF Streamed, Sent
  <2>2. CASE Gathered(n)
    <3>1. outbox[n] \in Seq(Lines) /\ msgtmp[n] = <<>> /\ IsInjective(outbox[n])
      BY <1>1, <2>2 DEF TypeOK, Gathered
    <3>2. outbox[n] \o msgtmp[n] = outbox[n]
      BY <3>1, ConcatEmptySeq
    <3> QED BY <3>1, <3>2
  <2> QED BY <1>1, <2>1, <2>2 DEF Origin
<1> QED BY <1>1, <1>2 DEF Origin, OncePerKey

LEMMA InvSafe == Spec => []IInv
BY InvInit, InvStep, PTL DEF Spec

\* The variables of the info nodes keep their types; in particular the key that is
\* put next is one that is there (infonode.cpp 128-136).
THEOREM TypeCorrect == Spec => []TypeOK
<1>1. IInv => TypeOK
  BY DEF IInv
<1> QED BY <1>1, InvSafe, PTL

\* However the stream, the loops, the DHT's calls and the restarts interleave, and
\* whatever the DHT loses: no info node serves a key line twice, none is put into
\* the DHT twice, and no client gets one twice (infonode.cpp 89-148).
THEOREM OnceCorrect == Spec => []OncePerKey
BY InvImplies, InvSafe, PTL
-----------------------------------------------------------------------------
\* Until an info node is started again, the node of the stream has every line that
\* arrived, in order, taken out of msgtmp or not, unless one arrived between a copy
\* and its clear; and all lines have when the stream is over, unless the call failed.
\* What the DHT loses, what other nodes find and what clients ask costs it none.
KeepsAll ==
    restarts = 0 /\ target \in Infos =>
      /\ ~raced => outbox[target] \o msgtmp[target] = Prefix(written)
      /\ stream = "over" /\ ~failed => written = Len(Ipspub)

\* A stream that was neither refused nor broken ends with the list.
Complete == stream = "over" /\ target # None /\ ~failed => written = Len(Ipspub)

LEMMA CompleteStep == TypeOK /\ Complete /\ [Next]_vars => Complete'
<1> SUFFICES ASSUME TypeOK, Complete, [Next]_vars PROVE Complete'
  OBVIOUS
<1>1. ASSUME UNCHANGED callvars PROVE Complete'
  BY <1>1 DEF callvars, Complete
<1>2. CASE ChooseInfo
  BY <1>2 DEF ChooseInfo, Complete
<1>3. CASE Write
  <2>1. stream' = "over" => written' = Len(Ipspub)
    BY <1>3, Lists DEF Write, TypeOK
  <2> QED BY <2>1 DEF Complete
<1>4. CASE Break
  BY <1>4 DEF Break, Complete
<1>5. ASSUME NEW n \in Infos, DhtStart(n) PROVE Complete'
  BY <1>1, <1>5 DEF DhtStart, Copy, Clear, Idle, Put, Found, Got
<1>6. ASSUME NEW n \in Infos, Listen(n) PROVE Complete'
  BY <1>1, <1>6 DEF Listen
<1>7. ASSUME NEW n \in Infos, Restart(n) PROVE Complete'
  BY <1>7 DEF Restart, Complete, TypeOK
<1>8. ASSUME NEW c \in Clients, GetKeys(c) PROVE Complete'
  BY <1>1, <1>8 DEF GetKeys, Nowhere, Ask
<1>9. CASE UNCHANGED vars
  BY <1>1, <1>9 DEF vars
<1> QED BY <1>2, <1>3, <1>4, <1>5, <1>6, <1>7, <1>8, <1>9 DEF Next

\* For any info nodes, clients, key lines, losses and broken calls: the node the
\* stream goes to keeps the mixer's list as far as it arrived, and the only ways to
\* less than the whole list are a call that fails, a line between a copy and its
\* clear and a restart; the part of TargetServesAll that needs no fairness
\* (Mixer.cpp 207-225, infonode.cpp 97-118).
THEOREM KeptCorrect == Spec => []KeepsAll
<1>1. Init => Complete
  BY DEF Init, Complete
<1>2. IInv /\ Complete /\ [Next]_vars => Complete'
  BY CompleteStep DEF IInv
<1>3. IInv /\ Complete => KeepsAll
  <2> SUFFICES ASSUME IInv, Complete, restarts = 0, target \in Infos
               PROVE  /\ ~raced => outbox[target] \o msgtmp[target] = Prefix(written)
                      /\ stream = "over" /\ ~failed => written = Len(Ipspub)
    BY DEF KeepsAll
  <2>1. ~Gathered(target) /\ target # None
    BY Lists DEF Gathered
  <2>2. Streamed(target)
    BY <2>1 DEF IInv, Origin
  <2> QED BY <2>1, <2>2 DEF Streamed, Sent, Complete
<1> QED BY <1>1, <1>2, <1>3, InvSafe, PTL DEF Spec
=============================================================================
