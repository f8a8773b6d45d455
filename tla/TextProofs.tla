----------------------------- MODULE TextProofs -----------------------------
(***************************************************************************)
(* The texts, for every length, content and constant: when a key line, a   *)
(* packet, an envelope and a mail come out as they went in, and which of a *)
(* configuration file's addresses are used.                                *)
(***************************************************************************)
EXTENDS PacketText, Envelope, ConfigFile, EmailText, SequenceTheorems, FiniteSetTheorems,
        WellFoundedInduction, TLAPS

\* Least and greatest of a set of numbers; find and SelectInSeq look for them.
LEMMA LeastNatural ==
  ASSUME NEW T, T \subseteq Nat, T # {}
  PROVE  \E x \in T : \A y \in T : ~(y < x)
<1>1. PICK x \in T : \A y \in T : ~(<<y, x>> \in OpToRel(<, Nat))
  BY WFMin, NatLessThanWellFounded
<1>2. ASSUME NEW y \in T, y < x PROVE <<y, x>> \in OpToRel(<, Nat)
  BY <1>2 DEF OpToRel
<1> QED BY <1>1, <1>2

LEMMA MinIsLeast ==
  ASSUME NEW T, T \subseteq Nat, T # {}
  PROVE  Min(T) \in T /\ \A y \in T : Min(T) <= y
<1>1. PICK x \in T : \A y \in T : ~(y < x)
  BY LeastNatural
<1>2. \A y \in T : x <= y
  BY <1>1
<1>3. \E z \in T : \A y \in T : z <= y
  BY <1>2
<1> QED BY <1>3, Zenon DEF Min

LEMMA MaxIsGreatest ==
  ASSUME NEW T, T \subseteq Nat, NEW x \in T, \A y \in T : y <= x
  PROVE  Max(T) = x
<1>1. \A y \in T : x >= y
  OBVIOUS
<1>2. Max(T) \in T /\ \A y \in T : Max(T) >= y
  BY <1>1, Zenon DEF Max
<1>3. PICK z \in T : z = Max(T)
  BY <1>2
<1>4. z >= x /\ z <= x
  BY <1>2, <1>3
<1> QED BY <1>3, <1>4

LEMMA LeastIsMin ==
  ASSUME NEW T, T \subseteq Nat, NEW x \in T, \A y \in T : x <= y
  PROVE  Min(T) = x
<1>2. Min(T) \in T /\ \A y \in T : Min(T) <= y
  BY MinIsLeast
<1>3. PICK z \in T : z = Min(T)
  BY <1>2
<1>4. z <= x /\ x <= z
  BY <1>2, <1>3
<1> QED BY <1>3, <1>4
-----------------------------------------------------------------------------
(***************************************************************************)
(* Key lines.  For keys of any length that is no more than the token's,    *)
(* and any addresses, a line is read for what its mixer wrote if and only  *)
(* if the key does not end in an underscore.  The window in which find     *)
(* looks for the token is as long as a key: before the key's end it always *)
(* covers the key's last byte.                                             *)
(***************************************************************************)
LEMMA Lengths == /\ KeyLength \in Nat /\ KeyLength # 0 /\ KeyLength <= TokenLength
                 /\ TokenLength \in Nat
BY KeyAssumption, Zenon

LEMMA Texts == KeyTexts \subseteq [1 .. KeyLength -> Symbols] /\ Underscore \in Symbols
BY KeyAssumption, Zenon

LEMMA KeyIsSeq == \A k \in KeyTexts : k \in Seq(Symbols) /\ Len(k) = KeyLength
<1> SUFFICES ASSUME NEW k \in KeyTexts PROVE k \in Seq(Symbols) /\ Len(k) = KeyLength
  OBVIOUS
<1>1. k \in [1 .. KeyLength -> Symbols]
  BY Texts
<1> QED BY <1>1, Lengths

LEMMA TokenIsSeq == /\ Token \in Seq(Symbols) /\ Len(Token) = TokenLength
                    /\ \A i \in 1 .. TokenLength : Token[i] = Underscore
<1>1. Token \in [1 .. TokenLength -> Symbols]
  BY Texts DEF Token
<1>2. Token \in Seq(Symbols) /\ Len(Token) = TokenLength
  BY <1>1, Lengths
<1>3. \A i \in 1 .. TokenLength : Token[i] = Underscore
  BY DEF Token
<1> QED BY <1>2, <1>3

\* The bytes of a line: the key's, underscores, and the address's.
LEMMA LineBytes ==
  ASSUME NEW k \in KeyTexts, NEW ip \in Seq(Symbols)
  PROVE  LET line == setupkey(k, ip) IN
           /\ line \in Seq(Symbols)
           /\ Len(line) = KeyLength + TokenLength + Len(ip)
           /\ \A i \in 1 .. KeyLength : line[i] = k[i]
           /\ \A i \in KeyLength + 1 .. KeyLength + TokenLength : line[i] = Underscore
           /\ \A i \in 1 .. Len(ip) : line[KeyLength + TokenLength + i] = ip[i]
<1>1. k \in Seq(Symbols) /\ Len(k) = KeyLength
  BY KeyIsSeq
<1>2. Token \in Seq(Symbols) /\ Len(Token) = TokenLength
  BY TokenIsSeq
<1>3. \A i \in 1 .. TokenLength : Token[i] = Underscore
  BY TokenIsSeq
<1>4. k \o Token \in Seq(Symbols) /\ Len(k \o Token) = KeyLength + TokenLength
  BY <1>1, <1>2, ConcatProperties
<1>5. \A i \in 1 .. KeyLength + TokenLength :
        (k \o Token)[i] = IF i <= KeyLength THEN k[i] ELSE Token[i - KeyLength]
  BY <1>1, <1>2, ConcatProperties
<1>6. /\ setupkey(k, ip) \in Seq(Symbols)
      /\ Len(setupkey(k, ip)) = KeyLength + TokenLength + Len(ip)
  BY <1>4, ConcatProperties DEF setupkey
<1>7. \A i \in 1 .. KeyLength + TokenLength + Len(ip) :
        setupkey(k, ip)[i] = IF i <= KeyLength + TokenLength THEN (k \o Token)[i]
                             ELSE ip[i - (KeyLength + TokenLength)]
  BY <1>4, ConcatProperties DEF setupkey
<1>l. Len(ip) \in Nat
  BY LenProperties
<1>8. ASSUME NEW i \in 1 .. KeyLength PROVE setupkey(k, ip)[i] = k[i]
  <2>1. i \in 1 .. KeyLength + TokenLength /\ i \in 1 .. KeyLength + TokenLength + Len(ip)
    BY <1>l, Lengths
  <2>2. setupkey(k, ip)[i] = (k \o Token)[i]
    <3>1. setupkey(k, ip)[i] = IF i <= KeyLength + TokenLength THEN (k \o Token)[i]
                               ELSE ip[i - (KeyLength + TokenLength)]
      BY <2>1, <1>7
    <3>2. i <= KeyLength + TokenLength
      BY <2>1, Lengths
    <3> QED BY <3>1, <3>2
  <2>3. (k \o Token)[i] = k[i]
    <3>1. (k \o Token)[i] = IF i <= KeyLength THEN k[i] ELSE Token[i - KeyLength]
      BY <2>1, <1>5
    <3> QED BY <3>1, Lengths
  <2> QED BY <2>2, <2>3
<1>9. ASSUME NEW i \in KeyLength + 1 .. KeyLength + TokenLength
      PROVE  setupkey(k, ip)[i] = Underscore
  <2>1. /\ i \in 1 .. KeyLength + TokenLength /\ i \in 1 .. KeyLength + TokenLength + Len(ip)
        /\ i - KeyLength \in 1 .. TokenLength /\ ~(i <= KeyLength)
    BY <1>l, Lengths
  <2>2. setupkey(k, ip)[i] = (k \o Token)[i]
    <3>1. setupkey(k, ip)[i] = IF i <= KeyLength + TokenLength THEN (k \o Token)[i]
                               ELSE ip[i - (KeyLength + TokenLength)]
      BY <2>1, <1>7
    <3>2. i <= KeyLength + TokenLength
      BY <2>1, Lengths
    <3> QED BY <3>1, <3>2
  <2>3. (k \o Token)[i] = Token[i - KeyLength]
    BY <2>1, <1>5, Lengths
  <2> QED BY <2>1, <2>2, <2>3, <1>3
<1>10. ASSUME NEW i \in 1 .. Len(ip)
       PROVE  setupkey(k, ip)[KeyLength + TokenLength + i] = ip[i]
  <2> DEFINE j == KeyLength + TokenLength + i
  <2>1. /\ j \in 1 .. KeyLength + TokenLength + Len(ip) /\ ~(j <= KeyLength + TokenLength)
        /\ j - (KeyLength + TokenLength) = i
    BY <1>l, Lengths
  <2>2. setupkey(k, ip)[j] = IF j <= KeyLength + TokenLength THEN (k \o Token)[j]
                             ELSE ip[j - (KeyLength + TokenLength)]
    BY <2>1, <1>7
  <2> QED BY <2>1, <2>2
<1> QED BY <1>6, <1>8, <1>9, <1>10

\* Where the token is: as many underscores as it has.
LEMMA AtUnderscores ==
  ASSUME NEW line \in Seq(Symbols), NEW p \in 1 .. Len(line)
  PROVE  IsAt(line, p) <=>
           /\ p + TokenLength - 1 <= Len(line)
           /\ \A i \in 1 .. TokenLength : line[p + i - 1] = Underscore
<1>1. Token \in Seq(Symbols) /\ Len(Token) = TokenLength /\ \A i \in 1 .. TokenLength : Token[i] = Underscore
  BY TokenIsSeq
<1>2. Len(line) \in Nat
  BY LenProperties
<1>3. ASSUME p + TokenLength - 1 <= Len(line)
      PROVE  LET w == SubSeq(line, p, p + TokenLength - 1) IN
               /\ w \in Seq(Symbols) /\ Len(w) = TokenLength
               /\ \A i \in 1 .. TokenLength : w[i] = line[p + i - 1]
  BY <1>2, <1>3, SubSeqProperties, Lengths
<1>4. ASSUME p + TokenLength - 1 <= Len(line), \A i \in 1 .. TokenLength : line[p + i - 1] = Underscore
      PROVE  SubSeq(line, p, p + TokenLength - 1) = Token
  <2> DEFINE w == SubSeq(line, p, p + TokenLength - 1)
  <2>1. w \in Seq(Symbols) /\ Len(w) = Len(Token) /\ \A i \in 1 .. Len(w) : w[i] = Token[i]
    BY <1>1, <1>3, <1>4
  <2> HIDE DEF w
  <2>2. w = Token
    BY <2>1, <1>1, SeqEqual
  <2> QED BY <2>2 DEF w
<1> QED BY <1>1, <1>3, <1>4 DEF IsAt

\* find returns the first place when there is one.
LEMMA FindFirst ==
  ASSUME NEW line \in Seq(Symbols), NEW p \in 1 .. Len(line), IsAt(line, p),
         \A q \in 1 .. p - 1 : ~IsAt(line, q)
  PROVE  Find(line) = p
<1>1. DOMAIN line = 1 .. Len(line) /\ Len(line) \in Nat
  BY LenProperties
<1>2. \A r \in DOMAIN line :
        IsAt(line, r) /\ (\A q \in 1 .. r - 1 : ~IsAt(line, q)) => r = p
  <2> SUFFICES ASSUME NEW r \in 1 .. Len(line), IsAt(line, r), \A q \in 1 .. r - 1 : ~IsAt(line, q)
               PROVE  r = p
    BY <1>1
  <2>1. ~(r < p) /\ ~(p < r)
    BY <1>1
  <2> QED BY <2>1, <1>1
<1> QED BY <1>1, <1>2 DEF Find

LEMMA ReadsBackIff ==
  ASSUME NEW k \in KeyTexts, NEW ip \in Seq(Symbols), ip # <<>>, ip[1] # Underscore
  PROVE  /\ ReadsBack(k, ip) <=> k[KeyLength] # Underscore
         /\ Deserialises(getkeyfromtxt(setupkey(k, ip)).pub) <=> k[KeyLength] # Underscore
<1> DEFINE line == setupkey(k, ip)
<1>l. /\ line \in Seq(Symbols)
      /\ Len(line) = KeyLength + TokenLength + Len(ip)
      /\ \A i \in 1 .. KeyLength : line[i] = k[i]
      /\ \A i \in KeyLength + 1 .. KeyLength + TokenLength : line[i] = Underscore
      /\ \A i \in 1 .. Len(ip) : line[KeyLength + TokenLength + i] = ip[i]
  BY LineBytes
<1>i. Len(ip) \in Nat \ {0}
  BY LenProperties, EmptySeq
<1>t. Token \in Seq(Symbols) /\ Len(Token) = TokenLength
  BY TokenIsSeq
<1>k. k \in Seq(Symbols) /\ Len(k) = KeyLength
  BY KeyIsSeq
<1> HIDE DEF line
<1>a. IsAt(line, KeyLength + 1)
  <2>1. ASSUME NEW i \in 1 .. TokenLength PROVE line[(KeyLength + 1) + i - 1] = Underscore
    <3>1. (KeyLength + 1) + i - 1 \in KeyLength + 1 .. KeyLength + TokenLength
      BY Lengths
    <3> QED BY <3>1, <1>l
  <2>2. /\ KeyLength + 1 \in 1 .. Len(line)
        /\ (KeyLength + 1) + TokenLength - 1 <= Len(line)
    BY <1>l, <1>i, Lengths
  <2> QED BY <2>1, <2>2, <1>l, AtUnderscores
<1>1. ASSUME k[KeyLength] # Underscore PROVE ReadsBack(k, ip)
  <2>1. ASSUME NEW q \in 1 .. KeyLength PROVE ~IsAt(line, q)
    <3>1. KeyLength - q + 1 \in 1 .. TokenLength /\ q + (KeyLength - q + 1) - 1 = KeyLength
      BY Lengths
    <3>2. line[q + (KeyLength - q + 1) - 1] # Underscore
      BY <3>1, <1>1, <1>l, Lengths
    <3>3. q \in 1 .. Len(line)
      BY <1>l, <1>i, Lengths
    <3>4. ~(\A i \in 1 .. TokenLength : line[q + i - 1] = Underscore)
      BY <3>1, <3>2
    <3> QED BY <3>3, <3>4, <1>l, AtUnderscores
  <2>2. Find(line) = KeyLength + 1
    BY <2>1, <1>a, <1>l, <1>i, Lengths, FindFirst
  <2>3. SubSeq(line, 1, KeyLength) = k
    <3> DEFINE s == SubSeq(line, 1, KeyLength)
    <3>1. s \in Seq(Symbols) /\ Len(s) = Len(k) /\ \A i \in 1 .. Len(s) : s[i] = k[i]
      BY <1>l, <1>i, <1>k, Lengths, SubSeqProperties
    <3> HIDE DEF s
    <3>2. s = k
      BY <3>1, <1>k, SeqEqual
    <3> QED BY <3>2 DEF s
  <2>4. SubSeq(line, KeyLength + 1 + TokenLength, Len(line)) = ip
    <3> DEFINE s == SubSeq(line, KeyLength + 1 + TokenLength, Len(line))
    <3>1. s \in Seq(Symbols) /\ Len(s) = Len(ip)
      BY <1>l, <1>i, Lengths, SubSeqProperties
    <3>2. \A i \in 1 .. Len(s) : s[i] = line[KeyLength + 1 + TokenLength + i - 1]
      BY <1>l, <1>i, Lengths, SubSeqProperties
    <3>3. \A i \in 1 .. Len(s) : KeyLength + 1 + TokenLength + i - 1 = KeyLength + TokenLength + i
      BY <3>1, <1>i, Lengths
    <3>4. \A i \in 1 .. Len(s) : s[i] = ip[i]
      BY <3>1, <3>2, <3>3, <1>l
    <3> HIDE DEF s
    <3>5. s = ip
      BY <3>1, <3>4, SeqEqual
    <3> QED BY <3>5 DEF s
  <2>5. (KeyLength + 1) - 1 = KeyLength
    BY Lengths
  <2> QED BY <2>2, <2>3, <2>4, <2>5, <1>t DEF ReadsBack, getkeyfromtxt, line
<1>2. ASSUME k[KeyLength] = Underscore
      PROVE  ~ReadsBack(k, ip) /\ ~Deserialises(getkeyfromtxt(setupkey(k, ip)).pub)
  <2>1. IsAt(line, KeyLength)
    <3>1. ASSUME NEW i \in 1 .. TokenLength PROVE line[KeyLength + i - 1] = Underscore
      <4>1. CASE i = 1
        BY <4>1, <1>2, <1>l, Lengths
      <4>2. CASE i # 1
        <5>1. KeyLength + i - 1 \in KeyLength + 1 .. KeyLength + TokenLength
          BY <4>2, Lengths
        <5> QED BY <5>1, <1>l
      <4> QED BY <4>1, <4>2
    <3>2. KeyLength \in 1 .. Len(line) /\ KeyLength + TokenLength - 1 <= Len(line)
      BY <1>l, <1>i, Lengths
    <3> QED BY <3>1, <3>2, <1>l, AtUnderscores
  <2>2. PICK p \in 1 .. KeyLength : IsAt(line, p) /\ \A q \in 1 .. p - 1 : ~IsAt(line, q)
    <3> DEFINE P == {q \in 1 .. KeyLength : IsAt(line, q)}
    <3>1. P \subseteq Nat /\ P # {}
      BY <2>1, Lengths
    <3>2. PICK x \in P : \A y \in P : ~(y < x)
      BY <3>1, LeastNatural
    <3>3. \A q \in 1 .. x - 1 : q \in 1 .. KeyLength /\ q < x
      BY Lengths
    <3> QED BY <3>2, <3>3
  <2>3. Find(line) = p
    BY <2>2, <1>l, <1>i, Lengths, FindFirst
  <2>4. Len(SubSeq(line, 1, p - 1)) = p - 1
    BY <1>l, <1>i, Lengths, SubSeqProperties
  <2>5. SubSeq(line, 1, p - 1) # k
    BY <2>4, <1>k, Lengths
  <2>6. ~(Len(SubSeq(line, 1, p - 1)) >= KeyLength)
    BY <2>4, Lengths
  <2>7. getkeyfromtxt(line).pub = SubSeq(line, 1, p - 1)
    BY <2>3 DEF getkeyfromtxt
  <2> QED BY <2>5, <2>6, <2>7 DEF ReadsBack, Deserialises, line
<1>3. ReadsBack(k, ip) => Deserialises(getkeyfromtxt(setupkey(k, ip)).pub)
  BY <1>k, Lengths DEF ReadsBack, Deserialises
<1> QED BY <1>1, <1>2, <1>3

\* For any keys and addresses, and whatever becomes of the packets, every line
\* is read back if and only if its key does not end in an underscore.
THEOREM LinesCorrect == PacketSpec => []LinesReadBack
<1> DEFINE Keys == keys \in [ToSet(Path) -> KeyTexts]
<1>1. PacketInit => Keys
  BY DEF PacketInit
<1>2. Keys /\ [PacketNext]_packetvars => Keys'
  BY DEF PacketNext, ReadLines, Seal, AttachToMixer, Peel, packetvars
<1>3. Keys => LinesReadBack
  <2> SUFFICES ASSUME Keys, NEW m \in ToSet(Path)
               PROVE  ReadsBack(keys[m], Address[m]) <=> keys[m][KeyLength] # Underscore
    BY DEF LinesReadBack
  <2>1. keys[m] \in KeyTexts
    OBVIOUS
  <2>2. Address[m] \in Seq(Symbols) /\ Address[m] # <<>> /\ Address[m][1] # Underscore
    BY AddressAssumption DEF Nodes
  <2> QED BY <2>1, <2>2, ReadsBackIff
<1> HIDE DEF Keys
<1> QED BY <1>1, <1>2, <1>3, PTL DEF PacketSpec
-----------------------------------------------------------------------------
(***************************************************************************)
(* The envelope.  An array of bytes is what the first bytes at its string  *)
(* are, unless an earlier zero cut the string; so the invariant keeps what *)
(* pkg_encrypt made of nonce and ciphertext.                               *)
(***************************************************************************)
\* The terminator is found at the first zero.
LEMMA FirstZero ==
  ASSUME NEW t \in Seq(Byte), NEW n \in 1 .. Len(t), t[n] = Zero
  PROVE  \E p \in 1 .. Len(t) : /\ SelectInSeq(t, LAMBDA b : b = Zero) = p
                                /\ t[p] = Zero /\ \A j \in 1 .. Len(t) : j < p => t[j] # Zero
<1> DEFINE I == {i \in 1 .. Len(t) : t[i] = Zero}
<1>1. I \subseteq Nat /\ I # {}
  OBVIOUS
<1>2. Min(I) \in I /\ \A y \in I : Min(I) <= y
  <2> HIDE DEF I
  <2> QED BY <1>1, MinIsLeast
<1>3. SelectInSeq(t, LAMBDA b : b = Zero) = Min(I)
  BY <1>1 DEF SelectInSeq
<1>4. /\ Min(I) \in 1 .. Len(t) /\ t[Min(I)] = Zero
      /\ \A j \in 1 .. Len(t) : j < Min(I) => t[j] # Zero
  <2>1. PICK q \in I : q = Min(I) /\ \A y \in I : q <= y
    BY <1>2
  <2>2. \A j \in 1 .. Len(t) : j < q => t[j] # Zero
    BY <2>1
  <2> QED BY <2>1, <2>2
<1> QED BY <1>3, <1>4, Zenon

\* An array without an earlier zero is read back from its string.
LEMMA WholeIsKept ==
  ASSUME NEW N \in Nat \ {0}, NEW s \in [1 .. N -> Byte], Whole(s),
         NEW behind \in {<<>>, <<"other">>}
  PROVE  Bytes(CString(s, behind), N) = s
<1> DEFINE t == s \o behind \o <<Zero>>
<1>1. s \in Seq(Byte) /\ Len(s) = N
  OBVIOUS
<1>2. behind \in Seq(Byte) /\ Len(behind) \in Nat /\ <<Zero>> \in Seq(Byte) /\ Len(<<Zero>>) = 1
  <2>1. behind = <<>> \/ behind = <<"other">>
    OBVIOUS
  <2>2. <<>> \in Seq(Byte) /\ Len(<<>>) = 0 /\ <<"other">> \in Seq(Byte) /\ Len(<<"other">>) = 1
    BY DEF Byte
  <2>3. <<Zero>> \in Seq(Byte) /\ Len(<<Zero>>) = 1
    BY DEF Byte
  <2> QED BY <2>1, <2>2, <2>3
<1>3. s \o behind \in Seq(Byte) /\ Len(s \o behind) = N + Len(behind)
      /\ \A i \in 1 .. N : (s \o behind)[i] = s[i]
  BY <1>1, <1>2, ConcatProperties
<1>4. /\ t \in Seq(Byte) /\ Len(t) = N + Len(behind) + 1
      /\ \A i \in 1 .. N : t[i] = s[i]
      /\ t[N + Len(behind) + 1] = Zero
  <2> DEFINE u == s \o behind
  <2>1. u \in Seq(Byte) /\ Len(u) = N + Len(behind) /\ \A i \in 1 .. N : u[i] = s[i]
    BY <1>3
  <2> HIDE DEF u
  <2>2. u \o <<Zero>> \in Seq(Byte) /\ Len(u \o <<Zero>>) = Len(u) + 1
    BY <1>2, <2>1, ConcatProperties
  <2>3. \A i \in 1 .. Len(u) : (u \o <<Zero>>)[i] = u[i]
    BY <1>2, <2>1, ConcatProperties
  <2>4. (u \o <<Zero>>)[Len(u) + 1] = Zero
    BY <1>2, <2>1, ConcatProperties
  <2> QED BY <1>2, <2>1, <2>2, <2>3, <2>4 DEF u
<1> HIDE DEF t
<1>5. PICK p \in 1 .. Len(t) : /\ SelectInSeq(t, LAMBDA b : b = Zero) = p
                              /\ t[p] = Zero /\ \A j \in 1 .. Len(t) : j < p => t[j] # Zero
  <2>1. N + Len(behind) + 1 \in 1 .. Len(t)
    BY <1>2, <1>4
  <2> QED BY <1>4, <2>1, FirstZero
<1>6. p >= N
  BY <1>1, <1>2, <1>4, <1>5 DEF Whole
<1> DEFINE c == SubSeq(t, 1, p - 1)
<1>7. CString(s, behind) = c
  BY <1>5 DEF CString, t
<1>8. Len(c) = p - 1 /\ \A i \in 1 .. p - 1 : c[i] = t[i]
  BY <1>4, <1>5, SubSeqProperties
<1> HIDE DEF c
<1>9. ASSUME NEW i \in 1 .. N
      PROVE  (IF i <= Len(c) THEN c[i] ELSE IF i = Len(c) + 1 THEN Zero ELSE Unknown) = s[i]
  <2>1. CASE i <= p - 1
    BY <1>4, <1>8, <2>1
  <2>2. CASE ~(i <= p - 1)
    BY <1>4, <1>5, <1>6, <1>8, <2>2
  <2> QED BY <2>1, <2>2
<1>10. Bytes(c, N) = s
  BY <1>9 DEF Bytes
<1> QED BY <1>7, <1>10
-----------------------------------------------------------------------------
\* What pkg_encrypt made of nonce and ciphertext, until pkg_decrypt reads it.
Sealed ==
    \E len \in 0 .. MaxLength, behind \in {<<>>, <<"other">>} :
      /\ nonce \in [1 .. NonceBytes -> Byte] /\ ciphertext \in [1 .. MacBytes + len -> Byte]
      /\ contents = <<[nonce |-> CString(nonce, behind), ciphertext |-> CString(ciphertext, behind),
                       ciphersize |-> Bitset(MacBytes + len)]>>

EnvelopeInv ==
    /\ contents = <<>> => opened = ""
    /\ contents # <<>> => Sealed
    /\ OpensUnlessCut

LEMMA Sizing == \A n \in Nat : n % Sizes \in Nat /\ n % Sizes < Sizes /\ (n < Sizes => n % Sizes = n)
BY EnvelopeAssumption

LEMMA DecryptOpens ==
  ASSUME EnvelopeInv, pkg_decrypt
  PROVE  OpensUnlessCut'
<1>1. contents # <<>> /\ UNCHANGED <<nonce, ciphertext, contents>>
  BY DEF pkg_decrypt
<1>2. PICK len \in 0 .. MaxLength, behind \in {<<>>, <<"other">>} :
        /\ nonce \in [1 .. NonceBytes -> Byte] /\ ciphertext \in [1 .. MacBytes + len -> Byte]
        /\ contents = <<[nonce |-> CString(nonce, behind), ciphertext |-> CString(ciphertext, behind),
                         ciphersize |-> Bitset(MacBytes + len)]>>
  BY <1>1 DEF EnvelopeInv, Sealed
<1> DEFINE N == MacBytes + len
           n == Bytes(CString(nonce, behind), NonceBytes)
           t == Bytes(CString(ciphertext, behind), Bitset(N))
<1>3. /\ Head(contents).nonce = CString(nonce, behind)
      /\ Head(contents).ciphertext = CString(ciphertext, behind)
      /\ Head(contents).ciphersize = Bitset(N)
  BY <1>2
<1>4. \/ n = nonce /\ t = ciphertext /\ opened' = "message"
      \/ <<n, t>> # <<nonce, ciphertext>> /\ opened' = "nothing"
      \/ Agrees(n, nonce) /\ Agrees(t, ciphertext) /\ opened' = "message"
  BY <1>3, Zenon DEF pkg_decrypt
<1>5. N \in Nat \ {0} /\ NonceBytes \in Nat \ {0} /\ Bitset(N) \in Nat /\ Bitset(N) < Sizes
      /\ (N < Sizes => Bitset(N) = N)
  <2>1. MacBytes \in Nat \ {0} /\ NonceBytes \in Nat \ {0} /\ MaxLength \in Nat
    BY EnvelopeAssumption
  <2>2. N \in Nat \ {0}
    BY <2>1
  <2> HIDE DEF N
  <2> QED BY <2>1, <2>2, Sizing DEF Bitset
<1>6. Len(ciphertext) = N
  BY <1>2, <1>5
<1>7. Len(t) = Bitset(N)
  BY <1>5 DEF Bytes
<1>8. ASSUME N < Sizes, Whole(nonce), Whole(ciphertext) PROVE n = nonce /\ t = ciphertext
  <2>1. n = nonce
    BY <1>2, <1>5, <1>8, WholeIsKept
  <2>2. Bytes(CString(ciphertext, behind), N) = ciphertext
    BY <1>2, <1>5, <1>8, WholeIsKept
  <2> QED BY <1>5, <1>8, <2>1, <2>2
<1>9. ASSUME t = ciphertext \/ Agrees(t, ciphertext) PROVE N < Sizes
  <2>1. Len(t) = Len(ciphertext)
    BY <1>9 DEF Agrees
  <2> QED BY <1>5, <1>6, <1>7, <2>1
<1> HIDE DEF N, n, t
<1>10. N < Sizes /\ Whole(nonce) /\ Whole(ciphertext) => opened' = "message"
  BY <1>4, <1>8
<1>11. opened' = "message" => N < Sizes
  BY <1>4, <1>9
<1>12. ciphertext' = ciphertext /\ nonce' = nonce /\ Len(ciphertext) = N
  BY <1>1, <1>6
<1> QED BY <1>10, <1>11, <1>12 DEF OpensUnlessCut

\* For any sizes of nonce, tag, envelope and message: an envelope opens when
\* neither array has an early zero and the size fits, and never when it does
\* not fit.
THEOREM EnvelopeCorrect == EnvelopeSpec => []OpensUnlessCut
<1>1. EnvelopeInit => EnvelopeInv
  BY DEF EnvelopeInit, EnvelopeInv, OpensUnlessCut
<1>2. EnvelopeInv /\ [EnvelopeNext]_envelopevars => EnvelopeInv'
  <2> SUFFICES ASSUME EnvelopeInv, [EnvelopeNext]_envelopevars PROVE EnvelopeInv'
    OBVIOUS
  <2>1. CASE pkg_encrypt
    <3>1. PICK len \in 0 .. MaxLength, behind \in {<<>>, <<"other">>} :
            /\ nonce' \in [1 .. NonceBytes -> Byte] /\ ciphertext' \in [1 .. MacBytes + len -> Byte]
            /\ contents' = <<[nonce |-> CString(nonce', behind), ciphertext |-> CString(ciphertext', behind),
                              ciphersize |-> Bitset(MacBytes + len)]>>
      BY <2>1, Zenon DEF pkg_encrypt
    <3>2. Sealed'
      BY <3>1, Zenon DEF Sealed
    <3>3. contents' # <<>>
      BY <3>1
    <3>4. opened' = ""
      BY <2>1 DEF pkg_encrypt, EnvelopeInv
    <3> QED BY <3>2, <3>3, <3>4 DEF EnvelopeInv, OpensUnlessCut
  <2>2. CASE pkg_decrypt
    <3>1. contents # <<>> /\ UNCHANGED <<nonce, ciphertext, contents>>
      BY <2>2 DEF pkg_decrypt
    <3>2. OpensUnlessCut'
      BY <2>2, DecryptOpens
    <3>3. Sealed'
      BY <3>1 DEF EnvelopeInv, Sealed
    <3> QED BY <3>1, <3>2, <3>3 DEF EnvelopeInv
  <2>3. CASE UNCHANGED envelopevars
    BY <2>3 DEF envelopevars, EnvelopeInv, Sealed, OpensUnlessCut
  <2> QED BY <2>1, <2>2, <2>3 DEF EnvelopeNext
<1>3. EnvelopeInv => OpensUnlessCut
  BY DEF EnvelopeInv
<1> QED BY <1>1, <1>2, <1>3, PTL DEF EnvelopeSpec
-----------------------------------------------------------------------------
(***************************************************************************)
(* The configuration file.  The invariant says what the lists are at every *)
(* word: the section the code is in is that of the last header, and a      *)
(* section's list is, in the file's order, all that stands under its       *)
(* headers so far.                                                         *)
(***************************************************************************)
LEMMA TypeRange == \A w : Type(w) \in 0 .. 4
<1> SUFFICES ASSUME NEW w PROVE Type(w) \in 0 .. 4
  OBVIOUS
<1> DEFINE I == {i \in 1 .. Len(Headers) : Headers[i] = w}
<1>1. Len(Headers) = 4
  BY DEF Headers
<1>2. I \subseteq Nat /\ I \subseteq 1 .. 4
  BY <1>1
<1>3. Type(w) = IF I # {} THEN Min(I) ELSE 0
  BY DEF Type, SelectInSeq
<1> HIDE DEF I
<1>4. CASE I # {}
  <2>1. Min(I) \in I
    BY <1>2, <1>4, MinIsLeast
  <2>2. Min(I) \in 1 .. 4
    BY <1>2, <2>1
  <2> QED BY <1>3, <1>4, <2>2
<1>5. CASE I = {}
  BY <1>3, <1>5
<1> QED BY <1>4, <1>5

\* The section in force at the file's i-th word.
Above(i) == {j \in 1 .. i : Type(file[j]) # 0}
SectionAt(i) == IF Above(i) = {} THEN 1 ELSE Type(file[Max(Above(i))])

ConfigType ==
    /\ file \in Seq(ToSet(file)) /\ words \in 0 .. Len(file)
    /\ arr \in 1 .. 4
    /\ config \in [1 .. 4 -> Seq(ToSet(file))]
    /\ used \in Seq((1 .. 4) \X ToSet(file))

\* A section's list is what stands under its header, in the file's order.
Places(f, s) ==
    /\ f \in [1 .. Len(config[s]) -> Nat]
    /\ \A k \in 1 .. Len(config[s]) : f[k] \in Under(s) /\ file[f[k]] = config[s][k]
    /\ \A k, l \in 1 .. Len(config[s]) : k < l => f[k] < f[l]
    /\ \A i \in Under(s) : \E k \in 1 .. Len(config[s]) : f[k] = i

Listed(s) == \E f \in [1 .. Len(config[s]) -> Nat] : Places(f, s)

ConfigInv ==
    /\ ConfigType
    /\ arr = SectionAt(words)
    /\ \A s \in 1 .. 4 : Listed(s)
    /\ state = "reading" => used = <<>>
    /\ RightSection

LEMMA UnderIs == \A s : Under(s) = {i \in 1 .. words : file[i] \in Digital /\ s = SectionAt(i)}
BY DEF Under, SectionAt, Above

\* One more word: its section is the one the code computes.
LEMMA NextSection ==
  ASSUME ConfigType, arr = SectionAt(words), words < Len(file)
  PROVE  SectionAt(words + 1) = Section(file[words + 1])
<1>1. words \in Nat
  BY DEF ConfigType
<1> DEFINE w == words + 1
<1>2. w \in Nat /\ w \in 1 .. w /\ \A j \in 1 .. w : j = w \/ j \in 1 .. words
  BY <1>1
<1>3. \A j \in 1 .. words : j \in 1 .. w
  BY <1>1
<1>4. CASE Type(file[w]) # 0
  <2>1. w \in Above(w) /\ Above(w) \subseteq Nat /\ \A y \in Above(w) : y <= w
    BY <1>2, <1>4 DEF Above
  <2>2. Max(Above(w)) = w
    BY <2>1, MaxIsGreatest
  <2> QED BY <1>4, <2>1, <2>2 DEF SectionAt, Section
<1>5. CASE Type(file[w]) = 0
  <2>1. Above(w) = Above(words)
    BY <1>2, <1>3, <1>5 DEF Above
  <2> QED BY <1>5, <2>1 DEF SectionAt, Section
<1> QED BY <1>4, <1>5

LEMMA SectionRange == ConfigType => \A w : Section(w) \in 1 .. 4
<1> SUFFICES ASSUME ConfigType, NEW w PROVE Section(w) \in 1 .. 4
  OBVIOUS
<1>1. Type(w) \in 0 .. 4
  BY TypeRange
<1> QED BY <1>1 DEF Section, ConfigType

\* Reading keeps every list in the file's order.
LEMMA ReadStep ==
  ASSUME ConfigInv, get_config_info
  PROVE  ConfigInv'
<1> DEFINE w == words + 1
           data == file[w]
           n == Section(data)
<1>1. /\ state = "reading" /\ words < Len(file) /\ words' = w /\ arr' = n
      /\ config' = IF data \in Digital THEN [config EXCEPT ![n] = Append(@, data)] ELSE config
      /\ UNCHANGED <<file, used, state>>
  BY DEF get_config_info
<1>2. /\ file \in Seq(ToSet(file)) /\ Len(file) \in Nat /\ words \in Nat /\ w \in 1 .. Len(file)
      /\ DOMAIN file = 1 .. Len(file) /\ \A s \in 1 .. 4 : config[s] \in Seq(ToSet(file))
  BY <1>1, LenProperties DEF ConfigInv, ConfigType
<1>3. data \in ToSet(file)
  BY <1>2 DEF ToSet
<1>4. n \in 1 .. 4
  BY SectionRange DEF ConfigInv
<1>5. SectionAt(w) = n
  BY <1>1, NextSection DEF ConfigInv
<1>6. \A i : SectionAt(i)' = SectionAt(i)
  BY <1>1 DEF SectionAt, Above
<1>7. \A s : Under(s)' = {i \in 1 .. w : file[i] \in Digital /\ s = SectionAt(i)}
  <2>1. \A s : Under(s)' = {i \in 1 .. words' : file'[i] \in Digital /\ s = SectionAt(i)'}
    BY DEF Under, SectionAt, Above
  <2> QED BY <1>1, <1>6, <2>1
<1> HIDE DEF w, data, n
<1>8. ConfigType'
  <2>1. \A s \in 1 .. 4 : Append(config[s], data) \in Seq(ToSet(file))
    BY <1>2, <1>3, AppendProperties
  <2>2. config' \in [1 .. 4 -> Seq(ToSet(file))]
    BY <1>1, <1>4, <2>1 DEF ConfigInv, ConfigType
  <2> QED BY <1>1, <1>2, <1>4, <2>2 DEF ConfigInv, ConfigType
<1>9. ASSUME NEW s \in 1 .. 4 PROVE Listed(s)'
  <2>1. PICK f \in [1 .. Len(config[s]) -> Nat] : Places(f, s)
    BY DEF ConfigInv, Listed
  <2> DEFINE L == Len(config[s])
  <2>2. L \in Nat
    BY <1>2, LenProperties
  <2>u. Under(s) = {i \in 1 .. words : file[i] \in Digital /\ s = SectionAt(i)}
    BY UnderIs
  <2>w. w \in Nat /\ w = words + 1 /\ \A i \in 1 .. w : i = w \/ i \in 1 .. words
    BY <1>2 DEF w
  <2>d. data = file[w]
    BY DEF data
  <2>3. CASE data \in Digital /\ s = n
    <3>1. config'[s] = Append(config[s], data)
      BY <1>1, <1>4, <2>3 DEF ConfigInv, ConfigType
    <3>2. Len(config'[s]) = L + 1 /\ config'[s][L + 1] = data /\ \A k \in 1 .. L : config'[s][k] = config[s][k]
      BY <1>2, <1>3, <3>1, AppendProperties
    <3>3. Under(s)' = Under(s) \cup {w}
      BY <1>2, <1>5, <1>7, <2>3, <2>u, <2>w, <2>d
    <3>4. PICK g \in [1 .. L + 1 -> Nat] : g[L + 1] = w /\ \A k \in 1 .. L : g[k] = f[k]
      <4> DEFINE G == [k \in 1 .. L + 1 |-> IF k = L + 1 THEN w ELSE f[k]]
      <4>1. G \in [1 .. L + 1 -> Nat]
        BY <2>1, <2>2, <2>w
      <4>2. G[L + 1] = w /\ \A k \in 1 .. L : G[k] = f[k]
        BY <2>2
      <4> HIDE DEF G
      <4> QED BY <4>1, <4>2
    <3>5. /\ \A k \in 1 .. L : f[k] \in Under(s) /\ file[f[k]] = config[s][k] /\ f[k] \in 1 .. words
          /\ \A k, l \in 1 .. L : k < l => f[k] < f[l]
          /\ \A i \in Under(s) : \E k \in 1 .. L : f[k] = i
      BY <2>1, <2>u DEF Places
    <3> HIDE DEF L
    <3>6. \A k \in 1 .. L + 1 : k = L + 1 \/ k \in 1 .. L
      BY <2>2
    <3>7. \A k \in 1 .. L + 1 : g[k] \in Under(s)' /\ file[g[k]] = config'[s][k]
      BY <2>d, <3>2, <3>3, <3>4, <3>5, <3>6
    <3>8. ASSUME NEW k \in 1 .. L + 1, NEW l \in 1 .. L + 1, k < l PROVE g[k] < g[l]
      <4>1. k \in 1 .. L
        BY <2>2, <3>8
      <4>2. g[k] = f[k] /\ f[k] < w /\ f[k] \in Nat
        BY <1>2, <2>w, <3>4, <3>5, <4>1
      <4> QED BY <3>4, <3>5, <3>6, <3>8, <4>1, <4>2
    <3>9. \A i \in Under(s)' : \E k \in 1 .. L + 1 : g[k] = i
      <4>1. L + 1 \in 1 .. L + 1 /\ \A k \in 1 .. L : k \in 1 .. L + 1
        BY <2>2
      <4> QED BY <3>3, <3>4, <3>5, <4>1
    <3>10. Places(g, s)'
      BY <1>1, <3>2, <3>4, <3>7, <3>8, <3>9 DEF Places
    <3> QED BY <3>2, <3>4, <3>10 DEF Listed
  <2>4. CASE ~(data \in Digital /\ s = n)
    <3>1. config'[s] = config[s]
      BY <1>1, <1>4, <2>4 DEF ConfigInv, ConfigType
    <3>2. Under(s)' = Under(s)
      BY <1>2, <1>5, <1>7, <2>4, <2>u, <2>w, <2>d
    <3>3. Places(f, s)'
      BY <1>1, <2>1, <3>1, <3>2 DEF Places
    <3> QED BY <2>1, <3>1, <3>3 DEF Listed
  <2> QED BY <2>3, <2>4
<1>10. arr' = SectionAt(words)'
  <2>1. SectionAt(words)' = SectionAt(w)
    BY <1>1 DEF SectionAt, Above
  <2> QED BY <1>1, <1>5, <2>1
<1>11. used' = <<>>
  BY <1>1 DEF ConfigInv
<1>12. RightSection'
  BY <1>1, <1>11 DEF RightSection, ToSet
<1> QED BY <1>8, <1>9, <1>10, <1>11, <1>12 DEF ConfigInv
-----------------------------------------------------------------------------
\* What RightSection says of one use, and of the draws passed.
Proper(u) ==
    \E i \in Under(u[1]) : file[i] = u[2] /\ (u[1] = 3 => i = Min(Under(3)))

DrawnFrom(now) ==
    /\ now \in {"mailbox", "sent"} => Under(4) # {}
    /\ now = "sent" => Under(2) # {}

\* The entries of a list stand under its header, the first of them first.
LEMMA IndexIsProper ==
  ASSUME ConfigInv, NEW s \in 1 .. 4, NEW k \in DOMAIN config[s], s = 3 => k = 1
  PROVE  Proper(<<s, config[s][k]>>)
<1>1. PICK f \in [1 .. Len(config[s]) -> Nat] : Places(f, s)
  BY DEF ConfigInv, Listed
<1>2. Len(config[s]) \in Nat /\ DOMAIN config[s] = 1 .. Len(config[s])
  BY LenProperties DEF ConfigInv, ConfigType
<1> DEFINE L == Len(config[s])
           U == Under(s)
<1>3. L \in Nat /\ k \in 1 .. L
  BY <1>2
<1>4. /\ \A j \in 1 .. L : f[j] \in U /\ file[f[j]] = config[s][j]
      /\ \A j, l \in 1 .. L : j < l => f[j] < f[l]
      /\ \A i \in U : \E j \in 1 .. L : f[j] = i
      /\ f \in [1 .. L -> Nat]
  BY <1>1 DEF Places
<1>5. U \subseteq Nat
  BY UnderIs
<1> HIDE DEF L, U
<1>6. CASE s = 3
  <2>1. \A i \in U : f[k] <= i
    <3> SUFFICES ASSUME NEW i \in U PROVE f[k] <= i
      OBVIOUS
    <3>1. PICK j \in 1 .. L : f[j] = i
      BY <1>4
    <3>2. k = j \/ k < j
      BY <1>6, <3>1
    <3>3. k < j => f[k] < f[j]
      BY <1>3, <1>4
    <3>4. f[k] \in Nat /\ f[j] \in Nat
      BY <1>3, <1>4
    <3> QED BY <3>1, <3>2, <3>3, <3>4
  <2>2. f[k] = Min(U)
    BY <1>3, <1>4, <1>5, <2>1, LeastIsMin
  <2> QED BY <1>3, <1>4, <1>6, <2>2 DEF Proper, U
<1>7. CASE s # 3
  BY <1>3, <1>4, <1>7 DEF Proper, U
<1> QED BY <1>6, <1>7

\* The lists do not move once the file is read.
LEMMA ListsKept ==
  ASSUME ConfigInv, UNCHANGED <<file, words, arr, config>>
  PROVE  /\ (\A t \in 1 .. 4 : Listed(t))' /\ (arr = SectionAt(words))'
         /\ \A u : Proper(u)' = Proper(u)
         /\ \A t : Under(t)' = Under(t)
<1>1. \A t : Under(t)' = Under(t)
  BY DEF Under
<1>2. ASSUME NEW t \in 1 .. 4 PROVE Listed(t)'
  <2>1. PICK f \in [1 .. Len(config[t]) -> Nat] : Places(f, t)
    BY DEF ConfigInv, Listed
  <2>2. Places(f, t)'
    BY <1>1, <2>1 DEF Places
  <2> QED BY <2>1, <2>2 DEF Listed
<1>3. arr' = SectionAt(words)'
  BY DEF SectionAt, Above, ConfigInv
<1>4. \A u : Proper(u)' = Proper(u)
  BY <1>1 DEF Proper
<1> QED BY <1>1, <1>2, <1>3, <1>4

LEMMA ConfigKept ==
  ASSUME ConfigInv, UNCHANGED <<file, words, arr, config, used>>,
         state' \in {"pkg", "died"} \/ state' = state
  PROVE  ConfigInv'
<1>1. /\ (\A t \in 1 .. 4 : Listed(t))' /\ (arr = SectionAt(words))' /\ \A u : Proper(u)' = Proper(u)
      /\ Under(4)' = Under(4) /\ Under(2)' = Under(2)
  BY ListsKept
<1>2. RightSection'
  BY <1>1 DEF ConfigInv, RightSection, Proper
<1>3. ConfigType'
  BY DEF ConfigInv, ConfigType
<1> QED BY <1>1, <1>2, <1>3 DEF ConfigInv

LEMMA UseStep ==
  ASSUME ConfigInv, NEW s \in 1 .. 4, NEW k, NEW next, Use(s, k, next), s = 3 => k = 1,
         DrawnFrom(next), next # "reading", UNCHANGED <<file, words, arr, config>>
  PROVE  ConfigInv'
<1>1. state' # "reading" /\ DrawnFrom(state')
  BY DEF Use, DrawnFrom
<1>2. /\ (\A t \in 1 .. 4 : Listed(t))' /\ (arr = SectionAt(words))' /\ \A u : Proper(u)' = Proper(u)
      /\ Under(4)' = Under(4) /\ Under(2)' = Under(2)
  BY ListsKept
<1>6. used \in Seq((1 .. 4) \X ToSet(file)) /\ DOMAIN used = 1 .. Len(used) /\ Len(used) \in Nat
  BY LenProperties DEF ConfigInv, ConfigType
<1>7. \A j \in 1 .. Len(used) : Proper(used[j])
  BY <1>6 DEF ConfigInv, RightSection, Proper, ToSet
<1>8. used' \in Seq((1 .. 4) \X ToSet(file)) /\ \A j \in 1 .. Len(used') : Proper(used'[j])
  <2>1. CASE k \in DOMAIN config[s]
    <3> DEFINE u == <<s, config[s][k]>>
    <3>1. Proper(u)
      BY <2>1, IndexIsProper
    <3>2. config[s][k] \in ToSet(file)
      BY <2>1, ElementOfSeq, LenProperties DEF ConfigInv, ConfigType
    <3>3. u \in (1 .. 4) \X ToSet(file)
      BY <3>2
    <3>4. used' = Append(used, u)
      BY <2>1 DEF Use
    <3> HIDE DEF u
    <3>5. /\ used' \in Seq((1 .. 4) \X ToSet(file)) /\ Len(used') = Len(used) + 1
          /\ \A j \in 1 .. Len(used) : used'[j] = used[j]
          /\ used'[Len(used) + 1] = u
      BY <1>6, <3>3, <3>4, AppendProperties
    <3>6. \A j \in 1 .. Len(used) + 1 : j = Len(used) + 1 \/ j \in 1 .. Len(used)
      BY <1>6
    <3> QED BY <1>7, <3>1, <3>5, <3>6
  <2>2. CASE k \notin DOMAIN config[s]
    BY <1>6, <1>7, <2>2 DEF Use
  <2> QED BY <2>1, <2>2
<1>9. RightSection'
  <2>1. DOMAIN used' = 1 .. Len(used')
    BY <1>8, LenProperties
  <2>2. \A u \in ToSet(used') : Proper(u)'
    BY <1>2, <1>8, <2>1 DEF ToSet
  <2> QED BY <1>1, <1>2, <2>2 DEF RightSection, Proper, DrawnFrom
<1>10. ConfigType'
  BY <1>8 DEF ConfigInv, ConfigType
<1> QED BY <1>1, <1>2, <1>9, <1>10 DEF ConfigInv

LEMMA ChooseStep ==
  ASSUME ConfigInv, NEW s \in {2, 4}, NEW next, Choose(s, next),
         Under(s) # {} => DrawnFrom(next), next # "reading", UNCHANGED <<file, words, arr, config>>
  PROVE  ConfigInv'
<1>1. CASE config[s] = <<>>
  <2>1. used' = used /\ state' = "died"
    BY <1>1 DEF Choose
  <2> QED BY <2>1, ConfigKept
<1>2. CASE config[s] # <<>>
  <2>1. PICK r \in 0 .. Len(config[s]) - 1 : Use(s, r, next)
    BY <1>2 DEF Choose, Draw
  <2>2. Under(s) # {}
    <3>1. Listed(s) /\ config[s] \in Seq(ToSet(file))
      BY DEF ConfigInv, ConfigType
    <3>2. PICK f \in [1 .. Len(config[s]) -> Nat] : Places(f, s)
      BY <3>1 DEF Listed
    <3>3. 1 \in 1 .. Len(config[s])
      BY <1>2, <3>1
    <3> QED BY <3>2, <3>3 DEF Places
  <2> QED BY <2>1, <2>2, UseStep
<1> QED BY <1>1, <1>2

LEMMA ConfigStart == ConfigInit => ConfigInv
<1> SUFFICES ASSUME ConfigInit PROVE ConfigInv
  OBVIOUS
<1>1. /\ words = 0 /\ arr = 1 /\ used = <<>> /\ file \in Files
      /\ \A s \in 1 .. 4 : config[s] = <<>>
  BY DEF ConfigInit
<1>2. file \in Seq(ToSet(file)) /\ Len(file) \in Nat
  BY <1>1, FilesAssumption, LenProperties
<1>3. config \in [1 .. 4 -> Seq(ToSet(file))]
  <2>1. <<>> \in Seq(ToSet(file))
    OBVIOUS
  <2>2. config = [s \in 1 .. 4 |-> <<>>]
    BY DEF ConfigInit
  <2> QED BY <2>1, <2>2
<1>4. ConfigType
  BY <1>1, <1>2, <1>3 DEF ConfigType
<1>5. arr = SectionAt(words)
  <2>1. Above(0) = {}
    BY DEF Above
  <2> QED BY <1>1, <2>1 DEF SectionAt
<1>6. ASSUME NEW s \in 1 .. 4 PROVE Listed(s)
  <2>1. Len(config[s]) = 0 /\ Under(s) = {}
    BY <1>1, <1>6 DEF Under
  <2> DEFINE f == [k \in 1 .. Len(config[s]) |-> 0]
  <2>2. f \in [1 .. Len(config[s]) -> Nat]
    OBVIOUS
  <2>3. Places(f, s)
    BY <2>1, <2>2 DEF Places
  <2> QED BY <2>2, <2>3 DEF Listed
<1>7. RightSection
  BY <1>1 DEF ConfigInit, RightSection, ToSet
<1> QED BY <1>1, <1>4, <1>5, <1>6, <1>7 DEF ConfigInv

\* For any configuration file: the PKG that is asked is the first under its header,
\* an info node or a mailbox that is used stands under its own, and no draw is
\* passed with nothing to draw from.
THEOREM ConfigCorrect == ConfigSpec => []RightSection
<1>1. ConfigInit => ConfigInv
  BY ConfigStart
<1>2. ConfigInv /\ [ConfigNext]_configvars => ConfigInv'
  <2> SUFFICES ASSUME ConfigInv, [ConfigNext]_configvars PROVE ConfigInv'
    OBVIOUS
  <2>1. CASE get_config_info
    BY <2>1, ReadStep
  <2>2. CASE Loaded
    BY <2>2, ConfigKept DEF Loaded
  <2>3. CASE AskPkg
    <3>1. DrawnFrom("info")
      BY DEF DrawnFrom
    <3> QED BY <2>3, <3>1, UseStep DEF AskPkg
  <2>4. CASE AskInfo
    <3>1. Under(4) # {} => DrawnFrom("mailbox")
      BY DEF DrawnFrom
    <3> QED BY <2>4, <3>1, ChooseStep DEF AskInfo
  <2>5. CASE DrawMailbox
    <3>1. Under(2) # {} => DrawnFrom("sent")
      BY <2>5 DEF DrawMailbox, DrawnFrom, ConfigInv, RightSection
    <3> QED BY <2>5, <3>1, ChooseStep DEF DrawMailbox
  <2>6. CASE UNCHANGED configvars
    BY <2>6, ConfigKept DEF configvars
  <2> QED BY <2>1, <2>2, <2>3, <2>4, <2>5, <2>6 DEF ConfigNext
<1>3. ConfigInv => RightSection
  BY DEF ConfigInv
<1> QED BY <1>1, <1>2, <1>3, PTL DEF ConfigSpec
-----------------------------------------------------------------------------
(***************************************************************************)
(* The mail.  What curl has been handed is a beginning of global_vec with  *)
(* no empty line in it; it stops there if and only if the next is one.     *)
(***************************************************************************)
\* The lines of a mail are a sequence, whatever is in them.
Lines(s) == \E S : s \in Seq(S)

LEMMA LinesConcat ==
  ASSUME NEW s, NEW t, Lines(s), Lines(t)
  PROVE  Lines(s \o t)
<1>1. PICK S : s \in Seq(S)
  BY DEF Lines
<1>2. PICK T : t \in Seq(T)
  BY DEF Lines
<1>3. s \in Seq(S \cup T) /\ t \in Seq(S \cup T)
  BY <1>1, <1>2
<1>4. s \o t \in Seq(S \cup T)
  BY <1>3, ConcatProperties
<1> QED BY <1>4 DEF Lines

LEMMA EncodedLines ==
  ASSUME NEW f \in FileTexts, NEW junk
  PROVE  Lines(Encoded(f, junk))
<1> DEFINE d(k) == Line("data", base64_encode(Chunks(f)[k], junk))
           n == (Len(f) + MaxLen - 1) \div MaxLen
           data == [k \in 1 .. n |-> d(k)]
<1>1. n \in Int
  <2>1. Len(f) \in Nat /\ MaxLen \in Nat \ {0}
    BY FileTextsAssumption, MaxLenAssumption, LenProperties
  <2> QED BY <2>1
<1>2. [k \in DOMAIN Chunks(f) |-> Line("data", base64_encode(Chunks(f)[k], junk))] = data
  BY DEF Chunks
<1> HIDE DEF n, d
<1>3. Lines(data)
  <2> DEFINE S == {d(k) : k \in 1 .. n}
             m == IF n < 0 THEN 0 ELSE n
  <2>1. m \in Nat /\ 1 .. n = 1 .. m
    BY <1>1
  <2>2. data \in [1 .. n -> S]
    OBVIOUS
  <2> HIDE DEF S, m, data
  <2>3. data \in [1 .. m -> S]
    BY <2>1, <2>2
  <2>4. data \in Seq(S)
    BY <2>1, <2>3
  <2> QED BY <2>4 DEF Lines
<1> HIDE DEF data
<1>4. Lines(<<Line("filename", <<>>), endLine>>) /\ Lines(<<endLine, boundary>>)
  <2>1. <<Line("filename", <<>>), endLine>> \in Seq({Line("filename", <<>>), endLine})
    OBVIOUS
  <2>2. <<endLine, boundary>> \in Seq({endLine, boundary})
    OBVIOUS
  <2> QED BY <2>1, <2>2 DEF Lines
<1>5. Encoded(f, junk) = <<Line("filename", <<>>), endLine>> \o data \o <<endLine, boundary>>
  BY <1>2, Zenon DEF Encoded
<1> QED BY <1>3, <1>4, <1>5, LinesConcat

\* t is s, put through snprintf line by line.
PrintedAs(s, t) ==
    /\ Lines(s) /\ Lines(t) /\ Len(t) = Len(s)
    /\ \A j \in 1 .. Len(s) : t[j] = Printed(s[j])

\* What curl has been handed is the beginning of global_vec, with no empty line.
Handed ==
    /\ Lines(received)
    /\ \A j \in 1 .. Len(received) : received[j] = global_vec[j] /\ ~Empty(global_vec[j])

EmailInv ==
    /\ Lines(attachments)
    /\ PrintedAs(meant, email_contents) /\ PrintedAs(asked, global_vec)
    /\ upload = "running" =>
         Handed /\ lines_read \in 0 .. Len(global_vec) /\ Len(received) = lines_read
    /\ upload = "sent" =>
         /\ Handed
         /\ \/ Len(received) = Len(global_vec)
            \/ Len(received) < Len(global_vec) /\ Empty(global_vec[Len(received) + 1])

LEMMA LinesMeans ==
  ASSUME NEW s, Lines(s)
  PROVE  Len(s) \in Nat /\ DOMAIN s = 1 .. Len(s) /\ s = [j \in 1 .. Len(s) |-> s[j]]
<1>1. PICK S : s \in Seq(S)
  BY DEF Lines
<1> QED BY <1>1, LenProperties

LEMMA LinesAppend ==
  ASSUME NEW s, Lines(s), NEW e
  PROVE  /\ Lines(Append(s, e)) /\ Len(Append(s, e)) = Len(s) + 1
         /\ \A j \in 1 .. Len(s) : Append(s, e)[j] = s[j]
         /\ Append(s, e)[Len(s) + 1] = e
<1>1. PICK S : s \in Seq(S)
  BY DEF Lines
<1>2. s \in Seq(S \cup {e})
  BY <1>1
<1>3. /\ Append(s, e) \in Seq(S \cup {e}) /\ Len(Append(s, e)) = Len(s) + 1
      /\ \A j \in 1 .. Len(s) : Append(s, e)[j] = s[j]
      /\ Append(s, e)[Len(s) + 1] = e
  BY <1>2, AppendProperties
<1> QED BY <1>3 DEF Lines

\* More lines are printed behind those that are.
LEMMA PrintedConcat ==
  ASSUME NEW s, NEW t, PrintedAs(s, t), NEW l, Lines(l)
  PROVE  PrintedAs(s \o l, t \o [j \in DOMAIN l |-> Printed(l[j])])
<1> DEFINE p == [j \in DOMAIN l |-> Printed(l[j])]
           S == {Printed(l[j]) : j \in DOMAIN l}
<1>1. Len(l) \in Nat /\ DOMAIN l = 1 .. Len(l)
  BY LinesMeans
<1>2. p \in [1 .. Len(l) -> S]
  BY <1>1
<1>3. \A j \in 1 .. Len(l) : p[j] = Printed(l[j])
  BY <1>1
<1> HIDE DEF p, S
<1>4. p \in Seq(S) /\ Len(p) = Len(l)
  BY <1>1, <1>2
<1>5. Lines(s) /\ Lines(t) /\ Len(t) = Len(s)
  BY DEF PrintedAs
<1>6. PICK A : s \in Seq(A) /\ l \in Seq(A)
  <2>1. PICK B : s \in Seq(B)
    BY <1>5 DEF Lines
  <2>2. PICK C : l \in Seq(C)
    BY DEF Lines
  <2>3. s \in Seq(B \cup C) /\ l \in Seq(B \cup C)
    BY <2>1, <2>2
  <2> QED BY <2>3
<1>7. PICK A2 : t \in Seq(A2) /\ p \in Seq(A2)
  <2>1. PICK B : t \in Seq(B)
    BY <1>5 DEF Lines
  <2>2. t \in Seq(B \cup S) /\ p \in Seq(B \cup S)
    BY <1>4, <2>1
  <2> QED BY <2>2
<1>8. /\ s \o l \in Seq(A) /\ Len(s \o l) = Len(s) + Len(l)
      /\ \A j \in 1 .. Len(s) + Len(l) : (s \o l)[j] = IF j <= Len(s) THEN s[j] ELSE l[j - Len(s)]
  BY <1>6, ConcatProperties
<1>9. /\ t \o p \in Seq(A2) /\ Len(t \o p) = Len(s) + Len(l)
      /\ \A j \in 1 .. Len(s) + Len(l) : (t \o p)[j] = IF j <= Len(s) THEN t[j] ELSE p[j - Len(s)]
  <2>1. /\ t \o p \in Seq(A2) /\ Len(t \o p) = Len(t) + Len(p)
        /\ \A j \in 1 .. Len(t) + Len(p) : (t \o p)[j] = IF j <= Len(t) THEN t[j] ELSE p[j - Len(t)]
    BY <1>7, ConcatProperties
  <2>2. Len(t) = Len(s) /\ Len(p) = Len(l)
    BY <1>4, <1>5
  <2> QED BY <2>1, <2>2
<1>10. ASSUME NEW j \in 1 .. Len(s) + Len(l) PROVE (t \o p)[j] = Printed((s \o l)[j])
  <2>1. Len(s) \in Nat /\ Len(l) \in Nat
    BY <1>1, <1>5, LinesMeans
  <2>2. CASE j <= Len(s)
    <3>1. j \in 1 .. Len(s)
      BY <2>1, <2>2
    <3>2. t[j] = Printed(s[j])
      BY <3>1 DEF PrintedAs
    <3> QED BY <1>8, <1>9, <2>2, <3>2
  <2>3. CASE ~(j <= Len(s))
    <3>1. j - Len(s) \in 1 .. Len(l)
      BY <2>1, <2>3
    <3> QED BY <1>3, <1>8, <1>9, <2>3, <3>1
  <2> QED BY <2>2, <2>3
<1>11. Lines(s \o l) /\ Lines(t \o p)
  BY <1>8, <1>9 DEF Lines
<1> QED BY <1>8, <1>9, <1>10, <1>11 DEF PrintedAs, p

\* A line that is printed as it was meant has fit.
LEMMA PrintedFits == \A l : Printed(l) = l => Fits(l)
<1> SUFFICES ASSUME NEW l, Printed(l) = l, ~Fits(l) PROVE FALSE
  OBVIOUS
<1>1. l = Line("cut", <<>>)
  BY DEF Printed
<1>2. l.kind = "cut"
  BY <1>1 DEF Line
<1>3. "cut" \notin DOMAIN Extra
  BY DEF Extra
<1> QED BY <1>2, <1>3 DEF Fits

LEMMA InvSent == EmailInv => SentAsMeant
<1> SUFFICES ASSUME EmailInv, upload = "sent"
             PROVE  received = asked <=> \A j \in DOMAIN asked : Fits(asked[j]) /\ ~Empty(asked[j])
  BY DEF SentAsMeant
<1>1. /\ Lines(asked) /\ Lines(global_vec) /\ Lines(received) /\ Len(global_vec) = Len(asked)
      /\ \A j \in 1 .. Len(asked) : global_vec[j] = Printed(asked[j])
      /\ \A j \in 1 .. Len(received) : received[j] = global_vec[j] /\ ~Empty(global_vec[j])
      /\ \/ Len(received) = Len(asked)
         \/ Len(received) < Len(asked) /\ Empty(global_vec[Len(received) + 1])
  BY DEF EmailInv, PrintedAs, Handed
<1>2. /\ Len(asked) \in Nat /\ DOMAIN asked = 1 .. Len(asked) /\ asked = [j \in 1 .. Len(asked) |-> asked[j]]
      /\ Len(received) \in Nat /\ received = [j \in 1 .. Len(received) |-> received[j]]
  BY <1>1, LinesMeans
<1>3. ASSUME received = asked, NEW j \in DOMAIN asked PROVE Fits(asked[j]) /\ ~Empty(asked[j])
  <2>1. j \in 1 .. Len(asked) /\ j \in 1 .. Len(received)
    BY <1>2, <1>3
  <2>2. Printed(asked[j]) = asked[j] /\ ~Empty(asked[j])
    BY <1>1, <1>3, <2>1
  <2> QED BY <2>2, PrintedFits
<1>4. ASSUME \A j \in DOMAIN asked : Fits(asked[j]) /\ ~Empty(asked[j]) PROVE received = asked
  <2>1. \A j \in 1 .. Len(asked) : global_vec[j] = asked[j] /\ ~Empty(global_vec[j])
    BY <1>1, <1>2, <1>4 DEF Printed
  <2>2. Len(received) = Len(asked)
    <3>1. ASSUME Len(received) < Len(asked), Empty(global_vec[Len(received) + 1]) PROVE FALSE
      <4>1. Len(received) + 1 \in 1 .. Len(asked)
        BY <1>2, <3>1
      <4> QED BY <2>1, <3>1, <4>1
    <3> QED BY <1>1, <3>1
  <2>3. \A j \in 1 .. Len(asked) : received[j] = asked[j]
    BY <1>1, <2>1, <2>2
  <2> QED BY <1>2, <2>2, <2>3
<1> QED BY <1>3, <1>4

LEMMA TupleLines ==
  /\ \A a, b : Lines(<<>>) /\ Lines(<<a>>) /\ Lines(<<a, b>>)
  /\ \A a, b, c : Lines(<<a, b, c>>)
  /\ \A a, b, c, d : Lines(<<a, b, c, d>>)
<1>1. ASSUME NEW a, NEW b PROVE Lines(<<>>) /\ Lines(<<a>>) /\ Lines(<<a, b>>)
  <2>1. <<>> \in Seq({a, b}) /\ <<a>> \in Seq({a, b}) /\ <<a, b>> \in Seq({a, b})
    OBVIOUS
  <2> QED BY <2>1 DEF Lines
<1>2. ASSUME NEW a, NEW b, NEW c PROVE Lines(<<a, b, c>>)
  <2>1. <<a, b, c>> \in Seq({a, b, c})
    OBVIOUS
  <2> QED BY <2>1 DEF Lines
<1>3. ASSUME NEW a, NEW b, NEW c, NEW d PROVE Lines(<<a, b, c, d>>)
  <2>1. <<a, b, c, d>> \in Seq({a, b, c, d})
    OBVIOUS
  <2> QED BY <2>1 DEF Lines
<1> QED BY <1>1, <1>2, <1>3

LEMMA ComposedLines ==
  ASSUME Lines(attachments), NEW m
  PROVE  Lines(Composed(m))
<1>1. /\ Lines(<<Line("to", m.to), Line("from", m.from)>>)
      /\ Lines(<<Line("subject", m.subject), Line("time", <<>>), Line("template", <<>>), endLine>>)
      /\ Lines(<<Line("body", m.body), endLine, boundary>>)
      /\ Lines(<<Line("lastBoundary", <<>>), Line("end", <<>>)>>)
  BY TupleLines, Zenon
<1>2. Lines(IF m.cc = <<>> THEN <<>> ELSE <<Line("cc", m.cc)>>)
  <2>1. Lines(<<>>) /\ Lines(<<Line("cc", m.cc)>>)
    BY TupleLines, Zenon
  <2> QED BY <2>1
<1> QED BY <1>1, <1>2, LinesConcat, Zenon DEF Composed

LEMMA UploadStep == EmailInv /\ payload_source => EmailInv'
<1> SUFFICES ASSUME EmailInv, payload_source PROVE EmailInv'
  OBVIOUS
<1> DEFINE n == lines_read
<1>1. /\ upload = "running" /\ Handed /\ n \in 0 .. Len(global_vec) /\ Len(received) = n
      /\ global_vec' = global_vec /\ asked' = asked /\ UNCHANGED writevars
  BY DEF payload_source, EmailInv
<1>2. Lines(global_vec) /\ Len(global_vec) \in Nat
  BY LinesMeans DEF EmailInv, PrintedAs
<1>3. (Lines(attachments) /\ PrintedAs(meant, email_contents) /\ PrintedAs(asked, global_vec))'
  BY <1>1 DEF EmailInv, writevars
<1>4. CASE More /\ ~Empty(global_vec[n + 1])
  <2>1. /\ lines_read' = n + 1 /\ received' = Append(received, global_vec[n + 1])
        /\ upload' = "running" /\ n < Len(global_vec)
    BY <1>1, <1>4 DEF payload_source, More
  <2>2. /\ Lines(received') /\ Len(received') = n + 1
        /\ \A j \in 1 .. n : received'[j] = received[j]
        /\ received'[n + 1] = global_vec[n + 1]
    BY <1>1, <2>1, LinesAppend DEF Handed
  <2>3. \A j \in 1 .. n + 1 : j = n + 1 \/ j \in 1 .. n
    BY <1>1
  <2>4. Handed'
    BY <1>1, <1>4, <2>2, <2>3 DEF Handed
  <2>5. lines_read' \in 0 .. Len(global_vec')
    BY <1>1, <1>2, <2>1
  <2> QED BY <1>1, <1>3, <2>1, <2>2, <2>4, <2>5 DEF EmailInv
<1>5. CASE ~(More /\ ~Empty(global_vec[n + 1]))
  <2>1. upload' = "sent" /\ received' = received
    BY <1>5 DEF payload_source
  <2>2. Handed'
    BY <1>1, <2>1 DEF Handed
  <2>3. n = Len(global_vec) \/ (n < Len(global_vec) /\ Empty(global_vec[n + 1]))
    BY <1>1, <1>2, <1>5 DEF More
  <2> QED BY <1>1, <1>3, <2>1, <2>2, <2>3 DEF EmailInv
<1> QED BY <1>4, <1>5

\* The steps that leave the upload alone.
LEMMA WriteStep ==
  ASSUME EmailInv, UNCHANGED sendvars, Lines(attachments'), PrintedAs(meant', email_contents')
  PROVE  EmailInv'
BY DEF EmailInv, sendvars, Handed, PrintedAs

\* For any files, mails and line length: when a transfer is over, curl has been
\* handed what was meant if and only if every field fit and no body was empty.
THEOREM UploadCorrect == EmailSpec => []SentAsMeant
<1>0. Lines(<<>>) /\ PrintedAs(<<>>, <<>>)
  <2>1. Lines(<<>>) /\ Len(<<>>) = 0
    BY TupleLines
  <2> QED BY <2>1 DEF PrintedAs
<1>1. EmailInit => EmailInv
  BY <1>0 DEF EmailInit, EmailInv
<1>2. EmailInv /\ [EmailNext]_emailvars => EmailInv'
  <2> SUFFICES ASSUME EmailInv, [EmailNext]_emailvars PROVE EmailInv'
    OBVIOUS
  <2>0. Lines(attachments) /\ PrintedAs(meant, email_contents)
    BY DEF EmailInv
  <2>1. CASE addAttachment
    <3>1. email_contents' = email_contents /\ meant' = meant /\ UNCHANGED sendvars
      BY <2>1 DEF addAttachment
    <3>2. PICK f \in FileTexts, junk \in Junk :
            attachments' = attachments \o HeaderLines \o Encoded(f, junk) \/ attachments' = <<>>
      BY <2>1 DEF addAttachment
    <3>3. Lines(HeaderLines)
      BY TupleLines, Zenon DEF HeaderLines
    <3>4. Lines(attachments')
      BY <1>0, <2>0, <3>2, <3>3, EncodedLines, LinesConcat
    <3>5. PrintedAs(meant', email_contents')
      BY <2>0, <3>1
    <3> QED BY <3>1, <3>4, <3>5, WriteStep
  <2>2. CASE constructEmail
    <3>1. attachments' = attachments /\ UNCHANGED sendvars
      BY <2>2 DEF constructEmail
    <3>2. PICK m \in Mails :
            /\ meant' = meant \o Composed(m)
            /\ email_contents' = email_contents \o [j \in DOMAIN Composed(m) |-> Printed(Composed(m)[j])]
      BY <2>2, Zenon DEF constructEmail
    <3>3. PrintedAs(meant', email_contents')
      BY <2>0, <3>2, ComposedLines, PrintedConcat
    <3>4. Lines(attachments')
      BY <2>0, <3>1
    <3> QED BY <3>1, <3>3, <3>4, WriteStep
  <2>3. CASE send
    <3>1. /\ upload' = "running" /\ lines_read' = 0 /\ global_vec' = email_contents
          /\ received' = <<>> /\ asked' = meant /\ UNCHANGED writevars
      BY <2>3 DEF send
    <3>2. Handed' /\ Len(received') = 0
      BY <1>0, <3>1 DEF Handed, PrintedAs
    <3>3. 0 \in 0 .. Len(email_contents)
      BY <2>0, LinesMeans DEF PrintedAs
    <3> QED BY <2>0, <3>1, <3>2, <3>3 DEF EmailInv, writevars
  <2>4. CASE clearEmailContents
    <3>1. /\ attachments' = <<>> /\ email_contents' = <<>> /\ meant' = <<>> /\ UNCHANGED sendvars
      BY <2>4 DEF clearEmailContents
    <3>2. Lines(attachments') /\ PrintedAs(meant', email_contents')
      BY <1>0, <3>1
    <3> QED BY <3>1, <3>2, WriteStep
  <2>5. CASE removeAllAttachments
    <3>1. attachments' = <<>> /\ UNCHANGED <<email_contents, meant, sendvars>>
      BY <2>5 DEF removeAllAttachments
    <3>2. Lines(attachments') /\ PrintedAs(meant', email_contents')
      BY <1>0, <2>0, <3>1
    <3> QED BY <3>1, <3>2, WriteStep
  <2>6. CASE payload_source
    BY <2>6, UploadStep
  <2>7. CASE UploadFails
    <3>1. upload' = "failed" /\ UNCHANGED <<writevars, global_vec, asked>>
      BY <2>7 DEF UploadFails
    <3> QED BY <3>1 DEF EmailInv, writevars
  <2>8. CASE UNCHANGED emailvars
    <3>1. UNCHANGED <<attachments, email_contents, meant, sendvars>>
      BY <2>8 DEF emailvars, writevars
    <3>2. Lines(attachments') /\ PrintedAs(meant', email_contents')
      BY <2>0, <3>1
    <3> QED BY <3>1, <3>2, WriteStep
  <2> QED BY <2>1, <2>2, <2>3, <2>4, <2>5, <2>6, <2>7, <2>8 DEF EmailNext
<1>3. EmailInv => SentAsMeant
  BY InvSent
<1> QED BY <1>1, <1>2, <1>3, PTL DEF EmailSpec
-----------------------------------------------------------------------------
(***************************************************************************)
(* Sizes as text.                                                          *)
(***************************************************************************)
LEMMA DigitChars ==
  /\ Len(Digits) = 10 /\ ToSet(Digits) = {Digits[i] : i \in 1 .. 10}
  /\ \A i, j \in 1 .. 10 : Digits[i] = Digits[j] => i = j
  /\ Cut \notin ToSet(Digits)
<1>1. Len(Digits) = 10 /\ DOMAIN Digits = 1 .. 10
  BY DEF Digits
<1>2. ToSet(Digits) = {Digits[i] : i \in 1 .. 10}
  BY <1>1 DEF ToSet
<1>3. \A i, j \in 1 .. 10 : Digits[i] = Digits[j] => i = j
  BY DEF Digits
<1>4. \A i \in 1 .. 10 : Digits[i] # Cut
  BY DEF Digits, Cut
<1> QED BY <1>1, <1>2, <1>3, <1>4

LEMMA ValueOfDigit == \A n \in 0 .. 9 : Value(Digits[n + 1]) = n
<1> SUFFICES ASSUME NEW n \in 0 .. 9 PROVE Value(Digits[n + 1]) = n
  OBVIOUS
<1> DEFINE I == {i \in 1 .. Len(Digits) : Digits[i] = Digits[n + 1]}
<1>1. I = {n + 1}
  BY DigitChars
<1>2. Min({n + 1}) = n + 1
  <2>1. {n + 1} \subseteq Nat /\ \A y \in {n + 1} : n + 1 <= y
    OBVIOUS
  <2> QED BY <2>1, LeastIsMin
<1>3. SelectInSeq(Digits, LAMBDA d : d = Digits[n + 1]) = IF I # {} THEN Min(I) ELSE 0
  BY DEF SelectInSeq
<1> HIDE DEF I
<1>4. SelectInSeq(Digits, LAMBDA d : d = Digits[n + 1]) = n + 1
  BY <1>1, <1>2, <1>3
<1> QED BY <1>4 DEF Value

LEMMA ValueIsNat == \A c \in ToSet(Digits) : Value(c) \in Nat
<1> SUFFICES ASSUME NEW c \in ToSet(Digits) PROVE Value(c) \in Nat
  OBVIOUS
<1>1. PICK i \in 1 .. 10 : c = Digits[i]
  BY DigitChars
<1>2. i - 1 \in 0 .. 9 /\ (i - 1) + 1 = i
  OBVIOUS
<1>3. Value(Digits[(i - 1) + 1]) = i - 1
  BY <1>2, ValueOfDigit
<1> QED BY <1>1, <1>2, <1>3

\* How many digits t begins with.
End(t) == SelectInSeq(Append(t, Cut), LAMBDA c : c \notin ToSet(Digits)) - 1

LEMMA EndOf ==
  ASSUME NEW S, NEW t \in Seq(S)
  PROVE  /\ End(t) \in 0 .. Len(t)
         /\ \A i \in 1 .. End(t) : t[i] \in ToSet(Digits)
         /\ End(t) = Len(t) \/ t[End(t) + 1] \notin ToSet(Digits)
<1> DEFINE u == Append(t, Cut)
           I == {i \in 1 .. Len(u) : u[i] \notin ToSet(Digits)}
<1>1. /\ Len(t) \in Nat /\ Len(u) = Len(t) + 1 /\ u[Len(t) + 1] = Cut
      /\ \A i \in 1 .. Len(t) : u[i] = t[i]
  BY LenProperties
<1>2. SelectInSeq(u, LAMBDA c : c \notin ToSet(Digits)) = IF I # {} THEN Min(I) ELSE 0
  BY DEF SelectInSeq
<1> HIDE DEF u
<1>3. I \subseteq Nat /\ Len(t) + 1 \in I
  BY <1>1, DigitChars
<1>4. PICK p \in I : p = Min(I) /\ \A y \in I : p <= y
  <2> HIDE DEF I
  <2> QED BY <1>3, MinIsLeast
<1>5. End(t) = p - 1
  BY <1>2, <1>3, <1>4 DEF End, u
<1>6. p \in 1 .. Len(t) + 1
  BY <1>1, <1>4
<1>7. \A i \in 1 .. p - 1 : u[i] \in ToSet(Digits)
  BY <1>1, <1>4, <1>6
<1>8. u[p] \notin ToSet(Digits)
  BY <1>4
<1>9. \A i \in 1 .. p - 1 : t[i] \in ToSet(Digits)
  <2>1. \A i \in 1 .. p - 1 : i \in 1 .. Len(t)
    BY <1>1, <1>6
  <2>2. \A i \in 1 .. p - 1 : u[i] = t[i]
    BY <1>1, <2>1
  <2> QED BY <1>7, <2>2
<1>10. p - 1 = Len(t) \/ (p - 1) + 1 \in 1 .. Len(t)
  BY <1>1, <1>6
<1>11. (p - 1) + 1 = p
  BY <1>6
<1> QED BY <1>1, <1>5, <1>6, <1>8, <1>9, <1>10, <1>11

\* g is what Number has read after each of m digits.
Counts(g, t, m) == \A k \in 0 .. m : g[k] = IF k = 0 THEN 0 ELSE 10 * g[k - 1] + Value(t[k])

LEMMA CountsExist ==
  ASSUME NEW t, NEW m \in Nat
  PROVE  \E g : Counts(g, t, m) /\ DOMAIN g = 0 .. m
<1> DEFINE T == {n \in Nat : ~ \E g : Counts(g, t, n) /\ DOMAIN g = 0 .. n}
<1>1. ASSUME T # {} PROVE FALSE
  <2>1. PICK n \in T : \A y \in T : ~(y < n)
    <3>1. T \subseteq Nat
      OBVIOUS
    <3> HIDE DEF T
    <3> QED BY <1>1, <3>1, LeastNatural
  <2>2. n # 0
    <3> DEFINE g == [k \in 0 .. 0 |-> 0]
    <3>1. Counts(g, t, 0) /\ DOMAIN g = 0 .. 0
      BY DEF Counts
    <3> HIDE DEF g
    <3> QED BY <3>1
  <2>3. n - 1 \in Nat /\ n - 1 < n
    BY <2>2
  <2>4. PICK g : Counts(g, t, n - 1) /\ DOMAIN g = 0 .. n - 1
    BY <2>1, <2>3
  <2> DEFINE x == 10 * g[n - 1] + Value(t[n])
             h == [k \in 0 .. n |-> IF k = n THEN x ELSE g[k]]
  <2>5. /\ h[n] = x /\ DOMAIN h = 0 .. n
        /\ \A k \in 0 .. n - 1 : h[k] = g[k]
    OBVIOUS
  <2> HIDE DEF h
  <2>6. ASSUME NEW k \in 0 .. n
        PROVE  h[k] = IF k = 0 THEN 0 ELSE 10 * h[k - 1] + Value(t[k])
    <3>1. CASE k = n
      BY <2>2, <2>3, <2>5, <3>1
    <3>2. CASE k # n
      <4>1. k \in 0 .. n - 1 /\ (k # 0 => k - 1 \in 0 .. n - 1)
        BY <3>2
      <4>2. g[k] = IF k = 0 THEN 0 ELSE 10 * g[k - 1] + Value(t[k])
        BY <2>4, <4>1 DEF Counts
      <4>3. h[k] = g[k] /\ (k # 0 => h[k - 1] = g[k - 1])
        BY <2>5, <4>1
      <4> QED BY <4>2, <4>3
    <3> QED BY <3>1, <3>2
  <2>7. Counts(h, t, n)
    BY <2>6 DEF Counts
  <2> QED BY <2>1, <2>5, <2>7
<1>2. m \notin T
  BY <1>1
<1> QED BY <1>2

LEMMA NumberCounts ==
  ASSUME NEW S, NEW t \in Seq(S)
  PROVE  \E g : Counts(g, t, End(t)) /\ Number(t) = g[End(t)]
<1> DEFINE e == End(t)
           G(g) == [k \in 0 .. e |-> IF k = 0 THEN 0 ELSE 10 * g[k - 1] + Value(t[k])]
           upto == CHOOSE g : g = G(g)
<1>1. e \in Nat
  BY EndOf
<1>2. PICK g : Counts(g, t, e) /\ DOMAIN g = 0 .. e
  <2> HIDE DEF e
  <2> QED BY <1>1, CountsExist
<1> DEFINE h == [k \in 0 .. e |-> g[k]]
<1>3. h = G(h)
  <2>1. \A k \in 0 .. e : k # 0 => k - 1 \in 0 .. e
    BY <1>1
  <2>2. \A k \in 0 .. e : g[k] = IF k = 0 THEN 0 ELSE 10 * h[k - 1] + Value(t[k])
    BY <1>2, <2>1 DEF Counts
  <2> QED BY <2>2
<1>4. upto = G(upto)
  <2> HIDE DEF G, h
  <2> QED BY <1>3
<1>5. Number(t) = upto[e]
  BY DEF Number, End
<1> HIDE DEF upto
<1>6. Counts(upto, t, e)
  BY <1>4 DEF Counts
<1> QED BY <1>5, <1>6

LEMMA NumberIsNat ==
  ASSUME NEW S, NEW t \in Seq(S)
  PROVE  Number(t) \in Nat
<1>1. PICK g : Counts(g, t, End(t)) /\ Number(t) = g[End(t)]
  BY NumberCounts
<1>2. /\ End(t) \in Nat /\ \A i \in 1 .. End(t) : t[i] \in ToSet(Digits)
  BY EndOf
<1> DEFINE e == End(t)
           T == {k \in 0 .. e : g[k] \notin Nat}
<1> HIDE DEF e
<1>3. ASSUME T # {} PROVE FALSE
  <2>1. PICK k \in T : \A y \in T : ~(y < k)
    <3>1. T \subseteq Nat
      BY <1>2 DEF e
    <3> HIDE DEF T
    <3> QED BY <1>3, <3>1, LeastNatural
  <2>2. g[k] = IF k = 0 THEN 0 ELSE 10 * g[k - 1] + Value(t[k])
    BY <1>1, <2>1 DEF Counts, e
  <2>3. k # 0
    BY <2>1, <2>2
  <2>4. k - 1 \in 0 .. e /\ k - 1 < k /\ k \in 1 .. e
    BY <1>2, <2>1, <2>3 DEF e
  <2>5. g[k - 1] \in Nat
    BY <2>1, <2>4
  <2>6. Value(t[k]) \in Nat
    BY <1>2, <2>4, ValueIsNat DEF e
  <2> QED BY <2>1, <2>2, <2>3, <2>5, <2>6
<1>4. e \in 0 .. e
  BY <1>2 DEF e
<1>5. g[e] \in Nat
  BY <1>3, <1>4
<1> QED BY <1>1, <1>5 DEF e

\* What is written of a size is read back.
LEMMA ToTextIsRead ==
  ASSUME NEW n \in 0 .. 99
  PROVE  /\ ToText(n) \in Seq(ToSet(Digits)) /\ Len(ToText(n)) \in 1 .. 2
         /\ Number(ToText(n)) = n
<1> DEFINE t == ToText(n)
<1>1. CASE n < 10
  <2>1. t = <<Digits[n + 1]>> /\ n \in 0 .. 9
    BY <1>1 DEF ToText
  <2>2. Digits[n + 1] \in ToSet(Digits)
    BY <2>1, DigitChars
  <2>3. t \in Seq(ToSet(Digits)) /\ Len(t) = 1 /\ t[1] = Digits[n + 1]
    BY <2>1, <2>2
  <2> HIDE DEF t
  <2>4. End(t) = 1
    <3>1. End(t) \in 0 .. 1 /\ (End(t) = 1 \/ t[End(t) + 1] \notin ToSet(Digits))
      BY <2>3, EndOf
    <3> QED BY <2>2, <2>3, <3>1
  <2>5. PICK g : Counts(g, t, 1) /\ Number(t) = g[1]
    BY <2>3, <2>4, NumberCounts
  <2>6. g[0] = 0 /\ g[1] = 10 * g[1 - 1] + Value(t[1])
    BY <2>5 DEF Counts
  <2>7. Value(t[1]) = n
    BY <2>1, <2>3, ValueOfDigit
  <2> QED BY <2>3, <2>5, <2>6, <2>7 DEF t
<1>2. CASE ~(n < 10)
  <2> DEFINE a == n \div 10
             b == n % 10
  <2>1. a \in 0 .. 9 /\ b \in 0 .. 9 /\ n = 10 * a + b
    BY <1>2
  <2>2. t = <<Digits[a + 1], Digits[b + 1]>>
    BY <1>2 DEF ToText
  <2> HIDE DEF a, b
  <2>3. Digits[a + 1] \in ToSet(Digits) /\ Digits[b + 1] \in ToSet(Digits)
    BY <2>1, DigitChars
  <2>4. t \in Seq(ToSet(Digits)) /\ Len(t) = 2 /\ t[1] = Digits[a + 1] /\ t[2] = Digits[b + 1]
    BY <2>2, <2>3
  <2> HIDE DEF t
  <2>5. End(t) = 2
    <3>1. End(t) \in 0 .. 2 /\ (End(t) = 2 \/ t[End(t) + 1] \notin ToSet(Digits))
      BY <2>4, EndOf
    <3> QED BY <2>3, <2>4, <3>1
  <2>6. PICK g : Counts(g, t, 2) /\ Number(t) = g[2]
    BY <2>4, <2>5, NumberCounts
  <2>7. g[0] = 0 /\ g[1] = 10 * g[1 - 1] + Value(t[1]) /\ g[2] = 10 * g[2 - 1] + Value(t[2])
    BY <2>6 DEF Counts
  <2>8. Value(t[1]) = a /\ Value(t[2]) = b
    BY <2>1, <2>4, ValueOfDigit
  <2>9. Number(t) = n
    BY <2>1, <2>6, <2>7, <2>8
  <2> QED BY <2>4, <2>9 DEF t
<1> QED BY <1>1, <1>2
-----------------------------------------------------------------------------
(***************************************************************************)
(* A text with an address behind it, cut again.                            *)
(***************************************************************************)
Letters == (Symbols \cup {Cut}) \cup ToSet(Digits)

LEMMA SeqMono == \A S, T : S \subseteq T => Seq(S) \subseteq Seq(T)
OBVIOUS

LEMMA CipherType ==
  ASSUME NEW c \in CipherTexts
  PROVE  c \in Seq(Letters) /\ Len(c) \in Nat /\ Len(c) >= 2
<1>1. c \in Seq(Symbols \cup {Cut}) /\ Len(c) >= 2
  BY CipherAssumption
<1>2. (Symbols \cup {Cut}) \subseteq Letters
  BY DEF Letters
<1>3. c \in Seq(Letters)
  BY <1>1, <1>2, SeqMono
<1> QED BY <1>1, <1>3, LenProperties

LEMMA AddressType ==
  ASSUME NEW n \in Nodes
  PROVE  /\ Address[n] \in Seq(Letters) /\ Len(Address[n]) \in 0 .. 99
         /\ \A i \in 1 .. Len(Address[n]) : Address[n][i] # Cut
<1>1. Address[n] \in Seq(Symbols)
  BY AddressAssumption, Zenon
<1>2. Len(Address[n]) \in Nat /\ Len(Address[n]) < 100
  BY <1>1, LenProperties, RouteAssumption
<1>3. Symbols \subseteq Letters
  BY DEF Letters
<1>4. Address[n] \in Seq(Letters)
  BY <1>1, <1>3, SeqMono
<1>5. \A i \in 1 .. Len(Address[n]) : Address[n][i] \in Symbols
  BY <1>1, ElementOfSeq
<1>6. Len(Address[n]) \in 0 .. 99
  <2> DEFINE l == Len(Address[n])
  <2>1. l \in Nat /\ l < 100
    BY <1>2
  <2> HIDE DEF l
  <2>2. l \in 0 .. 99
    BY <2>1
  <2> QED BY <2>2 DEF l
<1> QED BY <1>4, <1>5, <1>6, CipherAssumption

LEMMA SizeType ==
  ASSUME NEW n \in 0 .. 99
  PROVE  /\ ToText(n) \in Seq(Letters) /\ Len(ToText(n)) \in 1 .. 2
         /\ \A i \in 1 .. Len(ToText(n)) : ToText(n)[i] # Cut
<1>1. ToText(n) \in Seq(ToSet(Digits)) /\ Len(ToText(n)) \in 1 .. 2
  BY ToTextIsRead
<1>2. ToSet(Digits) \subseteq Letters
  BY DEF Letters
<1>3. ToText(n) \in Seq(Letters)
  BY <1>1, <1>2, SeqMono
<1>4. \A i \in 1 .. Len(ToText(n)) : ToText(n)[i] \in ToSet(Digits)
  BY <1>1, ElementOfSeq
<1> QED BY <1>1, <1>3, <1>4, DigitChars

LEMMA MarkerType == <<Cut>> \in Seq(Letters) /\ Len(<<Cut>>) = 1 /\ <<Cut>>[1] = Cut
BY DEF Letters

\* The text's parts.
LEMMA AddressedParts ==
  ASSUME NEW c \in CipherTexts, NEW n \in Nodes
  PROVE  LET t == Addressed(c, n)
             a == Len(Address[n])
             d == ToText(a)
         IN  /\ t \in Seq(Letters)
             /\ Len(t) = Len(c) + a + 1 + Len(d)
             /\ \A i \in 1 .. Len(c) : t[i] = c[i]
             /\ \A i \in 1 .. a : t[Len(c) + i] = Address[n][i]
             /\ t[Len(c) + a + 1] = Cut
             /\ \A i \in 1 .. Len(d) : t[Len(c) + a + 1 + i] = d[i]
<1> DEFINE L == Len(c)
           a == Len(Address[n])
           d == ToText(a)
           e == Len(d)
           t1 == c \o Address[n]
           t2 == t1 \o <<Cut>>
           t3 == t2 \o d
<1>1. /\ c \in Seq(Letters) /\ L \in Nat /\ Address[n] \in Seq(Letters) /\ a \in 0 .. 99 /\ a \in Nat
      /\ <<Cut>> \in Seq(Letters) /\ Len(<<Cut>>) = 1 /\ <<Cut>>[1] = Cut
  <2>1. a \in 0 .. 99 /\ Address[n] \in Seq(Letters)
    BY AddressType
  <2>2. c \in Seq(Letters) /\ L \in Nat
    BY CipherType
  <2> QED BY <2>1, <2>2, MarkerType
<1>2. d \in Seq(Letters) /\ e \in Nat
  <2>1. a \in 0 .. 99
    BY <1>1
  <2> HIDE DEF a
  <2>2. d \in Seq(Letters) /\ e \in 1 .. 2
    BY <2>1, SizeType
  <2> QED BY <2>2
<1>3. /\ t1 \in Seq(Letters) /\ Len(t1) = L + a
      /\ \A i \in 1 .. L + a : t1[i] = IF i <= L THEN c[i] ELSE Address[n][i - L]
  BY <1>1, ConcatProperties
<1>4. /\ t2 \in Seq(Letters) /\ Len(t2) = L + a + 1
      /\ \A i \in 1 .. L + a + 1 : t2[i] = IF i <= L + a THEN t1[i] ELSE <<Cut>>[i - (L + a)]
  <2> HIDE DEF t1, L, a
  <2> QED BY <1>1, <1>3, ConcatProperties
<1>5. /\ t3 \in Seq(Letters) /\ Len(t3) = L + a + 1 + e
      /\ \A i \in 1 .. L + a + 1 + e : t3[i] = IF i <= L + a + 1 THEN t2[i] ELSE d[i - (L + a + 1)]
  <2> HIDE DEF t2, L, a, d
  <2>1. t2 \in Seq(Letters) /\ d \in Seq(Letters) /\ Len(t2) = L + a + 1 /\ e = Len(d)
    BY <1>2, <1>4
  <2> HIDE DEF e
  <2> USE <2>1
  <2>2. /\ t3 \in Seq(Letters) /\ Len(t3) = Len(t2) + Len(d)
        /\ \A i \in 1 .. Len(t2) + Len(d) : t3[i] = IF i <= Len(t2) THEN t2[i] ELSE d[i - Len(t2)]
    BY ConcatProperties
  <2> QED BY <2>2, Zenon
<1>6. Addressed(c, n) = t3
  BY DEF Addressed
<1> HIDE DEF t1, t2, t3, L, a, e, d
<1>7. \A i \in 1 .. L : t3[i] = c[i]
  <2> SUFFICES ASSUME NEW i \in 1 .. L PROVE t3[i] = c[i]
    OBVIOUS
  <2>1. /\ i \in 1 .. L + a /\ i \in 1 .. L + a + 1 /\ i \in 1 .. L + a + 1 + e
        /\ i <= L /\ i <= L + a /\ i <= L + a + 1
    BY <1>1, <1>2
  <2> QED BY <2>1, <1>3, <1>4, <1>5
<1>8. \A i \in 1 .. a : t3[L + i] = Address[n][i]
  <2> SUFFICES ASSUME NEW i \in 1 .. a PROVE t3[L + i] = Address[n][i]
    OBVIOUS
  <2>1. /\ L + i \in 1 .. L + a /\ L + i \in 1 .. L + a + 1 /\ L + i \in 1 .. L + a + 1 + e
        /\ ~(L + i <= L) /\ L + i <= L + a /\ L + i <= L + a + 1 /\ (L + i) - L = i
    BY <1>1, <1>2
  <2> QED BY <2>1, <1>3, <1>4, <1>5
<1>9. t3[L + a + 1] = Cut
  <2>1. /\ L + a + 1 \in 1 .. L + a + 1 /\ L + a + 1 \in 1 .. L + a + 1 + e
        /\ ~(L + a + 1 <= L + a) /\ (L + a + 1) - (L + a) = 1
    BY <1>1, <1>2
  <2> QED BY <2>1, <1>1, <1>4, <1>5
<1>10. \A i \in 1 .. e : t3[L + a + 1 + i] = d[i]
  <2> SUFFICES ASSUME NEW i \in 1 .. e PROVE t3[L + a + 1 + i] = d[i]
    OBVIOUS
  <2>1. /\ L + a + 1 + i \in 1 .. L + a + 1 + e /\ ~(L + a + 1 + i <= L + a + 1)
        /\ (L + a + 1 + i) - (L + a + 1) = i
    BY <1>1, <1>2
  <2> QED BY <2>1, <1>5
<1> QED BY <1>5, <1>6, <1>7, <1>8, <1>9, <1>10 DEF L, a, d, e

LEMMA FoundFirst ==
  ASSUME NEW S, NEW t \in Seq(S), NEW p \in 1 .. Len(t), t[p] = Cut,
         \A i \in 1 .. p - 1 : t[i] # Cut
  PROVE  Found(t) = p
<1> DEFINE I == {i \in 1 .. Len(t) : t[i] = Cut}
<1>1. Len(t) \in Nat /\ I \subseteq Nat /\ p \in I
  BY LenProperties
<1>2. \A y \in I : p <= y
  <2> SUFFICES ASSUME NEW y \in I, y < p PROVE FALSE
    BY <1>1
  <2>1. y \in 1 .. p - 1
    BY <1>1
  <2> QED BY <2>1
<1>3. Found(t) = IF I # {} THEN Min(I) ELSE 0
  BY DEF Found, SelectInSeq
<1> HIDE DEF I
<1>4. Min(I) = p
  BY <1>1, <1>2, LeastIsMin
<1> QED BY <1>1, <1>3, <1>4

\* A part of a sequence that is one.
LEMMA PartIs ==
  ASSUME NEW S, NEW t \in Seq(S), NEW s \in Seq(S), NEW k \in Nat, k + Len(s) <= Len(t),
         \A i \in 1 .. Len(s) : t[k + i] = s[i]
  PROVE  SubSeq(t, k + 1, k + Len(s)) = s
<1> DEFINE l == Len(s)
           w == SubSeq(t, k + 1, k + l)
<1>1. l \in Nat /\ Len(t) \in Nat /\ k + l <= Len(t)
  BY LenProperties
<1>2. \A i \in k + 1 .. k + l : t[i] \in S
  <2>1. \A i \in k + 1 .. k + l : i \in 1 .. Len(t)
    BY <1>1
  <2> QED BY <2>1, ElementOfSeq
<1> HIDE DEF l
<1>3. /\ w \in Seq(S) /\ Len(w) = IF k + 1 <= k + l THEN (k + l) - (k + 1) + 1 ELSE 0
      /\ \A i \in 1 .. (k + l) - (k + 1) + 1 : w[i] = t[(k + 1) + i - 1]
  BY <1>1, <1>2, SubSeqProperties
<1> HIDE DEF w
<1>4. Len(w) = l /\ (k + l) - (k + 1) + 1 = l /\ \A i \in 1 .. l : (k + 1) + i - 1 = k + i
  BY <1>1, <1>3
<1>5. \A i \in 1 .. Len(w) : w[i] = s[i]
  BY <1>3, <1>4 DEF l
<1>6. w = s
  BY <1>3, <1>4, <1>5, SeqEqual DEF l
<1> QED BY <1>6 DEF w, l

\* A text without the marker is cut where it was put together.
LEMMA ParsesBack ==
  ASSUME NEW c \in CipherTexts, NEW n \in Nodes, Cut \notin ToSet(c)
  PROVE  LET t == Addressed(c, n)
         IN  Parses(t) /\ ~Astray(t) /\ Res(t) = c /\ Ip(t) = Address[n]
<1> DEFINE t == Addressed(c, n)
           L == Len(c)
           a == Len(Address[n])
           d == ToText(a)
           e == Len(d)
<1>1. /\ c \in Seq(Letters) /\ L \in Nat /\ L >= 2 /\ Address[n] \in Seq(Letters) /\ a \in 0 .. 99 /\ a \in Nat
      /\ \A i \in 1 .. a : Address[n][i] # Cut
  <2>1. /\ a \in 0 .. 99 /\ Address[n] \in Seq(Letters)
        /\ \A i \in 1 .. a : Address[n][i] # Cut
    BY AddressType
  <2>2. c \in Seq(Letters) /\ L \in Nat /\ L >= 2
    BY CipherType
  <2> QED BY <2>1, <2>2
<1>2. /\ d \in Seq(Letters) /\ e \in 1 .. 2 /\ \A i \in 1 .. e : d[i] # Cut
      /\ Number(d) = a
  <2>1. a \in 0 .. 99
    BY <1>1
  <2> HIDE DEF a
  <2>2. d \in Seq(Letters) /\ e \in 1 .. 2 /\ \A i \in 1 .. e : d[i] # Cut
    BY <2>1, SizeType
  <2>3. Number(d) = a
    BY <2>1, ToTextIsRead
  <2> QED BY <2>2, <2>3
<1>3. Number(d) = a
  BY <1>2
<1>4. /\ t \in Seq(Letters) /\ Len(t) = L + a + 1 + e
      /\ \A i \in 1 .. L : t[i] = c[i]
      /\ \A i \in 1 .. a : t[L + i] = Address[n][i]
      /\ t[L + a + 1] = Cut
      /\ \A i \in 1 .. e : t[L + a + 1 + i] = d[i]
  BY AddressedParts
<1>5. \A i \in 1 .. L : c[i] # Cut
  <2>1. DOMAIN c = 1 .. L
    BY <1>1, LenProperties
  <2> QED BY <2>1 DEF ToSet
<1> HIDE DEF t, L, a, d, e
<1>6. Found(t) = L + a + 1
  <2>1. ASSUME NEW i \in 1 .. (L + a + 1) - 1 PROVE t[i] # Cut
    <3>1. CASE i <= L
      <4>1. i \in 1 .. L
        BY <3>1, <1>1
      <4> QED BY <4>1, <1>4, <1>5
    <3>2. CASE ~(i <= L)
      <4>1. i - L \in 1 .. a /\ L + (i - L) = i
        BY <3>2, <1>1
      <4> DEFINE j == i - L
      <4> HIDE DEF j
      <4>2. t[L + j] = Address[n][j] /\ Address[n][j] # Cut
        BY <4>1, <1>1, <1>4 DEF j
      <4> QED BY <4>1, <4>2 DEF j
    <3> QED BY <3>1, <3>2
  <2>2. L + a + 1 \in 1 .. Len(t)
    BY <1>1, <1>2, <1>4
  <2> QED BY <2>1, <2>2, <1>4, FoundFirst
<1> DEFINE B == Before(t)
<1>7. B \in Seq(Letters) /\ Len(B) = L + a /\ \A i \in 1 .. L + a : B[i] = t[i]
  <2>1. B = SubSeq(t, 1, L + a)
    <3>1. (L + a + 1) - 1 = L + a
      BY <1>1
    <3> QED BY <1>6, <3>1 DEF Before
  <2>2. \A i \in 1 .. L + a : t[i] \in Letters
    <3>1. \A i \in 1 .. L + a : i \in 1 .. Len(t)
      BY <1>1, <1>2, <1>4
    <3> QED BY <3>1, <1>4, ElementOfSeq
  <2>3. 1 \in Int /\ L + a \in Int
    BY <1>1
  <2>4. /\ B \in Seq(Letters) /\ Len(B) = IF 1 <= L + a THEN (L + a) - 1 + 1 ELSE 0
        /\ \A i \in 1 .. (L + a) - 1 + 1 : B[i] = t[1 + i - 1]
    BY <2>1, <2>2, <2>3, SubSeqProperties
  <2>5. (L + a) - 1 + 1 = L + a /\ 1 <= L + a /\ \A i \in 1 .. L + a : 1 + i - 1 = i
    BY <1>1
  <2> QED BY <2>4, <2>5
<1>8. ToRead(t) = d
  <2>1. SubSeq(t, (L + a + 1) + 1, (L + a + 1) + Len(d)) = d
    <3>1. L + a + 1 \in Nat /\ (L + a + 1) + Len(d) <= Len(t)
      BY <1>1, <1>2, <1>4 DEF e
    <3>2. \A i \in 1 .. Len(d) : t[(L + a + 1) + i] = d[i]
      BY <1>4 DEF e
    <3> QED BY <3>1, <3>2, <1>2, <1>4, PartIs
  <2> QED BY <2>1, <1>4, <1>6 DEF ToRead, e
<1> HIDE DEF B
<1>9. Split(t) = L
  <2>1. Split(t) = Len(B) - Number(d)
    BY <1>8 DEF Split, B
  <2> QED BY <2>1, <1>1, <1>3, <1>7
<1>10. Parses(t)
  BY <1>1, <1>6, <1>9 DEF Parses
<1>11. Res(t) = c
  <2>1. SubSeq(B, 0 + 1, 0 + Len(c)) = c
    <3>1. 0 + Len(c) <= Len(B) /\ 0 \in Nat
      BY <1>1, <1>7 DEF L
    <3>2. \A i \in 1 .. Len(c) : B[0 + i] = c[i]
      <4>1. \A i \in 1 .. L : i \in 1 .. L + a /\ 0 + i = i
        BY <1>1
      <4> QED BY <4>1, <1>4, <1>7 DEF L
    <3> QED BY <3>1, <3>2, <1>1, <1>7, PartIs
  <2>2. 0 + 1 = 1 /\ 0 + Len(c) = L
    BY <1>1 DEF L
  <2> QED BY <2>1, <2>2, <1>9 DEF Res, B
<1>12. Ip(t) = Address[n]
  <2>1. SubSeq(B, L + 1, L + Len(Address[n])) = Address[n]
    <3>1. L + Len(Address[n]) <= Len(B)
      BY <1>1, <1>7 DEF a
    <3>2. \A i \in 1 .. Len(Address[n]) : B[L + i] = Address[n][i]
      <4>1. \A i \in 1 .. a : L + i \in 1 .. L + a
        BY <1>1
      <4> QED BY <4>1, <1>4, <1>7 DEF a
    <3> QED BY <3>1, <3>2, <1>1, <1>7, PartIs
  <2>2. L + Len(Address[n]) = Len(B)
    BY <1>7 DEF a
  <2> QED BY <2>1, <2>2, <1>9 DEF Ip, B
<1>13. ~Astray(t)
  <2>1. {i \in DOMAIN d : d[i] = Cut} = {}
    <3>1. DOMAIN d = 1 .. e
      BY <1>2, LenProperties DEF e
    <3> QED BY <3>1, <1>2
  <2>2. Size(d) = e + 6 * 0
    BY <2>1, FS_EmptySet DEF Size, e
  <2>3. Size(d) = e
    BY <2>2, <1>2
  <2> QED BY <2>3, <1>1, <1>2, <1>8, <1>9 DEF Astray
<1> QED BY <1>10, <1>11, <1>12, <1>13 DEF t

\* One with the marker is cut too early, or not at all.
LEMMA ParsesShort ==
  ASSUME NEW c \in CipherTexts, NEW n \in Nodes, Cut \in ToSet(c), Parses(Addressed(c, n))
  PROVE  Res(Addressed(c, n)) # c
<1> DEFINE t == Addressed(c, n)
           a == Len(Address[n])
           I == {i \in 1 .. Len(c) : c[i] = Cut}
<1>1. c \in Seq(Letters) /\ Len(c) \in Nat /\ DOMAIN c = 1 .. Len(c) /\ a \in 0 .. 99
  BY CipherType, AddressType, LenProperties
<1>2. /\ t \in Seq(Letters) /\ Len(t) >= Len(c) /\ Len(t) \in Nat
      /\ \A i \in 1 .. Len(c) : t[i] = c[i]
  <2>1. Len(ToText(a)) \in 1 .. 2
    <3> HIDE DEF a
    <3> QED BY <1>1, SizeType
  <2>2. /\ t \in Seq(Letters) /\ Len(t) = Len(c) + a + 1 + Len(ToText(a))
        /\ \A i \in 1 .. Len(c) : t[i] = c[i]
    BY AddressedParts
  <2>3. a \in Nat
    BY <1>1
  <2>4. t \in Seq(Letters) /\ Len(t) \in Nat
    BY <2>2, LenProperties
  <2> HIDE DEF t, a
  <2>5. Len(t) >= Len(c)
    BY <1>1, <2>1, <2>2, <2>3 DEF t
  <2> QED BY <2>2, <2>4, <2>5 DEF t
<1> HIDE DEF t
<1>3. PICK p \in I : \A y \in I : ~(y < p)
  <2>1. I \subseteq Nat /\ I # {}
    BY <1>1 DEF ToSet
  <2> HIDE DEF I
  <2> QED BY <2>1, LeastNatural
<1>4. Found(t) = p
  <2>1. p \in 1 .. Len(t) /\ t[p] = Cut
    BY <1>1, <1>2, <1>3
  <2>2. ASSUME NEW i \in 1 .. p - 1 PROVE t[i] # Cut
    <3>1. i \in 1 .. Len(c) /\ i < p
      BY <1>1, <1>3
    <3> QED BY <3>1, <1>2, <1>3
  <2> QED BY <2>1, <2>2, <1>2, FoundFirst
<1>5. \A i \in 1 .. Len(t) : t[i] \in Letters
  BY <1>2, ElementOfSeq
<1>6. Len(Before(t)) = p - 1 /\ Before(t) \in Seq(Letters) /\ p \in 1 .. Len(c)
  <2>1. p \in 1 .. Len(c) /\ p - 1 \in Int /\ \A i \in 1 .. p - 1 : i \in 1 .. Len(t)
    BY <1>1, <1>2, <1>3
  <2>2. \A i \in 1 .. p - 1 : t[i] \in Letters
    BY <1>5, <2>1
  <2>3. Before(t) = SubSeq(t, 1, p - 1)
    BY <1>4 DEF Before
  <2>4. /\ SubSeq(t, 1, p - 1) \in Seq(Letters)
        /\ Len(SubSeq(t, 1, p - 1)) = IF 1 <= p - 1 THEN (p - 1) - 1 + 1 ELSE 0
    BY <2>1, <2>2, SubSeqProperties
  <2>5. (IF 1 <= p - 1 THEN (p - 1) - 1 + 1 ELSE 0) = p - 1
    BY <2>1
  <2> QED BY <2>1, <2>3, <2>4, <2>5
<1>7. Number(ToRead(t)) \in Nat
  <2>1. \A i \in p + 1 .. Len(t) : i \in 1 .. Len(t)
    BY <1>2, <1>6
  <2>2. SubSeq(t, p + 1, Len(t)) \in Seq(Letters)
    BY <2>1, <1>2, <1>5, <1>6, SubSeqProperties
  <2>3. ToRead(t) \in Seq(Letters)
    BY <1>4, <2>2 DEF ToRead
  <2> QED BY <2>3, NumberIsNat
<1>8. Split(t) \in Nat /\ Split(t) <= p - 1
  <2>1. Split(t) >= 0
    BY DEF Parses, t
  <2>2. Split(t) = Len(Before(t)) - Number(ToRead(t))
    BY DEF Split
  <2> QED BY <2>1, <2>2, <1>6, <1>7
<1>9. Len(Res(t)) < Len(c)
  <2> DEFINE B == Before(t)
             q == Split(t)
  <2>1. Len(B) = p - 1 /\ B \in Seq(Letters) /\ q \in Nat /\ q <= p - 1 /\ p \in 1 .. Len(c)
    BY <1>6, <1>8
  <2>2. Res(t) = SubSeq(B, 1, q)
    BY DEF Res
  <2> HIDE DEF B, q
  <2>3. \A i \in 1 .. q : B[i] \in Letters
    <3>1. \A i \in 1 .. q : i \in 1 .. Len(B)
      BY <2>1
    <3> QED BY <2>1, <3>1, ElementOfSeq
  <2>4. Len(SubSeq(B, 1, q)) = IF 1 <= q THEN q - 1 + 1 ELSE 0
    BY <2>1, <2>3, SubSeqProperties
  <2> QED BY <1>1, <2>1, <2>2, <2>4
<1> QED BY <1>1, <1>9 DEF t
-----------------------------------------------------------------------------
(***************************************************************************)
(* The packet's way.  The layers are counted from the inside: the envelope *)
(* for the mailbox is the 0th.                                             *)
(***************************************************************************)
Cipher(e, s, j) == IF j = 0 THEN e ELSE s[j]
Hop(j) == IF j = 0 THEN Mailbox ELSE Path[j]
Layer(e, s, j) == Addressed(Cipher(e, s, j), Hop(j))

KeysRead == \A m \in ToSet(Path) : keys[m][KeyLength] # Underscore

\* The mixers that have opened a layer are the path's last ones, backwards.
Along == /\ Len(peeled) <= Len(Path)
         /\ \A j \in 1 .. Len(peeled) : peeled[j] = Path[Len(Path) + 1 - j]
Left == Len(Path) - Len(peeled)

PacketType ==
    /\ keys \in [ToSet(Path) -> KeyTexts] /\ envelope \in CipherTexts
    /\ stage \in {"lines", "seal", "arrived", "lost", "died"}
    /\ at \in Nodes \cup {"client"} /\ peeled \in Seq(Nodes \cup {"client"})
    /\ sealed \in Seq(CipherTexts) /\ plain \in Seq(Seq(Letters))
    /\ Len(sealed) <= Len(Path) /\ Len(plain) = Len(sealed)

PacketInv ==
    /\ PacketType
    /\ \A i \in 1 .. Len(sealed) : plain[i] = Layer(envelope, sealed, i - 1)
    /\ stage \in {"lines", "seal"} => peeled = <<>>
    /\ stage = "lines" => sealed = <<>>
    /\ stage = "seal" => text = Layer(envelope, sealed, Len(sealed))
    /\ stage \in {"seal", "arrived", "lost"} => KeysRead
    /\ stage \in {"arrived", "lost"} => Len(sealed) = Len(Path)
    /\ stage = "arrived" /\ Along =>
         /\ Parses(Layer(envelope, sealed, Left)) /\ text = Res(Layer(envelope, sealed, Left))
         /\ \A j \in Left + 1 .. Len(Path) : Cut \notin ToSet(sealed[j])
    /\ stage \in {"arrived", "lost", "died"} /\ ~Marked =>
         stage = "arrived" /\ Along /\ text = Cipher(envelope, sealed, Left) /\ at = Hop(Left)

LEMMA PathType ==
  /\ Path \in Seq(ToSet(Path)) /\ Len(Path) \in Nat /\ DOMAIN Path = 1 .. Len(Path)
  /\ \A j \in 1 .. Len(Path) : Path[j] \in ToSet(Path) /\ Path[j] # Mailbox
  /\ \A j, k \in 1 .. Len(Path) : Path[j] = Path[k] => j = k
<1>1. /\ Path \in Seq(ToSet(Path)) /\ IsInjective(Path) /\ Mailbox \notin ToSet(Path)
  BY RouteAssumption
<1>2. Len(Path) \in Nat /\ DOMAIN Path = 1 .. Len(Path)
  BY <1>1, LenProperties
<1>3. \A j \in 1 .. Len(Path) : Path[j] \in ToSet(Path)
  BY <1>1, ElementOfSeq
<1>4. \A j, k \in 1 .. Len(Path) : Path[j] = Path[k] => j = k
  BY <1>1, <1>2 DEF IsInjective
<1> QED BY <1>1, <1>2, <1>3, <1>4

LEMMA HopType == \A j \in 0 .. Len(Path) : Hop(j) \in Nodes
<1> SUFFICES ASSUME NEW j \in 0 .. Len(Path) PROVE Hop(j) \in Nodes
  OBVIOUS
<1>1. j # 0 => j \in 1 .. Len(Path)
  BY PathType
<1> QED BY <1>1, PathType DEF Hop, Nodes

LEMMA MinOfOne == \A k \in Nat : Min({k}) = k
<1> SUFFICES ASSUME NEW k \in Nat PROVE Min({k}) = k
  OBVIOUS
<1>1. {k} \subseteq Nat /\ k \in {k} /\ \A y \in {k} : k <= y
  OBVIOUS
<1> QED BY <1>1, LeastIsMin

\* A mixer finds its own layer.
LEMMA OwnLayer ==
  ASSUME NEW k \in 1 .. Len(Path), at = Path[k]
  PROVE  SelectInSeq(Path, LAMBDA m : m = at) = k
<1> DEFINE I == {i \in 1 .. Len(Path) : Path[i] = at}
<1>1. I = {k}
  BY PathType
<1>2. SelectInSeq(Path, LAMBDA m : m = at) = IF I # {} THEN Min(I) ELSE 0
  BY DEF SelectInSeq
<1>3. k \in Nat
  BY PathType
<1> HIDE DEF I
<1> QED BY <1>1, <1>2, <1>3, MinOfOne

\* What Forward does to a text that was put together from c and n.
LEMMA ForwardsWhole ==
  ASSUME NEW c \in CipherTexts, NEW n \in Nodes, Cut \notin ToSet(c), Forward(Addressed(c, n))
  PROVE  text' = c /\ at' = n /\ stage' = "arrived"
<1>1. /\ Parses(Addressed(c, n)) /\ ~Astray(Addressed(c, n))
      /\ Res(Addressed(c, n)) = c /\ Ip(Addressed(c, n)) = Address[n]
  BY ParsesBack
<1>2. (CHOOSE k \in Nodes : Address[k] = Address[n]) = n
  BY RouteAssumption
<1>3. \E k \in Nodes : Address[k] = Address[n]
  OBVIOUS
<1> QED BY <1>1, <1>2, <1>3 DEF Forward

LEMMA ForwardEnds ==
  ASSUME NEW t, Forward(t), at \in Nodes \cup {"client"}
  PROVE  /\ stage' \in {"arrived", "lost", "died"} /\ at' \in Nodes \cup {"client"}
         /\ stage' = "arrived" => Parses(t) /\ text' = Res(t)
<1>1. CASE Parses(t) /\ text' = Res(t) /\ \E n \in Nodes : Address[n] = Ip(t)
  <2>1. \/ at' = (CHOOSE n \in Nodes : Address[n] = Ip(t)) /\ stage' = "arrived"
        \/ stage' = "died" /\ at' = at
    BY <1>1 DEF Forward
  <2>2. (CHOOSE n \in Nodes : Address[n] = Ip(t)) \in Nodes
    BY <1>1
  <2> QED BY <1>1, <2>1, <2>2
<1>2. CASE Parses(t) /\ text' = Res(t) /\ ~ \E n \in Nodes : Address[n] = Ip(t)
  <2>1. stage' \in {"lost", "died"} /\ at' = at
    BY <1>2 DEF Forward
  <2> QED BY <2>1
<1>3. CASE ~(Parses(t) /\ text' = Res(t))
  <2>1. stage' = "died" /\ at' = at
    BY <1>3 DEF Forward
  <2> QED BY <2>1
<1> QED BY <1>1, <1>2, <1>3

\* The layers' ciphertexts.
LEMMA CipherIn ==
  ASSUME PacketType, NEW j \in 0 .. Len(sealed)
  PROVE  /\ Cipher(envelope, sealed, j) \in CipherTexts
         /\ Cipher(envelope, sealed, j) \in ToSet(sealed) \cup {envelope}
         /\ Hop(j) \in Nodes
<1>1. sealed \in Seq(CipherTexts) /\ Len(sealed) \in Nat /\ DOMAIN sealed = 1 .. Len(sealed)
  BY LenProperties DEF PacketType
<1>2. j \in 0 .. Len(Path)
  BY <1>1, PathType DEF PacketType
<1>3. Hop(j) \in Nodes
  BY <1>2, HopType
<1>4. CASE j = 0
  BY <1>3, <1>4 DEF Cipher, PacketType
<1>5. CASE j # 0
  <2>1. j \in 1 .. Len(sealed)
    BY <1>1, <1>5
  <2>2. sealed[j] \in CipherTexts
    BY <1>1, <2>1, ElementOfSeq
  <2>3. sealed[j] \in ToSet(sealed)
    BY <1>1, <2>1 DEF ToSet
  <2> QED BY <1>3, <1>5, <2>2, <2>3 DEF Cipher
<1> QED BY <1>4, <1>5

LEMMA InvInit == PacketInit => PacketInv
<1> SUFFICES ASSUME PacketInit PROVE PacketInv
  OBVIOUS
<1>1. Len(<<>>) = 0 /\ \A S : <<>> \in Seq(S)
  BY EmptySeq
<1>2. /\ keys \in [ToSet(Path) -> KeyTexts] /\ envelope \in CipherTexts
      /\ stage = "lines" /\ at = "client" /\ sealed = <<>> /\ plain = <<>> /\ peeled = <<>>
  BY DEF PacketInit
<1>3. PacketType
  BY <1>1, <1>2, PathType DEF PacketType
<1>4. \A i \in 1 .. Len(sealed) : FALSE
  BY <1>1, <1>2
<1> QED BY <1>2, <1>3, <1>4 DEF PacketInv

LEMMA ReadLinesKeeps == PacketInv /\ ReadLines => PacketInv'
<1> SUFFICES ASSUME PacketInv, ReadLines PROVE PacketInv'
  OBVIOUS
<1>1. /\ stage = "lines" /\ sealed = <<>> /\ peeled = <<>>
      /\ text' = Addressed(envelope, Mailbox)
      /\ UNCHANGED <<keys, envelope, at, sealed, plain, peeled>>
      /\ stage' = IF \A m \in ToSet(Path) : Deserialises(getkeyfromtxt(setupkey(keys[m], Address[m])).pub)
                  THEN "seal" ELSE "died"
  BY DEF ReadLines, PacketInv
<1>2. (\A m \in ToSet(Path) : Deserialises(getkeyfromtxt(setupkey(keys[m], Address[m])).pub)) <=> KeysRead
  <2> SUFFICES ASSUME NEW m \in ToSet(Path)
               PROVE  Deserialises(getkeyfromtxt(setupkey(keys[m], Address[m])).pub)
                        <=> keys[m][KeyLength] # Underscore
    BY DEF KeysRead
  <2>1. keys[m] \in KeyTexts
    BY DEF PacketInv, PacketType
  <2>2. Address[m] \in Seq(Symbols) /\ Address[m] # <<>> /\ Address[m][1] # Underscore
    BY AddressAssumption DEF Nodes
  <2> QED BY <2>1, <2>2, ReadsBackIff
<1>3. stage' = IF KeysRead THEN "seal" ELSE "died"
  BY <1>1, <1>2
<1>4. Len(sealed) = 0
  BY <1>1, EmptySeq
<1>5. PacketType'
  BY <1>1, <1>3 DEF PacketInv, PacketType
<1>6. \A i \in 1 .. Len(sealed') : plain'[i] = Layer(envelope', sealed', i - 1)
  BY <1>1, <1>4
<1>7. text' = Layer(envelope', sealed', Len(sealed'))
  BY <1>1, <1>4 DEF Layer, Cipher, Hop
<1>8. KeysRead' <=> KeysRead
  BY <1>1 DEF KeysRead
<1>9. stage' = "died" => Marked'
  BY <1>1, <1>3 DEF KeysRead, Marked
<1>10. stage' \in {"seal", "died"}
  BY <1>3
<1> QED BY <1>1, <1>3, <1>5, <1>6, <1>7, <1>8, <1>9, <1>10 DEF PacketInv

LEMMA SealKeeps == PacketInv /\ Seal => PacketInv'
<1> SUFFICES ASSUME PacketInv, Seal PROVE PacketInv'
  OBVIOUS
<1>1. PICK c \in CipherTexts :
        /\ stage = "seal" /\ Len(sealed) < Len(Path)
        /\ sealed' = Append(sealed, c) /\ plain' = Append(plain, text)
        /\ text' = Addressed(c, Path[Len(sealed) + 1])
        /\ UNCHANGED <<keys, envelope, stage, at, peeled>>
  BY DEF Seal
<1> DEFINE l == Len(sealed)
<1>2. /\ PacketType /\ l \in Nat /\ sealed \in Seq(CipherTexts) /\ plain \in Seq(Seq(Letters))
      /\ Len(plain) = l /\ text = Layer(envelope, sealed, l)
      /\ \A i \in 1 .. l : plain[i] = Layer(envelope, sealed, i - 1)
      /\ KeysRead /\ peeled = <<>>
  BY <1>1, LenProperties DEF PacketInv, PacketType
<1>3. text \in Seq(Letters)
  <2>1. l \in 0 .. Len(sealed)
    BY <1>2
  <2>2. Cipher(envelope, sealed, l) \in CipherTexts /\ Hop(l) \in Nodes
    BY <1>2, <2>1, CipherIn
  <2> QED BY <1>2, <2>2, AddressedParts DEF Layer
<1>4. /\ sealed' \in Seq(CipherTexts) /\ Len(sealed') = l + 1 /\ sealed'[l + 1] = c
      /\ \A i \in 1 .. l : sealed'[i] = sealed[i]
  BY <1>1, <1>2, AppendProperties
<1>5. /\ plain' \in Seq(Seq(Letters)) /\ Len(plain') = l + 1 /\ plain'[l + 1] = text
      /\ \A i \in 1 .. l : plain'[i] = plain[i]
  <2>1. \A q, x : q \in Seq(Seq(Letters)) /\ x \in Seq(Letters) =>
          /\ Append(q, x) \in Seq(Seq(Letters)) /\ Len(Append(q, x)) = Len(q) + 1
          /\ Append(q, x)[Len(q) + 1] = x
          /\ \A i \in 1 .. Len(q) : Append(q, x)[i] = q[i]
    BY AppendProperties
  <2>2. /\ Append(plain, text) \in Seq(Seq(Letters)) /\ Len(Append(plain, text)) = Len(plain) + 1
        /\ Append(plain, text)[Len(plain) + 1] = text
        /\ \A i \in 1 .. Len(plain) : Append(plain, text)[i] = plain[i]
    BY <1>2, <1>3, <2>1, Zenon
  <2>3. plain' = Append(plain, text) /\ Len(plain) = l
    BY <1>1, <1>2
  <2> HIDE DEF l
  <2> QED BY <2>2, <2>3
<1> HIDE DEF l
<1>6. \A j \in 0 .. l : Layer(envelope, sealed', j) = Layer(envelope, sealed, j)
  <2> SUFFICES ASSUME NEW j \in 0 .. l
               PROVE  Cipher(envelope, sealed', j) = Cipher(envelope, sealed, j)
    BY DEF Layer
  <2>1. j # 0 => j \in 1 .. l
    BY <1>2
  <2> QED BY <1>4, <2>1 DEF Cipher
<1>7. \A i \in 1 .. l + 1 : plain'[i] = Layer(envelope', sealed', i - 1)
  <2> SUFFICES ASSUME NEW i \in 1 .. l + 1 PROVE plain'[i] = Layer(envelope, sealed', i - 1)
    BY <1>1
  <2>0. i - 1 \in 0 .. l
    BY <1>2
  <2>1. CASE i = l + 1
    <3>1. i - 1 = l
      BY <1>2, <2>1
    <3> QED BY <1>2, <1>5, <1>6, <2>0, <2>1, <3>1
  <2>2. CASE i # l + 1
    <3>1. i \in 1 .. l
      BY <1>2, <2>2
    <3> QED BY <1>2, <1>5, <1>6, <2>0, <3>1
  <2> QED BY <2>1, <2>2
<1>8. text' = Layer(envelope', sealed', Len(sealed'))
  <2>1. Cipher(envelope, sealed', l + 1) = c /\ Hop(l + 1) = Path[l + 1]
    <3>1. l + 1 # 0
      BY <1>2
    <3> QED BY <1>4, <3>1 DEF Cipher, Hop
  <2> QED BY <1>1, <1>4, <2>1 DEF Layer, l
<1>9. PacketType'
  <2>1. Len(sealed') <= Len(Path)
    BY <1>1, <1>2, <1>4, PathType DEF l
  <2> QED BY <1>1, <1>2, <1>4, <1>5, <2>1 DEF PacketType
<1>10. KeysRead'
  BY <1>1, <1>2 DEF KeysRead
<1> QED BY <1>1, <1>2, <1>4, <1>7, <1>8, <1>9, <1>10 DEF PacketInv

\* What is kept when a text is cut and sent on.
LEMMA ForwardKeeps ==
  ASSUME PacketInv, UNCHANGED <<keys, envelope, sealed, plain>>,
         KeysRead, Len(sealed) = Len(Path),
         stage' \in {"arrived", "lost", "died"},
         at' \in Nodes \cup {"client"}, peeled' \in Seq(Nodes \cup {"client"}),
         stage' = "arrived" /\ Along' =>
           /\ Parses(Layer(envelope, sealed, Left')) /\ text' = Res(Layer(envelope, sealed, Left'))
           /\ \A j \in Left' + 1 .. Len(Path) : Cut \notin ToSet(sealed[j]),
         ~Marked =>
           /\ stage' = "arrived" /\ Along'
           /\ text' = Cipher(envelope, sealed, Left') /\ at' = Hop(Left')
  PROVE  PacketInv'
<1>1. PacketType'
  BY DEF PacketInv, PacketType
<1>2. Marked' <=> Marked
  BY DEF Marked
<1>3. KeysRead'
  BY DEF KeysRead
<1>4. \A i \in 1 .. Len(sealed') : plain'[i] = Layer(envelope', sealed', i - 1)
  BY DEF PacketInv
<1>5. stage' \notin {"lines", "seal"}
  OBVIOUS
<1> QED BY <1>1, <1>2, <1>3, <1>4, <1>5 DEF PacketInv

LEMMA AttachKeeps == PacketInv /\ AttachToMixer => PacketInv'
<1> SUFFICES ASSUME PacketInv, AttachToMixer PROVE PacketInv'
  OBVIOUS
<1> DEFINE n == Len(Path)
           t == Layer(envelope, sealed, n)
<1>1. /\ stage = "seal" /\ Len(sealed) = n /\ text = t /\ peeled = <<>> /\ KeysRead /\ PacketType
      /\ UNCHANGED <<keys, envelope, sealed, plain, peeled>> /\ Forward(t)
  BY DEF AttachToMixer, PacketInv
<1>2. n \in Nat /\ Len(<<>>) = 0 /\ n \in 0 .. Len(sealed) /\ n - 0 = n
  BY <1>1, PathType, EmptySeq
<1>3. peeled' = <<>> /\ Left' = n /\ Along'
  BY <1>1, <1>2 DEF Left, Along
<1>4. /\ stage' \in {"arrived", "lost", "died"} /\ at' \in Nodes \cup {"client"}
      /\ stage' = "arrived" => Parses(t) /\ text' = Res(t)
  BY <1>1, ForwardEnds DEF PacketType
<1>5. peeled' \in Seq(Nodes \cup {"client"})
  BY <1>3, EmptySeq
<1>6. ASSUME ~Marked
      PROVE  stage' = "arrived" /\ text' = Cipher(envelope, sealed, n) /\ at' = Hop(n)
  <2>1. /\ Cipher(envelope, sealed, n) \in CipherTexts /\ Hop(n) \in Nodes
        /\ Cipher(envelope, sealed, n) \in ToSet(sealed) \cup {envelope}
    BY <1>1, <1>2, CipherIn
  <2>2. Cut \notin ToSet(Cipher(envelope, sealed, n))
    BY <1>6, <2>1 DEF Marked
  <2> QED BY <1>1, <2>1, <2>2, ForwardsWhole DEF Layer
<1>7. \A j \in n + 1 .. Len(Path) : FALSE
  BY <1>2
<1> HIDE DEF n, t
<1>8. Parses(t) /\ text' = Res(t) => Parses(Layer(envelope, sealed, Left')) /\ text' = Res(Layer(envelope, sealed, Left'))
  BY <1>3 DEF t
<1> QED BY <1>1, <1>3, <1>4, <1>5, <1>6, <1>7, <1>8, ForwardKeeps DEF n

LEMMA PeelKeeps == PacketInv /\ Peel => PacketInv'
<1> SUFFICES ASSUME PacketInv, Peel PROVE PacketInv'
  OBVIOUS
<1> DEFINE n == Len(Path)
           i == SelectInSeq(Path, LAMBDA m : m = at)
<1>1. /\ stage = "arrived" /\ at # Mailbox /\ Len(sealed) = n /\ KeysRead /\ PacketType
      /\ UNCHANGED <<keys, envelope, sealed, plain>>
  BY DEF Peel, PacketInv
<1>2. \/ text = sealed[i] /\ Forward(plain[i]) /\ peeled' = Append(peeled, at)
      \/ text # sealed[i] /\ stage' = "died" /\ UNCHANGED <<text, at, peeled>>
  BY DEF Peel
<1>3. n \in Nat /\ Len(peeled) \in Nat /\ peeled \in Seq(Nodes \cup {"client"})
  BY <1>1, PathType, LenProperties DEF PacketType
<1>4. ASSUME Along, at = Path[Left], Left \in 1 .. n
      PROVE  /\ i = Left /\ Cipher(envelope, sealed, Left) = sealed[i]
             /\ plain[i] = Layer(envelope, sealed, Left - 1)
  <2>1. i = Left
    BY <1>4, OwnLayer
  <2>2. Left # 0 /\ Left \in 1 .. Len(sealed)
    BY <1>1, <1>3, <1>4
  <2> QED BY <2>1, <2>2 DEF Cipher, PacketInv
<1>5. ASSUME ~Marked
      PROVE  /\ Along /\ text = Cipher(envelope, sealed, Left) /\ Left \in 1 .. n /\ at = Path[Left]
  <2>1. Along /\ text = Cipher(envelope, sealed, Left) /\ at = Hop(Left)
    BY <1>1, <1>5 DEF PacketInv
  <2>2. Left # 0
    BY <1>1, <2>1 DEF Hop
  <2>3. Left \in 1 .. n
    BY <1>3, <2>1, <2>2 DEF Along, Left
  <2> QED BY <2>1, <2>2, <2>3 DEF Hop
<1> HIDE DEF i
<1>6. CASE text # sealed[i] /\ stage' = "died" /\ UNCHANGED <<text, at, peeled>>
  <2>1. Marked
    BY <1>4, <1>5, <1>6
  <2> QED BY <1>1, <1>6, <2>1, ForwardKeeps DEF PacketType
<1>7. CASE text = sealed[i] /\ Forward(plain[i]) /\ peeled' = Append(peeled, at)
  <2>1. /\ peeled' \in Seq(Nodes \cup {"client"}) /\ Len(peeled') = Len(peeled) + 1
        /\ peeled'[Len(peeled) + 1] = at /\ \A j \in 1 .. Len(peeled) : peeled'[j] = peeled[j]
    BY <1>1, <1>3, <1>7, AppendProperties DEF PacketType
  <2>2. /\ stage' \in {"arrived", "lost", "died"} /\ at' \in Nodes \cup {"client"}
        /\ stage' = "arrived" => Parses(plain[i]) /\ text' = Res(plain[i])
    BY <1>1, <1>7, ForwardEnds DEF PacketType
  <2>3. Left' = Left - 1
    BY <1>3, <2>1 DEF Left
  <2>4. ASSUME stage' = "arrived", Along'
        PROVE  /\ Parses(Layer(envelope, sealed, Left')) /\ text' = Res(Layer(envelope, sealed, Left'))
               /\ \A j \in Left' + 1 .. Len(Path) : Cut \notin ToSet(sealed[j])
    <3>1. /\ Len(peeled) + 1 <= n
          /\ \A j \in 1 .. Len(peeled) + 1 : peeled'[j] = Path[n + 1 - j]
      BY <2>1, <2>4 DEF Along
    <3>2. Along /\ Left \in 1 .. n /\ at = Path[Left]
      <4>1. \A j \in 1 .. Len(peeled) : j \in 1 .. Len(peeled) + 1
        BY <1>3
      <4>2. Along
        BY <1>3, <2>1, <3>1, <4>1 DEF Along
      <4>3. n + 1 - (Len(peeled) + 1) = Left /\ Len(peeled) + 1 \in 1 .. Len(peeled) + 1
        BY <1>3 DEF Left
      <4>4. Left \in 1 .. n
        BY <1>3, <3>1 DEF Left
      <4> QED BY <2>1, <3>1, <4>2, <4>3, <4>4
    <3>3. /\ i = Left /\ Cipher(envelope, sealed, Left) = sealed[i]
          /\ plain[i] = Layer(envelope, sealed, Left - 1)
      BY <1>4, <3>2
    <3>4. /\ Parses(Layer(envelope, sealed, Left)) /\ text = Res(Layer(envelope, sealed, Left))
          /\ \A j \in Left + 1 .. n : Cut \notin ToSet(sealed[j])
      BY <1>1, <3>2 DEF PacketInv
    <3>5. Cut \notin ToSet(sealed[Left])
      <4>1. Left \in 0 .. Len(sealed)
        BY <1>1, <3>2
      <4>2. sealed[i] \in CipherTexts /\ Hop(Left) \in Nodes
        BY <1>1, <3>3, <4>1, CipherIn
      <4>3. Layer(envelope, sealed, Left) = Addressed(sealed[i], Hop(Left))
        BY <3>3 DEF Layer
      <4>4. Res(Addressed(sealed[i], Hop(Left))) = sealed[i] /\ Parses(Addressed(sealed[i], Hop(Left)))
        BY <1>7, <3>4, <4>3
      <4> QED BY <3>3, <4>2, <4>4, ParsesShort
    <3>6. \A j \in Left' + 1 .. Len(Path) : j = Left \/ j \in Left + 1 .. n
      BY <1>3, <2>3, <3>2
    <3> QED BY <2>2, <2>3, <2>4, <3>3, <3>4, <3>5, <3>6
  <2>5. ASSUME ~Marked
        PROVE  /\ stage' = "arrived" /\ Along'
               /\ text' = Cipher(envelope, sealed, Left') /\ at' = Hop(Left')
    <3>1. Along /\ Left \in 1 .. n /\ at = Path[Left]
      BY <1>5, <2>5
    <3>2. plain[i] = Layer(envelope, sealed, Left - 1)
      BY <1>4, <3>1
    <3>3. Left - 1 \in 0 .. Len(sealed)
      BY <1>1, <1>3, <3>1
    <3>4. /\ Cipher(envelope, sealed, Left - 1) \in CipherTexts /\ Hop(Left - 1) \in Nodes
          /\ Cipher(envelope, sealed, Left - 1) \in ToSet(sealed) \cup {envelope}
      BY <1>1, <3>3, CipherIn
    <3>5. Cut \notin ToSet(Cipher(envelope, sealed, Left - 1))
      BY <2>5, <3>4 DEF Marked
    <3>6. /\ text' = Cipher(envelope, sealed, Left - 1) /\ at' = Hop(Left - 1)
          /\ stage' = "arrived"
      BY <1>7, <3>2, <3>4, <3>5, ForwardsWhole DEF Layer
    <3>7. Along'
      <4>1. Len(peeled) + 1 <= n /\ n + 1 - (Len(peeled) + 1) = Left
        BY <1>3, <3>1 DEF Left
      <4>2. \A j \in 1 .. Len(peeled) + 1 : j \in 1 .. Len(peeled) \/ j = Len(peeled) + 1
        BY <1>3
      <4>3. \A j \in 1 .. Len(peeled) : peeled[j] = Path[n + 1 - j]
        BY <3>1 DEF Along
      <4>4. \A j \in 1 .. Len(peeled) + 1 : peeled'[j] = Path[n + 1 - j]
        BY <2>1, <3>1, <4>1, <4>2, <4>3
      <4> QED BY <2>1, <4>1, <4>4 DEF Along
    <3> QED BY <2>3, <3>6, <3>7
  <2> QED BY <1>1, <2>1, <2>2, <2>4, <2>5, ForwardKeeps
<1> QED BY <1>2, <1>6, <1>7

LEMMA InvArrives == PacketInv => ArrivesIffUnmarked
<1> SUFFICES ASSUME PacketInv, Arrived \/ stage \in {"lost", "died"}
             PROVE  Arrived /\ text = envelope /\ peeled = Reverse(Path) <=> ~Marked
  BY DEF ArrivesIffUnmarked
<1> DEFINE n == Len(Path)
<1>1. /\ PacketType /\ n \in Nat /\ Len(peeled) \in Nat /\ peeled \in Seq(Nodes \cup {"client"})
      /\ DOMAIN peeled = 1 .. Len(peeled)
  BY PathType, LenProperties DEF PacketInv, PacketType
<1>2. Len(Reverse(Path)) = n /\ \A j \in 1 .. n : Reverse(Path)[j] = Path[n - j + 1]
  BY <1>1 DEF Reverse
<1>3. ASSUME ~Marked PROVE Arrived /\ text = envelope /\ peeled = Reverse(Path)
  <2>1. stage = "arrived" /\ Along /\ text = Cipher(envelope, sealed, Left) /\ at = Hop(Left)
    BY <1>3 DEF PacketInv, Arrived
  <2>2. Arrived /\ at = Mailbox
    BY <2>1 DEF Arrived
  <2>3. Left = 0
    <3>1. ASSUME Left # 0 PROVE FALSE
      <4>1. Left \in 1 .. Len(Path) /\ at = Path[Left]
        BY <1>1, <2>1, <3>1 DEF Along, Left, Hop
      <4> QED BY <2>2, <4>1, PathType
    <3> QED BY <3>1
  <2>4. text = envelope
    BY <2>1, <2>3 DEF Cipher
  <2>5. Len(peeled) = n
    BY <1>1, <2>3 DEF Left
  <2>6. \A j \in 1 .. n : peeled[j] = Path[n - j + 1]
    <3>1. \A j \in 1 .. n : n + 1 - j = n - j + 1
      BY <1>1
    <3> QED BY <2>1, <2>5, <3>1 DEF Along
  <2>7. peeled = Reverse(Path)
    <3>1. peeled = [j \in 1 .. n |-> peeled[j]]
      BY <1>1, <2>5, LenProperties
    <3> QED BY <2>6, <3>1 DEF Reverse
  <2> QED BY <2>2, <2>4, <2>7
<1>4. ASSUME Arrived, text = envelope, peeled = Reverse(Path) PROVE ~Marked
  <2>1. stage = "arrived" /\ Len(sealed) = n /\ KeysRead
    BY <1>4 DEF Arrived, PacketInv
  <2>2. Along /\ Left = 0
    <3>1. Len(peeled) = n /\ \A j \in 1 .. n : peeled[j] = Path[n - j + 1]
      BY <1>2, <1>4
    <3>2. \A j \in 1 .. n : n + 1 - j = n - j + 1
      BY <1>1
    <3>3. Along
      BY <1>1, <3>1, <3>2 DEF Along
    <3> QED BY <1>1, <3>1, <3>3 DEF Left
  <2>3. /\ Parses(Layer(envelope, sealed, 0)) /\ text = Res(Layer(envelope, sealed, 0))
        /\ \A j \in 0 + 1 .. n : Cut \notin ToSet(sealed[j])
    BY <2>1, <2>2 DEF PacketInv
  <2>4. Layer(envelope, sealed, 0) = Addressed(envelope, Mailbox)
    BY DEF Layer, Cipher, Hop
  <2>5. Cut \notin ToSet(envelope)
    <3>1. envelope \in CipherTexts /\ Mailbox \in Nodes
      BY <1>1 DEF PacketType, Nodes
    <3> QED BY <1>4, <2>3, <2>4, <3>1, ParsesShort
  <2>6. ASSUME NEW c \in ToSet(sealed) PROVE Cut \notin ToSet(c)
    <3>1. DOMAIN sealed = 1 .. n
      BY <1>1, <2>1, LenProperties DEF PacketType
    <3>2. PICK j \in 1 .. n : c = sealed[j]
      BY <3>1 DEF ToSet
    <3>3. j \in 0 + 1 .. n
      BY <1>1
    <3> QED BY <2>3, <3>2, <3>3
  <2> QED BY <2>1, <2>5, <2>6 DEF Marked, KeysRead
<1> QED BY <1>3, <1>4

\* For any keys, addresses and ciphertexts, any number of mixers: the envelope
\* passes all of them and reaches the mailbox as it was if and only if every key
\* line was read back and no ciphertext holds the marker.
THEOREM ArrivesCorrect == PacketSpec => []ArrivesIffUnmarked
<1>1. PacketInv /\ [PacketNext]_packetvars => PacketInv'
  <2> SUFFICES ASSUME PacketInv, [PacketNext]_packetvars PROVE PacketInv'
    OBVIOUS
  <2>1. CASE UNCHANGED packetvars
    <3>1. UNCHANGED <<keys, envelope, stage, text, at, sealed, plain, peeled>>
      BY <2>1 DEF packetvars
    <3>2. Along' = Along /\ Left' = Left /\ Marked' = Marked /\ KeysRead' = KeysRead
      BY <3>1 DEF Along, Left, Marked, KeysRead
    <3>3. PacketType'
      BY <3>1 DEF PacketInv, PacketType
    <3> QED BY <3>1, <3>2, <3>3 DEF PacketInv
  <2> QED BY <2>1, ReadLinesKeeps, SealKeeps, AttachKeeps, PeelKeeps DEF PacketNext
<1> QED BY <1>1, InvInit, InvArrives, PTL DEF PacketSpec
-----------------------------------------------------------------------------
(***************************************************************************)
(* FlattenSeq, one element at a time.                                      *)
(***************************************************************************)
Flattens(s, n, f) == f = [i \in 1 .. n |-> IF i = 1 THEN s[i] ELSE f[i - 1] \o s[i]]

LEMMA FlattenExists ==
  ASSUME NEW s \in Seq(Seq(Nat))
  PROVE  \A n \in 0 .. Len(s) : \E f \in [1 .. n -> Seq(Nat)] : Flattens(s, n, f)
<1> DEFINE Bad == {n \in 0 .. Len(s) : ~ \E f \in [1 .. n -> Seq(Nat)] : Flattens(s, n, f)}
<1>1. Len(s) \in Nat /\ \A i \in 1 .. Len(s) : s[i] \in Seq(Nat)
  BY LenProperties, ElementOfSeq
<1>2. SUFFICES ASSUME Bad # {} PROVE FALSE
  OBVIOUS
<1>3. PICK n \in Bad : \A y \in Bad : ~(y < n)
  <2>1. Bad \subseteq Nat
    BY <1>1
  <2> QED BY <1>2, <2>1, LeastNatural
<1>4. n \in 0 .. Len(s) /\ ~ \E f \in [1 .. n -> Seq(Nat)] : Flattens(s, n, f)
  BY <1>3
<1>5. n # 0
  <2> DEFINE none == [i \in 1 .. 0 |-> <<>>]
  <2>1. none \in [1 .. 0 -> Seq(Nat)] /\ Flattens(s, 0, none)
    <3>1. 1 .. 0 = {}
      OBVIOUS
    <3> QED BY <3>1 DEF Flattens
  <2> QED BY <1>4, <2>1
<1>6. n - 1 \in 0 .. Len(s) /\ n - 1 < n
  BY <1>1, <1>4, <1>5
<1>7. PICK f \in [1 .. n - 1 -> Seq(Nat)] : Flattens(s, n - 1, f)
  BY <1>3, <1>6
<1> DEFINE last == IF n = 1 THEN s[n] ELSE f[n - 1] \o s[n]
           g == [i \in 1 .. n |-> IF i = n THEN last ELSE f[i]]
<1>8. /\ f \in [1 .. n - 1 -> Seq(Nat)]
      /\ \A i \in 1 .. n - 1 : f[i] = IF i = 1 THEN s[i] ELSE f[i - 1] \o s[i]
  BY <1>7 DEF Flattens
<1>9. last \in Seq(Nat)
  <2>1. n \in 1 .. Len(s) /\ s[n] \in Seq(Nat)
    BY <1>1, <1>4, <1>5
  <2>2. n # 1 => f[n - 1] \in Seq(Nat)
    BY <1>1, <1>4, <1>5, <1>8
  <2> QED BY <2>1, <2>2, ConcatProperties
<1>10. \A i \in 1 .. n : i = n \/ i \in 1 .. n - 1
  BY <1>1, <1>4
<1> HIDE DEF last
<1>11. g \in [1 .. n -> Seq(Nat)]
  BY <1>8, <1>9, <1>10
<1>12. ASSUME NEW i \in 1 .. n PROVE g[i] = IF i = 1 THEN s[i] ELSE g[i - 1] \o s[i]
  <2>1. i # 1 => i - 1 \in 1 .. n /\ i - 1 # n
    BY <1>1, <1>4
  <2>2. CASE i = n
    BY <2>1, <2>2 DEF last
  <2>3. CASE i # n
    BY <1>8, <1>10, <2>1, <2>3
  <2> QED BY <2>2, <2>3
<1>13. g = [i \in 1 .. n |-> IF i = 1 THEN s[i] ELSE g[i - 1] \o s[i]]
  <2> HIDE DEF g
  <2> QED BY <1>11, <1>12
<1>14. Flattens(s, n, g)
  <2> HIDE DEF g
  <2> QED BY <1>11, <1>13 DEF Flattens
<1> HIDE DEF g
<1> QED BY <1>4, <1>11, <1>14

\* Two functions that flatten a sequence are one, so CHOOSE finds any of them.
LEMMA FlattenUnique ==
  ASSUME NEW s, NEW n \in Nat, NEW f, NEW g, Flattens(s, n, f), Flattens(s, n, g)
  PROVE  \A i \in 1 .. n : f[i] = g[i]
<1> DEFINE Bad == {i \in 1 .. n : f[i] # g[i]}
<1>1. SUFFICES ASSUME Bad # {} PROVE FALSE
  OBVIOUS
<1>2. PICK k \in Bad : \A y \in Bad : ~(y < k)
  <2>1. Bad \subseteq Nat
    OBVIOUS
  <2> QED BY <1>1, <2>1, LeastNatural
<1>3. k \in 1 .. n /\ f[k] # g[k]
  BY <1>2
<1>4. /\ f[k] = IF k = 1 THEN s[k] ELSE f[k - 1] \o s[k]
      /\ g[k] = IF k = 1 THEN s[k] ELSE g[k - 1] \o s[k]
  BY <1>3, Zenon DEF Flattens
<1>5. k # 1 => f[k - 1] = g[k - 1]
  <2> SUFFICES ASSUME k # 1 PROVE f[k - 1] = g[k - 1]
    OBVIOUS
  <2>1. k - 1 \in 1 .. n /\ k - 1 < k
    BY <1>3
  <2> QED BY <1>2, <2>1
<1> QED BY <1>3, <1>4, <1>5

LEMMA FlattenIs ==
  ASSUME NEW s \in Seq(Seq(Nat)), Len(s) # 0, NEW f, Flattens(s, Len(s), f)
  PROVE  FlattenSeq(s) = f[Len(s)]
<1> DEFINE n == Len(s)
           flatten == CHOOSE h : h = [i \in 1 .. n |-> IF i = 1 THEN s[i] ELSE h[i - 1] \o s[i]]
<1>1. n \in Nat /\ n # 0 /\ n \in 1 .. n
  BY LenProperties
<1>2. Flattens(s, n, flatten)
  <2>1. \E h : h = [i \in 1 .. n |-> IF i = 1 THEN s[i] ELSE h[i - 1] \o s[i]]
    BY DEF Flattens
  <2> QED BY <2>1, Zenon DEF Flattens
<1>3. FlattenSeq(s) = flatten[n]
  BY <1>1, Zenon DEF FlattenSeq
<1> HIDE DEF flatten
<1>4. flatten[n] = f[n]
  <2> HIDE DEF n
  <2> QED BY <1>1, <1>2, FlattenUnique DEF n
<1> QED BY <1>3, <1>4

LEMMA FlattenEmpty == FlattenSeq(<<>>) = <<>>
BY EmptySeq DEF FlattenSeq

LEMMA FlattenAppend ==
  ASSUME NEW s \in Seq(Seq(Nat)), NEW x \in Seq(Nat)
  PROVE  FlattenSeq(Append(s, x)) = FlattenSeq(s) \o x
<1>1. PICK n \in Nat, m \in Nat, t \in Seq(Seq(Nat)) :
        /\ n = Len(s) /\ m = n + 1 /\ t = Append(s, x) /\ Len(t) = m /\ t[m] = x
        /\ \A i \in 1 .. n : s[i] = t[i]
  <2>1. Len(s) \in Nat /\ Append(s, x) \in Seq(Seq(Nat)) /\ Len(Append(s, x)) = Len(s) + 1
    BY AppendProperties, LenProperties
  <2>2. Append(s, x)[Len(s) + 1] = x /\ \A i \in 1 .. Len(s) : s[i] = Append(s, x)[i]
    BY AppendProperties
  <2>3. Len(s) + 1 \in Nat
    BY <2>1
  <2> QED BY <2>1, <2>2, <2>3, Zenon
<1>2. PICK g \in [1 .. m -> Seq(Nat)] : Flattens(t, m, g)
  <2>1. m \in 0 .. Len(t)
    BY <1>1
  <2> QED BY <2>1, FlattenExists
<1>3. FlattenSeq(t) = g[m]
  <2>1. Len(t) # 0 /\ Flattens(t, Len(t), g)
    BY <1>1, <1>2
  <2> QED BY <1>1, <2>1, FlattenIs, Zenon
<1>4. g[m] = IF m = 1 THEN x ELSE g[n] \o x
  <2>1. m \in 1 .. m /\ m - 1 = n
    BY <1>1
  <2>2. g[m] = IF m = 1 THEN t[m] ELSE g[m - 1] \o t[m]
    BY <1>2, <2>1, Zenon DEF Flattens
  <2> QED BY <1>1, <2>1, <2>2
<1>5. CASE n = 0
  <2>1. s = <<>> /\ <<>> \o x = x
    BY <1>1, <1>5, EmptySeq, ConcatEmptySeq
  <2>2. m = 1
    BY <1>1, <1>5
  <2> QED BY <1>1, <1>3, <1>4, <2>1, <2>2, FlattenEmpty
<1>6. CASE n # 0
  <2>1. PICK f : f = [i \in 1 .. n |-> g[i]]
    OBVIOUS
  <2>2. Flattens(s, n, f)
    <3>1. ASSUME NEW i \in 1 .. n PROVE f[i] = IF i = 1 THEN s[i] ELSE f[i - 1] \o s[i]
      <4>1. i \in 1 .. m /\ s[i] = t[i] /\ f[i] = g[i] /\ (i # 1 => i - 1 \in 1 .. n /\ f[i - 1] = g[i - 1])
        BY <1>1, <2>1
      <4>2. g[i] = IF i = 1 THEN t[i] ELSE g[i - 1] \o t[i]
        BY <1>2, <4>1, Zenon DEF Flattens
      <4> QED BY <4>1, <4>2
    <3> QED BY <2>1, <3>1 DEF Flattens
  <2>3. FlattenSeq(s) = f[n] /\ f[n] = g[n]
    <3>1. FlattenSeq(s) = f[n]
      BY <1>1, <1>6, <2>2, FlattenIs, Zenon
    <3> QED BY <1>1, <1>6, <2>1, <3>1
  <2>4. m # 1 /\ n \in 1 .. n
    BY <1>1, <1>6
  <2> QED BY <1>1, <1>3, <1>4, <2>3, <2>4
<1> QED BY <1>5, <1>6

LEMMA FlattenType ==
  ASSUME NEW s \in Seq(Seq(Nat))
  PROVE  FlattenSeq(s) \in Seq(Nat)
<1>1. CASE Len(s) = 0
  BY <1>1, EmptySeq, FlattenEmpty
<1>2. CASE Len(s) # 0
  <2>1. Len(s) \in 0 .. Len(s) /\ Len(s) \in 1 .. Len(s)
    BY <1>2, LenProperties
  <2>2. PICK f \in [1 .. Len(s) -> Seq(Nat)] : Flattens(s, Len(s), f)
    BY <2>1, FlattenExists
  <2> QED BY <1>2, <2>1, <2>2, FlattenIs
<1> QED BY <1>1, <1>2

\* A sequence of sequences, grown by one.
LEMMA OneMore ==
  ASSUME NEW s \in Seq(Seq(Nat)), NEW n \in 1 .. Len(s)
  PROVE  /\ SubSeq(s, 1, n - 1) \in Seq(Seq(Nat)) /\ s[n] \in Seq(Nat)
         /\ SubSeq(s, 1, n) = Append(SubSeq(s, 1, n - 1), s[n])
<1>1. Len(s) \in Nat /\ \A i \in 1 .. Len(s) : s[i] \in Seq(Nat)
  BY LenProperties, ElementOfSeq
<1>2. SubSeq(s, 1, n - 1) \in Seq(Seq(Nat))
  <2>1. \A i \in 1 .. n - 1 : s[i] \in Seq(Nat)
    BY <1>1
  <2>2. 1 \in Int /\ n - 1 \in Int
    BY <1>1
  <2> QED BY <2>1, <2>2, SubSeqProperties
<1>3. SubSeq(s, 1, n) = SubSeq(s, 1, n - 1) \o <<s[n]>>
  <2>1. 1 \in 1 .. Len(s) /\ n \in 1 .. Len(s)
    BY <1>1
  <2> QED BY <2>1, SubSeqRecursiveSecond
<1>4. Append(SubSeq(s, 1, n - 1), s[n]) = SubSeq(s, 1, n - 1) \o <<s[n]>>
  BY <1>1, <1>2, AppendIsConcat
<1> QED BY <1>1, <1>2, <1>3, <1>4

LEMMA Associative ==
  /\ \A a, c, d \in Seq(Nat) : (a \o c) \o d = a \o (c \o d)
  /\ \A a, c, d \in Seq(Seq(Nat)) : (a \o c) \o d = a \o (c \o d)
OBVIOUS

\* What is flattened in two parts is flattened.
LEMMA FlattenConcat ==
  ASSUME NEW s \in Seq(Seq(Nat)), NEW t \in Seq(Seq(Nat))
  PROVE  FlattenSeq(s \o t) = FlattenSeq(s) \o FlattenSeq(t)
<1> DEFINE Bad == {n \in 0 .. Len(t) :
                     FlattenSeq(s \o SubSeq(t, 1, n)) # FlattenSeq(s) \o FlattenSeq(SubSeq(t, 1, n))}
<1>1. Len(t) \in Nat /\ FlattenSeq(s) \in Seq(Nat)
  BY LenProperties, FlattenType
<1>2. ASSUME Bad # {} PROVE FALSE
  <2>1. PICK n \in Bad : \A y \in Bad : ~(y < n)
    <3>1. Bad \subseteq Nat
      BY <1>1
    <3> QED BY <1>2, <3>1, LeastNatural
  <2>2. /\ n \in 0 .. Len(t)
        /\ FlattenSeq(s \o SubSeq(t, 1, n)) # FlattenSeq(s) \o FlattenSeq(SubSeq(t, 1, n))
    BY <2>1
  <2>3. n # 0
    <3>1. SubSeq(t, 1, 0) = <<>>
      BY SubSeqEmpty
    <3>2. s \o <<>> = s /\ FlattenSeq(s) \o <<>> = FlattenSeq(s)
      BY <1>1, ConcatEmptySeq
    <3> QED BY <2>2, <3>1, <3>2, FlattenEmpty
  <2>4. n \in 1 .. Len(t) /\ n - 1 \in 0 .. Len(t) /\ n - 1 < n
    BY <1>1, <2>2, <2>3
  <2>5. PICK u \in Seq(Seq(Nat)), x \in Seq(Nat) :
          u = SubSeq(t, 1, n - 1) /\ SubSeq(t, 1, n) = Append(u, x)
    BY <2>4, OneMore
  <2>6. FlattenSeq(s \o u) = FlattenSeq(s) \o FlattenSeq(u)
    BY <2>1, <2>4, <2>5
  <2>7. s \o u \in Seq(Seq(Nat)) /\ s \o Append(u, x) = Append(s \o u, x)
    <3>1. s \o u \in Seq(Seq(Nat)) /\ Append(u, x) \in Seq(Seq(Nat))
      BY ConcatProperties, AppendProperties
    <3>2. Append(u, x) = u \o <<x>> /\ Append(s \o u, x) = (s \o u) \o <<x>>
      BY <3>1, AppendIsConcat
    <3>3. <<x>> \in Seq(Seq(Nat))
      OBVIOUS
    <3>4. (s \o u) \o <<x>> = s \o (u \o <<x>>)
      BY <3>3, Associative, Zenon
    <3> QED BY <3>1, <3>2, <3>4
  <2>8. FlattenSeq(u) \in Seq(Nat)
    BY FlattenType
  <2>9. FlattenSeq(Append(s \o u, x)) = FlattenSeq(s \o u) \o x /\ FlattenSeq(Append(u, x)) = FlattenSeq(u) \o x
    BY <2>7, FlattenAppend
  <2>10. (FlattenSeq(s) \o FlattenSeq(u)) \o x = FlattenSeq(s) \o (FlattenSeq(u) \o x)
    BY <1>1, <2>8, Associative, Zenon
  <2> QED BY <2>2, <2>5, <2>6, <2>7, <2>9, <2>10
<1>3. Len(t) \in 0 .. Len(t) /\ SubSeq(t, 1, Len(t)) = t
  BY <1>1, SubSeqFull
<1> QED BY <1>2, <1>3

\* The pieces of a sequence are the sequence.
LEMMA Pieces ==
  ASSUME NEW b \in Seq(Nat), NEW g \in Seq(Seq(Nat)), NEW p \in [0 .. Len(g) -> 0 .. Len(b)],
         p[0] = 0,
         \A k \in 1 .. Len(g) : p[k - 1] <= p[k] /\ g[k] = SubSeq(b, p[k - 1] + 1, p[k])
  PROVE  FlattenSeq(g) = SubSeq(b, 1, p[Len(g)])
<1> DEFINE Bad == {n \in 0 .. Len(g) : FlattenSeq(SubSeq(g, 1, n)) # SubSeq(b, 1, p[n])}
<1>1. Len(g) \in Nat /\ Len(b) \in Nat
  BY LenProperties
<1>2. ASSUME Bad # {} PROVE FALSE
  <2>1. PICK n \in Bad : \A y \in Bad : ~(y < n)
    <3>1. Bad \subseteq Nat
      BY <1>1
    <3> QED BY <1>2, <3>1, LeastNatural
  <2>2. n \in 0 .. Len(g) /\ FlattenSeq(SubSeq(g, 1, n)) # SubSeq(b, 1, p[n])
    BY <2>1
  <2>3. n # 0
    <3>1. SubSeq(g, 1, 0) = <<>> /\ SubSeq(b, 1, 0) = <<>>
      BY SubSeqEmpty
    <3> QED BY <2>2, <3>1, FlattenEmpty
  <2>4. n \in 1 .. Len(g) /\ n - 1 \in 0 .. Len(g) /\ n - 1 < n
    BY <1>1, <2>2, <2>3
  <2>5. FlattenSeq(SubSeq(g, 1, n - 1)) = SubSeq(b, 1, p[n - 1])
    BY <2>1, <2>4
  <2>6. FlattenSeq(SubSeq(g, 1, n)) = FlattenSeq(SubSeq(g, 1, n - 1)) \o g[n]
    <3>1. PICK u \in Seq(Seq(Nat)), x \in Seq(Nat) :
            u = SubSeq(g, 1, n - 1) /\ x = g[n] /\ SubSeq(g, 1, n) = Append(u, x)
      BY <2>4, OneMore
    <3> QED BY <3>1, FlattenAppend
  <2>7. SubSeq(b, 1, p[n - 1]) \o SubSeq(b, p[n - 1] + 1, p[n]) = SubSeq(b, 1, p[n])
    <3>1. PICK k \in 0 .. Len(b), m \in 0 .. Len(b) : k = p[n - 1] /\ m = p[n] /\ k <= m
      BY <2>4
    <3>2. 1 \in 1 .. Len(b) + 1 /\ k \in 1 - 1 .. Len(b) /\ m \in k .. Len(b)
      BY <1>1, <3>1
    <3>3. SubSeq(b, 1, k) \o SubSeq(b, k + 1, m) = SubSeq(b, 1, m)
      BY <3>2, ConcatAdjacentSubSeq
    <3> QED BY <3>1, <3>3
  <2> QED BY <2>2, <2>4, <2>5, <2>6, <2>7
<1>3. Len(g) \in 0 .. Len(g) /\ SubSeq(g, 1, Len(g)) = g
  BY <1>1, SubSeqFull
<1> QED BY <1>2, <1>3
-----------------------------------------------------------------------------
(***************************************************************************)
(* Blocks of three bytes and four characters.                              *)
(***************************************************************************)
ByteAt(in, i) == IF i <= Len(in) THEN in[i] ELSE 0
Quad(in, k, junk) ==
    encodeblock(ByteAt(in, 3 * k - 2), ByteAt(in, 3 * k - 1), ByteAt(in, 3 * k), Len(in) - 3 * (k - 1), junk)
Quads(in) == (Len(in) + 2) \div 3

LEMMA ByteType ==
  ASSUME NEW in \in Seq(0 .. 255), NEW i \in Nat \ {0}
  PROVE  ByteAt(in, i) \in 0 .. 255
<1>1. Len(in) \in Nat /\ \A j \in 1 .. Len(in) : in[j] \in 0 .. 255
  BY LenProperties, ElementOfSeq
<1> QED BY <1>1 DEF ByteAt

LEMMA Weights ==
  /\ Weight[1] = 128 /\ Weight[2] = 64 /\ Weight[3] = 32 /\ Weight[4] = 16
  /\ Weight[5] = 8 /\ Weight[6] = 4 /\ Weight[7] = 2 /\ Weight[8] = 1
BY DEF Weight

\* The bits of the definition are the bits of the byte, zeros behind the last.
LEMMA BitsOfByte ==
  ASSUME NEW in \in Seq(0 .. 255), NEW i \in Nat \ {0}, NEW x, x = ByteAt(in, i)
  PROVE  /\ Bit(in, 8 * i - 8) = (x \div 128) % 2
         /\ Bit(in, 8 * i - 7) = (x \div 64) % 2
         /\ Bit(in, 8 * i - 6) = (x \div 32) % 2
         /\ Bit(in, 8 * i - 5) = (x \div 16) % 2
         /\ Bit(in, 8 * i - 4) = (x \div 8) % 2
         /\ Bit(in, 8 * i - 3) = (x \div 4) % 2
         /\ Bit(in, 8 * i - 2) = (x \div 2) % 2
         /\ Bit(in, 8 * i - 1) = (x \div 1) % 2
<1>1. Len(in) \in Nat
  BY LenProperties
<1>2. ASSUME NEW n \in Nat, NEW w \in Nat \ {0}, n \div 8 = i - 1, Weight[(n % 8) + 1] = w
      PROVE  Bit(in, n) = (x \div w) % 2
  <2>1. n < 8 * Len(in) <=> i <= Len(in)
    BY <1>1, <1>2
  <2>2. CASE i <= Len(in)
    <3>1. (n \div 8) + 1 = i
      BY <1>2
    <3> QED BY <1>2, <2>1, <2>2, <3>1 DEF Bit, ByteAt
  <2>3. CASE ~(i <= Len(in))
    <3>1. (0 \div w) % 2 = 0
      OBVIOUS
    <3> QED BY <2>1, <2>3, <3>1 DEF Bit, ByteAt
  <2> QED BY <2>2, <2>3
<1>3. Bit(in, 8 * i - 8) = (x \div 128) % 2
  <2>1. PICK n \in Nat : n = 8 * i - 8 /\ n \div 8 = i - 1 /\ n % 8 = 0
    OBVIOUS
  <2>2. Weight[(n % 8) + 1] = 128 /\ 128 \in Nat \ {0}
    BY <2>1, Weights
  <2> QED BY <1>2, <2>1, <2>2, Zenon
<1>4. Bit(in, 8 * i - 7) = (x \div 64) % 2
  <2>1. PICK n \in Nat : n = 8 * i - 7 /\ n \div 8 = i - 1 /\ n % 8 = 1
    OBVIOUS
  <2>2. Weight[(n % 8) + 1] = 64 /\ 64 \in Nat \ {0}
    BY <2>1, Weights
  <2> QED BY <1>2, <2>1, <2>2, Zenon
<1>5. Bit(in, 8 * i - 6) = (x \div 32) % 2
  <2>1. PICK n \in Nat : n = 8 * i - 6 /\ n \div 8 = i - 1 /\ n % 8 = 2
    OBVIOUS
  <2>2. Weight[(n % 8) + 1] = 32 /\ 32 \in Nat \ {0}
    BY <2>1, Weights
  <2> QED BY <1>2, <2>1, <2>2, Zenon
<1>6. Bit(in, 8 * i - 5) = (x \div 16) % 2
  <2>1. PICK n \in Nat : n = 8 * i - 5 /\ n \div 8 = i - 1 /\ n % 8 = 3
    OBVIOUS
  <2>2. Weight[(n % 8) + 1] = 16 /\ 16 \in Nat \ {0}
    BY <2>1, Weights
  <2> QED BY <1>2, <2>1, <2>2, Zenon
<1>7. Bit(in, 8 * i - 4) = (x \div 8) % 2
  <2>1. PICK n \in Nat : n = 8 * i - 4 /\ n \div 8 = i - 1 /\ n % 8 = 4
    OBVIOUS
  <2>2. Weight[(n % 8) + 1] = 8 /\ 8 \in Nat \ {0}
    BY <2>1, Weights
  <2> QED BY <1>2, <2>1, <2>2, Zenon
<1>8. Bit(in, 8 * i - 3) = (x \div 4) % 2
  <2>1. PICK n \in Nat : n = 8 * i - 3 /\ n \div 8 = i - 1 /\ n % 8 = 5
    OBVIOUS
  <2>2. Weight[(n % 8) + 1] = 4 /\ 4 \in Nat \ {0}
    BY <2>1, Weights
  <2> QED BY <1>2, <2>1, <2>2, Zenon
<1>9. Bit(in, 8 * i - 2) = (x \div 2) % 2
  <2>1. PICK n \in Nat : n = 8 * i - 2 /\ n \div 8 = i - 1 /\ n % 8 = 6
    OBVIOUS
  <2>2. Weight[(n % 8) + 1] = 2 /\ 2 \in Nat \ {0}
    BY <2>1, Weights
  <2> QED BY <1>2, <2>1, <2>2, Zenon
<1>10. Bit(in, 8 * i - 1) = (x \div 1) % 2
  <2>1. PICK n \in Nat : n = 8 * i - 1 /\ n \div 8 = i - 1 /\ n % 8 = 7
    OBVIOUS
  <2>2. Weight[(n % 8) + 1] = 1 /\ 1 \in Nat \ {0}
    BY <2>1, Weights
  <2> QED BY <1>2, <2>1, <2>2, Zenon
<1> QED BY <1>3, <1>4, <1>5, <1>6, <1>7, <1>8, <1>9, <1>10

\* Six bits in a row, over the bytes they are taken from.
LEMMA SumOne ==
  ASSUME NEW x \in 0 .. 255
  PROVE  /\ 32 * ((x \div 128) % 2) + 16 * ((x \div 64) % 2) + 8 * ((x \div 32) % 2)
              + 4 * ((x \div 16) % 2) + 2 * ((x \div 8) % 2) + ((x \div 4) % 2) = x \div 4
         /\ 32 * ((x \div 32) % 2) + 16 * ((x \div 16) % 2) + 8 * ((x \div 8) % 2)
              + 4 * ((x \div 4) % 2) + 2 * ((x \div 2) % 2) + ((x \div 1) % 2) = x % 64
OBVIOUS

LEMMA SumTwo ==
  ASSUME NEW x \in 0 .. 255, NEW y \in 0 .. 255
  PROVE  32 * ((x \div 2) % 2) + 16 * ((x \div 1) % 2) + 8 * ((y \div 128) % 2)
           + 4 * ((y \div 64) % 2) + 2 * ((y \div 32) % 2) + ((y \div 16) % 2) = ((x % 4) * 16) + (y \div 16)
<1>1. 2 * ((x \div 2) % 2) + ((x \div 1) % 2) = x % 4
  OBVIOUS
<1>2. 8 * ((y \div 128) % 2) + 4 * ((y \div 64) % 2) + 2 * ((y \div 32) % 2) + ((y \div 16) % 2) = y \div 16
  OBVIOUS
<1> QED BY <1>1, <1>2

LEMMA SumThree ==
  ASSUME NEW x \in 0 .. 255, NEW y \in 0 .. 255
  PROVE  32 * ((x \div 8) % 2) + 16 * ((x \div 4) % 2) + 8 * ((x \div 2) % 2)
           + 4 * ((x \div 1) % 2) + 2 * ((y \div 128) % 2) + ((y \div 64) % 2) = ((x % 16) * 4) + (y \div 64)
<1>1. 8 * ((x \div 8) % 2) + 4 * ((x \div 4) % 2) + 2 * ((x \div 2) % 2) + ((x \div 1) % 2) = x % 16
  OBVIOUS
<1>2. 2 * ((y \div 128) % 2) + ((y \div 64) % 2) = y \div 64
  OBVIOUS
<1> QED BY <1>1, <1>2

\* The four characters of a block.
LEMMA SextetsOfBlock ==
  ASSUME NEW in \in Seq(0 .. 255), NEW k \in Nat \ {0}, NEW a, NEW b, NEW c,
         a = ByteAt(in, 3 * k - 2), b = ByteAt(in, 3 * k - 1), c = ByteAt(in, 3 * k)
  PROVE  /\ Sextet(in, 24 * k - 24) = a \div 4
         /\ Sextet(in, 24 * k - 18) = ((a % 4) * 16) + (b \div 16)
         /\ Sextet(in, 24 * k - 12) = ((b % 16) * 4) + (c \div 64)
         /\ Sextet(in, 24 * k - 6) = c % 64
<1>1. a \in 0 .. 255 /\ b \in 0 .. 255 /\ c \in 0 .. 255
  <2>1. 3 * k - 2 \in Nat \ {0} /\ 3 * k - 1 \in Nat \ {0} /\ 3 * k \in Nat \ {0}
    OBVIOUS
  <2> QED BY <2>1, ByteType
<1>2. /\ Bit(in, 24 * k - 24) = (a \div 128) % 2
      /\ Bit(in, 24 * k - 23) = (a \div 64) % 2
      /\ Bit(in, 24 * k - 22) = (a \div 32) % 2
      /\ Bit(in, 24 * k - 21) = (a \div 16) % 2
      /\ Bit(in, 24 * k - 20) = (a \div 8) % 2
      /\ Bit(in, 24 * k - 19) = (a \div 4) % 2
      /\ Bit(in, 24 * k - 18) = (a \div 2) % 2
      /\ Bit(in, 24 * k - 17) = (a \div 1) % 2
  <2>1. PICK i \in Nat \ {0} : i = 3 * k - 2
    OBVIOUS
  <2>2. 8 * i - 8 = 24 * k - 24 /\ 8 * i - 7 = 24 * k - 23 /\ 8 * i - 6 = 24 * k - 22 /\ 8 * i - 5 = 24 * k - 21
    BY <2>1
  <2>3. 8 * i - 4 = 24 * k - 20 /\ 8 * i - 3 = 24 * k - 19 /\ 8 * i - 2 = 24 * k - 18 /\ 8 * i - 1 = 24 * k - 17
    BY <2>1
  <2> QED BY <2>1, <2>2, <2>3, BitsOfByte
<1>3. /\ Bit(in, 24 * k - 16) = (b \div 128) % 2
      /\ Bit(in, 24 * k - 15) = (b \div 64) % 2
      /\ Bit(in, 24 * k - 14) = (b \div 32) % 2
      /\ Bit(in, 24 * k - 13) = (b \div 16) % 2
      /\ Bit(in, 24 * k - 12) = (b \div 8) % 2
      /\ Bit(in, 24 * k - 11) = (b \div 4) % 2
      /\ Bit(in, 24 * k - 10) = (b \div 2) % 2
      /\ Bit(in, 24 * k - 9) = (b \div 1) % 2
  <2>1. PICK i \in Nat \ {0} : i = 3 * k - 1
    OBVIOUS
  <2>2. 8 * i - 8 = 24 * k - 16 /\ 8 * i - 7 = 24 * k - 15 /\ 8 * i - 6 = 24 * k - 14 /\ 8 * i - 5 = 24 * k - 13
    BY <2>1
  <2>3. 8 * i - 4 = 24 * k - 12 /\ 8 * i - 3 = 24 * k - 11 /\ 8 * i - 2 = 24 * k - 10 /\ 8 * i - 1 = 24 * k - 9
    BY <2>1
  <2> QED BY <2>1, <2>2, <2>3, BitsOfByte
<1>4. /\ Bit(in, 24 * k - 8) = (c \div 128) % 2
      /\ Bit(in, 24 * k - 7) = (c \div 64) % 2
      /\ Bit(in, 24 * k - 6) = (c \div 32) % 2
      /\ Bit(in, 24 * k - 5) = (c \div 16) % 2
      /\ Bit(in, 24 * k - 4) = (c \div 8) % 2
      /\ Bit(in, 24 * k - 3) = (c \div 4) % 2
      /\ Bit(in, 24 * k - 2) = (c \div 2) % 2
      /\ Bit(in, 24 * k - 1) = (c \div 1) % 2
  <2>1. PICK i \in Nat \ {0} : i = 3 * k
    OBVIOUS
  <2>2. 8 * i - 8 = 24 * k - 8 /\ 8 * i - 7 = 24 * k - 7 /\ 8 * i - 6 = 24 * k - 6 /\ 8 * i - 5 = 24 * k - 5
    BY <2>1
  <2>3. 8 * i - 4 = 24 * k - 4 /\ 8 * i - 3 = 24 * k - 3 /\ 8 * i - 2 = 24 * k - 2 /\ 8 * i - 1 = 24 * k - 1
    BY <2>1
  <2> QED BY <2>1, <2>2, <2>3, BitsOfByte
<1>5. Sextet(in, 24 * k - 24) = a \div 4
  <2>1. PICK n \in Int : /\ n = 24 * k - 24 /\ n + 1 = 24 * k - 23 /\ n + 2 = 24 * k - 22
                       /\ n + 3 = 24 * k - 21 /\ n + 4 = 24 * k - 20 /\ n + 5 = 24 * k - 19
    OBVIOUS
  <2>2. Sextet(in, n) = 32 * ((a \div 128) % 2) + 16 * ((a \div 64) % 2) + 8 * ((a \div 32) % 2)
                          + 4 * ((a \div 16) % 2) + 2 * ((a \div 8) % 2) + ((a \div 4) % 2)
    BY <1>2, <2>1 DEF Sextet
  <2> QED BY <1>1, <2>1, <2>2, SumOne
<1>6. Sextet(in, 24 * k - 18) = ((a % 4) * 16) + (b \div 16)
  <2>1. PICK n \in Int : /\ n = 24 * k - 18 /\ n + 1 = 24 * k - 17 /\ n + 2 = 24 * k - 16
                       /\ n + 3 = 24 * k - 15 /\ n + 4 = 24 * k - 14 /\ n + 5 = 24 * k - 13
    OBVIOUS
  <2>2. Sextet(in, n) = 32 * ((a \div 2) % 2) + 16 * ((a \div 1) % 2) + 8 * ((b \div 128) % 2)
                          + 4 * ((b \div 64) % 2) + 2 * ((b \div 32) % 2) + ((b \div 16) % 2)
    BY <1>2, <1>3, <2>1 DEF Sextet
  <2>3. 32 * ((a \div 2) % 2) + 16 * ((a \div 1) % 2) + 8 * ((b \div 128) % 2)
          + 4 * ((b \div 64) % 2) + 2 * ((b \div 32) % 2) + ((b \div 16) % 2) = ((a % 4) * 16) + (b \div 16)
    BY <1>1, SumTwo, Zenon
  <2> QED BY <2>1, <2>2, <2>3
<1>7. Sextet(in, 24 * k - 12) = ((b % 16) * 4) + (c \div 64)
  <2>1. PICK n \in Int : /\ n = 24 * k - 12 /\ n + 1 = 24 * k - 11 /\ n + 2 = 24 * k - 10
                       /\ n + 3 = 24 * k - 9 /\ n + 4 = 24 * k - 8 /\ n + 5 = 24 * k - 7
    OBVIOUS
  <2>2. Sextet(in, n) = 32 * ((b \div 8) % 2) + 16 * ((b \div 4) % 2) + 8 * ((b \div 2) % 2)
                          + 4 * ((b \div 1) % 2) + 2 * ((c \div 128) % 2) + ((c \div 64) % 2)
    BY <1>3, <1>4, <2>1 DEF Sextet
  <2>3. 32 * ((b \div 8) % 2) + 16 * ((b \div 4) % 2) + 8 * ((b \div 2) % 2)
          + 4 * ((b \div 1) % 2) + 2 * ((c \div 128) % 2) + ((c \div 64) % 2) = ((b % 16) * 4) + (c \div 64)
    BY <1>1, SumThree, Zenon
  <2> QED BY <2>1, <2>2, <2>3
<1>8. Sextet(in, 24 * k - 6) = c % 64
  <2>1. PICK n \in Int : /\ n = 24 * k - 6 /\ n + 1 = 24 * k - 5 /\ n + 2 = 24 * k - 4
                       /\ n + 3 = 24 * k - 3 /\ n + 4 = 24 * k - 2 /\ n + 5 = 24 * k - 1
    OBVIOUS
  <2>2. Sextet(in, n) = 32 * ((c \div 32) % 2) + 16 * ((c \div 16) % 2) + 8 * ((c \div 8) % 2)
                          + 4 * ((c \div 4) % 2) + 2 * ((c \div 2) % 2) + ((c \div 1) % 2)
    BY <1>4, <2>1 DEF Sextet
  <2> QED BY <1>1, <2>1, <2>2, SumOne
<1> QED BY <1>5, <1>6, <1>7, <1>8

LEMMA Base64Type ==
  ASSUME NEW in \in Seq(0 .. 255)
  PROVE  Base64(in) \in Seq(Nat) /\ Len(Base64(in)) = 4 * Quads(in) /\ Quads(in) \in Nat
<1> DEFINE chars == (8 * Len(in) + 5) \div 6
<1>1. Len(in) \in Nat /\ Quads(in) \in Nat /\ (chars + 3) \div 4 = Quads(in)
  BY LenProperties DEF Quads
<1>2. \A n \in Nat : Bit(in, n) \in Nat
  <2> SUFFICES ASSUME NEW n \in Nat PROVE Bit(in, n) \in Nat
    OBVIOUS
  <2>1. CASE n < 8 * Len(in)
    <3>1. (n \div 8) + 1 \in 1 .. Len(in) /\ n % 8 \in {0, 1, 2, 3, 4, 5, 6, 7}
      BY <1>1, <2>1
    <3>2. in[(n \div 8) + 1] \in 0 .. 255
      BY <3>1, ElementOfSeq
    <3>3. Weight[(n % 8) + 1] \in {1, 2, 4, 8, 16, 32, 64, 128}
      BY <3>1, Weights
    <3>4. \A x \in 0 .. 255, w \in {1, 2, 4, 8, 16, 32, 64, 128} : (x \div w) % 2 \in Nat
      OBVIOUS
    <3> DEFINE x == in[(n \div 8) + 1]
               w == Weight[(n % 8) + 1]
    <3>5. Bit(in, n) = (x \div w) % 2
      BY <2>1 DEF Bit
    <3>6. x \in 0 .. 255 /\ w \in {1, 2, 4, 8, 16, 32, 64, 128}
      BY <3>2, <3>3
    <3> HIDE DEF x, w
    <3> QED BY <3>4, <3>5, <3>6
  <2>2. CASE ~(n < 8 * Len(in))
    BY <2>2 DEF Bit
  <2> QED BY <2>1, <2>2
<1>3. \A j \in 1 .. 4 * Quads(in) : Sextet(in, 6 * (j - 1)) \in Nat
  <2>1. ASSUME NEW n \in Nat PROVE Sextet(in, n) \in Nat
    <3>1. n + 1 \in Nat /\ n + 2 \in Nat /\ n + 3 \in Nat /\ n + 4 \in Nat /\ n + 5 \in Nat
      OBVIOUS
    <3>2. /\ Bit(in, n) \in Nat /\ Bit(in, n + 1) \in Nat /\ Bit(in, n + 2) \in Nat
          /\ Bit(in, n + 3) \in Nat /\ Bit(in, n + 4) \in Nat /\ Bit(in, n + 5) \in Nat
      BY <1>2, <3>1, Zenon
    <3>3. PICK p \in Nat, q \in Nat, r \in Nat, s \in Nat, t \in Nat, u \in Nat :
            /\ p = Bit(in, n) /\ q = Bit(in, n + 1) /\ r = Bit(in, n + 2)
            /\ s = Bit(in, n + 3) /\ t = Bit(in, n + 4) /\ u = Bit(in, n + 5)
      BY <3>2, Zenon
    <3>4. Sextet(in, n) = 32 * p + 16 * q + 8 * r + 4 * s + 2 * t + u
      BY <3>3 DEF Sextet
    <3>5. 32 * p + 16 * q + 8 * r + 4 * s + 2 * t + u \in Nat
      OBVIOUS
    <3> QED BY <3>4, <3>5
  <2>2. \A j \in 1 .. 4 * Quads(in) : 6 * (j - 1) \in Nat
    BY <1>1
  <2> QED BY <2>1, <2>2
<1>4. PICK N \in Nat : N = 4 * Quads(in) /\ N = 4 * ((chars + 3) \div 4)
  BY <1>1
<1> HIDE DEF chars
<1>5. Base64(in) = [j \in 1 .. N |-> IF j <= chars THEN Sextet(in, 6 * (j - 1)) ELSE Pad]
  BY <1>4 DEF Base64, chars
<1>6. Base64(in) \in [1 .. N -> Nat]
  BY <1>3, <1>4, <1>5 DEF Pad
<1> QED BY <1>1, <1>4, <1>6

LEMMA OneAndThree ==
  ASSUME NEW x \in Nat, NEW y \in Nat, NEW z \in Nat, NEW w \in Nat
  PROVE  <<x>> \o <<y, z, w>> = <<x, y, z, w>>
<1>1. PICK s \in Seq(Nat), t \in Seq(Nat), u \in Seq(Nat) :
        s = <<x>> /\ t = <<y, z, w>> /\ u = <<x, y, z, w>>
  <2>1. <<x>> \in Seq(Nat) /\ <<y, z, w>> \in Seq(Nat) /\ <<x, y, z, w>> \in Seq(Nat)
    OBVIOUS
  <2> QED BY <2>1, Zenon
<1>2. /\ Len(s) = 1 /\ s[1] = x /\ Len(t) = 3 /\ t[1] = y /\ t[2] = z /\ t[3] = w
      /\ Len(u) = 4 /\ u[1] = x /\ u[2] = y /\ u[3] = z /\ u[4] = w
  BY <1>1
<1>3. s \o t \in Seq(Nat) /\ Len(s \o t) = 4
  <2>1. s \o t \in Seq(Nat) /\ Len(s \o t) = Len(s) + Len(t)
    BY ConcatProperties
  <2> QED BY <1>2, <2>1
<1>4. \A i \in 1 .. Len(s) + Len(t) : (s \o t)[i] = IF i <= Len(s) THEN s[i] ELSE t[i - Len(s)]
  BY ConcatProperties
<1>5. \A i \in 1 .. 4 : (s \o t)[i] = u[i]
  <2>1. ASSUME NEW i \in 1 .. 4 PROVE (s \o t)[i] = u[i]
    <3>1. i \in 1 .. Len(s) + Len(t)
      BY <1>2
    <3>2. (s \o t)[i] = IF i <= Len(s) THEN s[i] ELSE t[i - Len(s)]
      BY <1>4, <3>1, Zenon
    <3>3. i = 1 \/ i = 2 \/ i = 3 \/ i = 4
      OBVIOUS
    <3> QED BY <1>2, <3>2, <3>3
  <2> QED BY <2>1
<1>6. s \o t = u
  <2>1. Len(s \o t) = Len(u) /\ \A i \in 1 .. Len(s \o t) : (s \o t)[i] = u[i]
    BY <1>2, <1>3, <1>5
  <2> QED BY <1>3, <2>1, SeqEqual, Zenon
<1> QED BY <1>1, <1>6

\* What the code makes of three bytes is what the definition says of them.
LEMMA QuadIsBase64 ==
  ASSUME NEW in \in Seq(0 .. 255), Encodable(in), NEW junk, NEW k \in 1 .. Quads(in)
  PROVE  Quad(in, k, junk) = <<Base64(in)[4 * k - 3], Base64(in)[4 * k - 2],
                               Base64(in)[4 * k - 1], Base64(in)[4 * k]>>
<1> DEFINE l == Len(in)
           a == ByteAt(in, 3 * k - 2)
           b == ByteAt(in, 3 * k - 1)
           c == ByteAt(in, 3 * k)
<1>1. /\ l \in Nat /\ k \in Nat \ {0} /\ 3 * k - 2 \in 1 .. l
      /\ 4 * k - 3 \in 1 .. 4 * Quads(in) /\ 4 * k - 2 \in 1 .. 4 * Quads(in)
      /\ 4 * k - 1 \in 1 .. 4 * Quads(in) /\ 4 * k \in 1 .. 4 * Quads(in)
  BY LenProperties DEF Quads
<1>2. a < 128
  <2>1. DOMAIN in = 1 .. l /\ (3 * k - 2) % 3 = 1
    BY <1>1, LenProperties
  <2>2. in[3 * k - 2] < 128
    BY <1>1, <2>1 DEF Encodable
  <2> QED BY <1>1, <2>2 DEF ByteAt
<1>3. /\ Sextet(in, 24 * k - 24) = a \div 4
      /\ Sextet(in, 24 * k - 18) = ((a % 4) * 16) + (b \div 16)
      /\ Sextet(in, 24 * k - 12) = ((b % 16) * 4) + (c \div 64)
      /\ Sextet(in, 24 * k - 6) = c % 64
  BY <1>1, SextetsOfBlock
<1>4. Quad(in, k, junk) =
        <<a \div 4>> \o <<((a % 4) * 16) + (b \div 16),
                          IF l - 3 * (k - 1) > 1 THEN ((b % 16) * 4) + (c \div 64) ELSE Pad,
                          IF l - 3 * (k - 1) > 2 THEN c % 64 ELSE Pad>>
  BY <1>2 DEF Quad, encodeblock
<1> HIDE DEF a, b, c, l
<1>5. Quad(in, k, junk) =
        <<a \div 4, ((a % 4) * 16) + (b \div 16),
          IF l - 3 * (k - 1) > 1 THEN ((b % 16) * 4) + (c \div 64) ELSE Pad,
          IF l - 3 * (k - 1) > 2 THEN c % 64 ELSE Pad>>
  <2>2. a \in 0 .. 255 /\ b \in 0 .. 255 /\ c \in 0 .. 255
    <3>1. 3 * k - 2 \in Nat \ {0} /\ 3 * k - 1 \in Nat \ {0} /\ 3 * k \in Nat \ {0}
      BY <1>1
    <3> QED BY <3>1, ByteType DEF a, b, c
  <2>3. /\ a \div 4 \in Nat /\ ((a % 4) * 16) + (b \div 16) \in Nat
        /\ (IF l - 3 * (k - 1) > 1 THEN ((b % 16) * 4) + (c \div 64) ELSE Pad) \in Nat
        /\ (IF l - 3 * (k - 1) > 2 THEN c % 64 ELSE Pad) \in Nat
    BY <2>2 DEF Pad
  <2>4. PICK x \in Nat, y \in Nat, z \in Nat, w \in Nat :
          /\ x = a \div 4 /\ y = ((a % 4) * 16) + (b \div 16)
          /\ z = IF l - 3 * (k - 1) > 1 THEN ((b % 16) * 4) + (c \div 64) ELSE Pad
          /\ w = IF l - 3 * (k - 1) > 2 THEN c % 64 ELSE Pad
    BY <2>3, Zenon
  <2>5. <<x>> \o <<y, z, w>> = <<x, y, z, w>>
    BY OneAndThree
  <2>6. Quad(in, k, junk) = <<x>> \o <<y, z, w>>
    BY <1>4, <2>4, Zenon
  <2>7. Quad(in, k, junk) = <<x, y, z, w>>
    BY <2>5, <2>6
  <2> QED BY <2>4, <2>7, Zenon
<1>6. PICK chars \in Nat : chars = (8 * l + 5) \div 6
  BY <1>1
<1>7. \A j \in 1 .. 4 * Quads(in) : Base64(in)[j] = IF j <= chars THEN Sextet(in, 6 * (j - 1)) ELSE Pad
  <2>1. (chars + 3) \div 4 = Quads(in)
    <3>1. \A n \in Nat : (((8 * n + 5) \div 6) + 3) \div 4 = (n + 2) \div 3
      OBVIOUS
    <3> QED BY <1>1, <1>6, <3>1, Zenon DEF Quads, l
  <2> QED BY <1>6, <2>1 DEF Base64, l
<1>8. /\ 6 * (4 * k - 3 - 1) = 24 * k - 24 /\ 6 * (4 * k - 2 - 1) = 24 * k - 18
      /\ 6 * (4 * k - 1 - 1) = 24 * k - 12 /\ 6 * (4 * k - 1) = 24 * k - 6
      /\ 4 * k - 3 <= chars /\ 4 * k - 2 <= chars
      /\ (4 * k - 1 <= chars <=> l - 3 * (k - 1) > 1) /\ (4 * k <= chars <=> l - 3 * (k - 1) > 2)
  BY <1>1, <1>6
<1>9. /\ Base64(in)[4 * k - 3] = a \div 4
      /\ Base64(in)[4 * k - 2] = ((a % 4) * 16) + (b \div 16)
      /\ Base64(in)[4 * k - 1] = IF l - 3 * (k - 1) > 1 THEN ((b % 16) * 4) + (c \div 64) ELSE Pad
      /\ Base64(in)[4 * k] = IF l - 3 * (k - 1) > 2 THEN c % 64 ELSE Pad
  BY <1>1, <1>3, <1>7, <1>8
<1> QED BY <1>5, <1>9

LEMMA FourOf ==
  ASSUME NEW b \in Seq(Nat), NEW i \in Nat \ {0}, i + 3 <= Len(b)
  PROVE  SubSeq(b, i, i + 3) = <<b[i], b[i + 1], b[i + 2], b[i + 3]>>
<1>1. PICK s \in Seq(Nat), u \in Seq(Nat) :
        s = SubSeq(b, i, i + 3) /\ u = <<b[i], b[i + 1], b[i + 2], b[i + 3]>>
  <2>1. Len(b) \in Nat /\ \A j \in 1 .. Len(b) : b[j] \in Nat
    BY LenProperties, ElementOfSeq
  <2>2. b[i] \in Nat /\ b[i + 1] \in Nat /\ b[i + 2] \in Nat /\ b[i + 3] \in Nat
    BY <2>1
  <2>3. \A j \in i .. i + 3 : b[j] \in Nat
    BY <2>1
  <2>4. SubSeq(b, i, i + 3) \in Seq(Nat)
    BY <2>3, SubSeqProperties
  <2>5. <<b[i], b[i + 1], b[i + 2], b[i + 3]>> \in Seq(Nat)
    BY <2>2
  <2> QED BY <2>4, <2>5
<1>2. Len(s) = 4 /\ \A j \in 1 .. 4 : s[j] = b[i + j - 1]
  <2>1. \A j \in i .. i + 3 : b[j] \in Nat
    BY LenProperties, ElementOfSeq
  <2>2. /\ Len(s) = IF i <= i + 3 THEN i + 3 - i + 1 ELSE 0
        /\ \A j \in 1 .. i + 3 - i + 1 : s[j] = b[i + j - 1]
    BY <1>1, <2>1, SubSeqProperties
  <2>3. i + 3 - i + 1 = 4 /\ i <= i + 3
    OBVIOUS
  <2> QED BY <2>2, <2>3
<1>3. Len(u) = 4 /\ u[1] = b[i] /\ u[2] = b[i + 1] /\ u[3] = b[i + 2] /\ u[4] = b[i + 3]
  BY <1>1
<1>4. \A j \in 1 .. 4 : s[j] = u[j]
  <2>1. ASSUME NEW j \in 1 .. 4 PROVE s[j] = u[j]
    <3>1. j = 1 \/ j = 2 \/ j = 3 \/ j = 4
      OBVIOUS
    <3>2. i + 1 - 1 = i /\ i + 2 - 1 = i + 1 /\ i + 3 - 1 = i + 2 /\ i + 4 - 1 = i + 3
      OBVIOUS
    <3> QED BY <1>2, <1>3, <3>1, <3>2
  <2> QED BY <2>1
<1>5. s = u
  <2>1. Len(s) = Len(u) /\ \A j \in 1 .. Len(s) : s[j] = u[j]
    BY <1>2, <1>3, <1>4
  <2> QED BY <2>1, SeqEqual, Zenon
<1> QED BY <1>1, <1>5

\* The code and the definition agree on what is given to it at once.
LEMMA EncodesRight ==
  ASSUME NEW in \in Seq(0 .. 255), Encodable(in), NEW junk
  PROVE  base64_encode(in, junk) = Base64(in)
<1>1. PICK n \in Nat, b \in Seq(Nat) :
        n = Quads(in) /\ n = (Len(in) + 2) \div 3 /\ b = Base64(in) /\ Len(b) = 4 * n
  <2>1. Base64(in) \in Seq(Nat) /\ Len(Base64(in)) = 4 * Quads(in) /\ Quads(in) \in Nat
    BY Base64Type
  <2> QED BY <2>1, Zenon DEF Quads
<1>2. PICK g : g = [k \in 1 .. n |-> Quad(in, k, junk)]
  OBVIOUS
<1>3. base64_encode(in, junk) = FlattenSeq(g)
  BY <1>1, <1>2 DEF base64_encode, Quad, ByteAt
<1>4. PICK p : p = [k \in 0 .. n |-> 4 * k]
  OBVIOUS
<1>5. ASSUME NEW k \in 1 .. n
      PROVE  /\ g[k] = SubSeq(b, p[k - 1] + 1, p[k]) /\ p[k - 1] <= p[k]
             /\ g[k] \in Seq(Nat)
  <2>1. g[k] = <<b[4 * k - 3], b[4 * k - 2], b[4 * k - 1], b[4 * k]>>
    <3>1. Quad(in, k, junk) = <<Base64(in)[4 * k - 3], Base64(in)[4 * k - 2],
                               Base64(in)[4 * k - 1], Base64(in)[4 * k]>>
      BY <1>1, QuadIsBase64
    <3>2. g[k] = Quad(in, k, junk)
      BY <1>2
    <3> QED BY <1>1, <3>1, <3>2
  <2>2. PICK i \in Nat \ {0} : /\ i = 4 * k - 3 /\ i + 1 = 4 * k - 2 /\ i + 2 = 4 * k - 1 /\ i + 3 = 4 * k
                               /\ i + 3 <= Len(b)
    BY <1>1
  <2>3. SubSeq(b, i, i + 3) = <<b[i], b[i + 1], b[i + 2], b[i + 3]>>
    BY <2>2, FourOf
  <2>4. p[k - 1] + 1 = i /\ p[k] = i + 3 /\ p[k - 1] <= p[k]
    <3>1. k - 1 \in 0 .. n /\ k \in 0 .. n
      BY <1>1
    <3>2. p[k - 1] = 4 * (k - 1) /\ p[k] = 4 * k
      BY <1>4, <3>1
    <3> QED BY <2>2, <3>2
  <2>5. g[k] = SubSeq(b, i, i + 3)
    BY <2>1, <2>2, <2>3
  <2>6. SubSeq(b, i, i + 3) \in Seq(Nat)
    <3>1. \A j \in i .. i + 3 : b[j] \in Nat
      BY <2>2, LenProperties, ElementOfSeq
    <3>2. i \in Int /\ i + 3 \in Int
      BY <2>2
    <3> QED BY <3>1, <3>2, SubSeqProperties
  <2> QED BY <2>4, <2>5, <2>6
<1>6. g \in Seq(Seq(Nat)) /\ Len(g) = n
  BY <1>2, <1>5
<1>7. p \in [0 .. Len(g) -> 0 .. Len(b)] /\ p[0] = 0 /\ p[Len(g)] = Len(b)
  BY <1>1, <1>4, <1>6
<1>8. FlattenSeq(g) = SubSeq(b, 1, p[Len(g)])
  BY <1>5, <1>6, <1>7, Pieces
<1>9. SubSeq(b, 1, Len(b)) = b
  BY SubSeqFull
<1> QED BY <1>1, <1>3, <1>7, <1>8, <1>9

LEMMA PartType ==
  ASSUME NEW txt \in Seq(0 .. 255), NEW m \in Nat, NEW e \in Nat, m <= e, e <= Len(txt)
  PROVE  /\ SubSeq(txt, m + 1, e) \in Seq(0 .. 255) /\ Len(SubSeq(txt, m + 1, e)) = e - m
         /\ \A i \in 1 .. e - m : SubSeq(txt, m + 1, e)[i] = txt[m + i]
<1>1. \A j \in m + 1 .. e : txt[j] \in 0 .. 255
  <2>1. Len(txt) \in Nat /\ \A j \in 1 .. Len(txt) : txt[j] \in 0 .. 255
    BY LenProperties, ElementOfSeq
  <2>2. \A j \in m + 1 .. e : j \in 1 .. Len(txt)
    BY <2>1
  <2> QED BY <2>1, <2>2
<1>2. m + 1 \in Int /\ e \in Int
  OBVIOUS
<1>3. /\ SubSeq(txt, m + 1, e) \in Seq(0 .. 255)
      /\ Len(SubSeq(txt, m + 1, e)) = IF m + 1 <= e THEN e - (m + 1) + 1 ELSE 0
      /\ \A i \in 1 .. e - (m + 1) + 1 : SubSeq(txt, m + 1, e)[i] = txt[m + 1 + i - 1]
  BY <1>1, <1>2, SubSeqProperties
<1>4. (IF m + 1 <= e THEN e - (m + 1) + 1 ELSE 0) = e - m /\ e - (m + 1) + 1 = e - m
  OBVIOUS
<1>5. \A i \in 1 .. e - m : m + 1 + i - 1 = m + i
  OBVIOUS
<1> QED BY <1>3, <1>4, <1>5

LEMMA ByEight ==
  ASSUME NEW q \in Nat, NEW y \in 0 .. 7, NEW r \in Nat, r = 8 * q + y
  PROVE  r \div 8 = q /\ r % 8 = y
OBVIOUS

\* A part of a file that begins at a block's begin, and what of the encoding of
\* the file it is.
LEMMA PartBits ==
  ASSUME NEW txt \in Seq(0 .. 255), NEW m \in Nat, NEW e \in Nat, 3 * m <= e, e <= Len(txt)
  PROVE  \A n \in Nat : (e = Len(txt) \/ n < 8 * (e - 3 * m)) =>
           Bit(SubSeq(txt, 3 * m + 1, e), n) = Bit(txt, 24 * m + n)
<1>0. PICK part : part = SubSeq(txt, 3 * m + 1, e)
  OBVIOUS
<1> SUFFICES ASSUME NEW n \in Nat, e = Len(txt) \/ n < 8 * (e - 3 * m)
             PROVE  Bit(part, n) = Bit(txt, 24 * m + n)
  BY <1>0
<1>1. /\ part \in Seq(0 .. 255) /\ Len(part) = e - 3 * m
      /\ \A i \in 1 .. e - 3 * m : part[i] = txt[3 * m + i]
  <2>1. PICK l \in Nat : l = 3 * m /\ l <= e
    OBVIOUS
  <2>2. /\ SubSeq(txt, l + 1, e) \in Seq(0 .. 255) /\ Len(SubSeq(txt, l + 1, e)) = e - l
        /\ \A i \in 1 .. e - l : SubSeq(txt, l + 1, e)[i] = txt[l + i]
    BY <2>1, PartType
  <2> QED BY <1>0, <2>1, <2>2
<1>2. Len(txt) \in Nat
  BY LenProperties
<1>3. PICK x \in Nat, y \in 0 .. 7 :
        /\ x = n \div 8 /\ y = n % 8 /\ n = 8 * x + y
        /\ 24 * m + n \in Nat /\ (24 * m + n) \div 8 = 3 * m + x /\ (24 * m + n) % 8 = y
  <2>1. n \div 8 \in Nat /\ n % 8 \in 0 .. 7 /\ n = 8 * (n \div 8) + (n % 8)
    OBVIOUS
  <2>2. PICK x \in Nat, y \in 0 .. 7 : x = n \div 8 /\ y = n % 8
    BY <2>1, Zenon
  <2>3. n = 8 * x + y
    BY <2>1, <2>2
  <2>4. PICK q \in Nat, r \in Nat : q = 3 * m + x /\ r = 24 * m + n /\ r = 8 * q + y
    <3>1. 3 * m + x \in Nat /\ 24 * m + n \in Nat /\ 24 * m + n = 8 * (3 * m + x) + y
      BY <2>3
    <3> QED BY <3>1, Zenon
  <2>5. r \div 8 = q /\ r % 8 = y
    BY <2>4, ByEight, Zenon
  <2> QED BY <2>2, <2>3, <2>4, <2>5
<1>4. CASE n < 8 * Len(part)
  <2>0. e - 3 * m \in Nat /\ n < 8 * (e - 3 * m)
    BY <1>1, <1>4
  <2>1. x + 1 \in 1 .. e - 3 * m /\ 24 * m + n < 8 * Len(txt)
    BY <1>2, <1>3, <2>0
  <2>2. part[x + 1] = txt[3 * m + (x + 1)] /\ 3 * m + (x + 1) = 3 * m + x + 1
    BY <1>1, <2>1
  <2>3. Bit(part, n) = (part[x + 1] \div Weight[y + 1]) % 2
    BY <1>3, <1>4 DEF Bit
  <2>4. Bit(txt, 24 * m + n) = (txt[3 * m + x + 1] \div Weight[y + 1]) % 2
    BY <1>3, <2>1 DEF Bit
  <2> QED BY <2>2, <2>3, <2>4
<1>5. CASE ~(n < 8 * Len(part))
  <2>1. ~(24 * m + n < 8 * Len(txt))
    BY <1>1, <1>2, <1>5
  <2> QED BY <1>5, <2>1 DEF Bit
<1> QED BY <1>4, <1>5

\* The encoding of a part is a part of the encoding, if the part ends with a
\* whole block or with the file.
LEMMA PartBase64 ==
  ASSUME NEW txt \in Seq(0 .. 255), NEW m \in Nat, NEW e \in Nat, 3 * m <= e, e <= Len(txt),
         e = Len(txt) \/ e % 3 = 0,
         NEW part, part = SubSeq(txt, 3 * m + 1, e)
  PROVE  /\ Base64(part) = SubSeq(Base64(txt), 4 * m + 1, 4 * ((e + 2) \div 3))
         /\ 4 * m <= 4 * ((e + 2) \div 3) /\ 4 * ((e + 2) \div 3) <= 4 * Quads(txt)
<1>0. \A k \in Nat : (e = Len(txt) \/ k < 8 * (e - 3 * m)) => Bit(part, k) = Bit(txt, 24 * m + k)
  BY PartBits, Zenon
<1>1. part \in Seq(0 .. 255) /\ Len(part) = e - 3 * m
  <2>1. PICK l \in Nat : l = 3 * m /\ l <= e
    OBVIOUS
  <2>2. SubSeq(txt, l + 1, e) \in Seq(0 .. 255) /\ Len(SubSeq(txt, l + 1, e)) = e - l
    BY <2>1, PartType
  <2> QED BY <2>1, <2>2
<1>2. PICK len \in Nat, d \in Nat : len = Len(txt) /\ d = e - 3 * m /\ d = Len(part) /\ e <= len /\ (e = len \/ e % 3 = 0)
  BY <1>1, LenProperties
<1>3. PICK f \in Nat, n \in Nat, q \in Nat, t \in Nat, u \in Nat, v \in Nat :
        /\ f = (e + 2) \div 3 /\ q = (d + 2) \div 3 /\ t = (len + 2) \div 3
        /\ u = (8 * d + 5) \div 6 /\ v = (8 * len + 5) \div 6 /\ n = 4 * q
  <2>1. /\ (e + 2) \div 3 \in Nat /\ (d + 2) \div 3 \in Nat /\ (len + 2) \div 3 \in Nat
        /\ (8 * d + 5) \div 6 \in Nat /\ (8 * len + 5) \div 6 \in Nat /\ 4 * ((d + 2) \div 3) \in Nat
    BY <1>2
  <2> QED BY <2>1, Zenon
<1>4. f = m + q /\ f <= t /\ t = Quads(txt) /\ q = Quads(part)
  BY <1>2, <1>3 DEF Quads
<1>5. (u + 3) \div 4 = q /\ (v + 3) \div 4 = t
  BY <1>3
<1>6. \A j \in 1 .. n : j <= u <=> 4 * m + j <= v
  <2>1. CASE e = len
    <3>1. v = 4 * m + u
      <4>1. PICK x \in Nat, w \in Nat : x = 8 * d + 5 /\ w = 8 * len + 5 /\ w = 6 * (4 * m) + x
        <5>1. 8 * d + 5 \in Nat /\ 8 * len + 5 \in Nat /\ 8 * len + 5 = 6 * (4 * m) + (8 * d + 5)
          BY <1>2, <2>1
        <5> QED BY <5>1, Zenon
      <4>2. w \div 6 = 4 * m + (x \div 6)
        BY <4>1
      <4> QED BY <1>3, <4>1, <4>2
    <3> QED BY <1>3, <3>1
  <2>2. CASE e % 3 = 0
    <3>1. PICK w \in Nat : e = 3 * w
      BY <2>2
    <3>2. f = w /\ d = 3 * (w - m) /\ w - m = q
      BY <1>2, <1>3, <3>1
    <3>3. u = 4 * q
      BY <1>2, <1>3, <3>2
    <3>4. 4 * w <= v
      BY <1>2, <1>3, <3>1
    <3> QED BY <1>3, <3>2, <3>3, <3>4
  <2> QED BY <1>2, <2>1, <2>2
<1>7. ASSUME NEW j \in 1 .. n, j <= u
      PROVE  Sextet(part, 6 * (j - 1)) = Sextet(txt, 6 * (4 * m + j - 1))
  <2>1. PICK b \in Nat, c \in Nat : b = 6 * (j - 1) /\ c = 6 * (4 * m + j - 1) /\ c = 24 * m + b
    BY <1>3, <1>7
  <2>2. \A i \in Nat : i <= b + 5 => e = len \/ i < 8 * d
    <3>1. CASE e = len
      BY <3>1
    <3>2. CASE e % 3 = 0
      <4>1. PICK w \in Nat : e = 3 * w
        BY <3>2
      <4>2. d = 3 * (w - m)
        BY <1>2, <4>1
      <4>3. u = 4 * (w - m)
        BY <1>2, <1>3, <4>2
      <4>4. b + 5 < 8 * d
        BY <1>2, <1>7, <2>1, <4>2, <4>3
      <4> QED BY <1>2, <2>1, <4>4
    <3> QED BY <1>2, <3>1, <3>2
  <2>3. ASSUME NEW i \in Nat, i <= b + 5 PROVE Bit(part, i) = Bit(txt, 24 * m + i)
    <3>1. e = Len(txt) \/ i < 8 * (e - 3 * m)
      BY <1>2, <2>2, <2>3
    <3> QED BY <1>0, <2>3, <3>1, Zenon
  <2>4. /\ Bit(part, b) = Bit(txt, 24 * m + b)
        /\ Bit(part, b + 1) = Bit(txt, 24 * m + (b + 1))
        /\ Bit(part, b + 2) = Bit(txt, 24 * m + (b + 2))
        /\ Bit(part, b + 3) = Bit(txt, 24 * m + (b + 3))
        /\ Bit(part, b + 4) = Bit(txt, 24 * m + (b + 4))
        /\ Bit(part, b + 5) = Bit(txt, 24 * m + (b + 5))
    <3>1. /\ b \in Nat /\ b <= b + 5 /\ b + 1 \in Nat /\ b + 1 <= b + 5 /\ b + 2 \in Nat /\ b + 2 <= b + 5
          /\ b + 3 \in Nat /\ b + 3 <= b + 5 /\ b + 4 \in Nat /\ b + 4 <= b + 5
          /\ b + 5 \in Nat /\ b + 5 <= b + 5
      BY <2>1
    <3> QED BY <2>3, <3>1, Zenon
  <2>5. /\ c = 24 * m + b /\ c + 1 = 24 * m + (b + 1) /\ c + 2 = 24 * m + (b + 2)
        /\ c + 3 = 24 * m + (b + 3) /\ c + 4 = 24 * m + (b + 4) /\ c + 5 = 24 * m + (b + 5)
    BY <2>1
  <2>6. Sextet(part, b) = Sextet(txt, c)
    BY <2>4, <2>5 DEF Sextet
  <2> QED BY <2>1, <2>6
<1>8. PICK s \in Seq(Nat), a \in Seq(Nat), y \in Nat, z \in Nat :
        /\ s = Base64(part) /\ a = Base64(txt) /\ Len(s) = n /\ Len(a) = 4 * t
        /\ y = 4 * m /\ z = 4 * f /\ z = y + n /\ z <= Len(a)
  <2>1. Base64(part) \in Seq(Nat) /\ Len(Base64(part)) = 4 * Quads(part)
    BY <1>1, Base64Type
  <2>2. Base64(txt) \in Seq(Nat) /\ Len(Base64(txt)) = 4 * Quads(txt)
    BY Base64Type
  <2>3. 4 * m \in Nat /\ 4 * f \in Nat /\ 4 * f = 4 * m + n /\ 4 * f <= 4 * t
    BY <1>3, <1>4
  <2> QED BY <1>3, <1>4, <2>1, <2>2, <2>3, Zenon
<1>9. \A j \in 1 .. n : s[j] = a[y + j]
  <2>1. ASSUME NEW j \in 1 .. n PROVE s[j] = a[y + j]
    <3>1. s[j] = IF j <= u THEN Sextet(part, 6 * (j - 1)) ELSE Pad
      BY <1>2, <1>3, <1>5, <1>8 DEF Base64
    <3>2. PICK i \in 1 .. 4 * t : i = 4 * m + j /\ i = y + j
      BY <1>3, <1>8, LenProperties
    <3>3. a[i] = IF i <= v THEN Sextet(txt, 6 * (i - 1)) ELSE Pad
      BY <1>2, <1>3, <1>5, <1>8 DEF Base64
    <3>4. j <= u <=> i <= v
      BY <1>6, <3>2
    <3>5. j <= u => Sextet(part, 6 * (j - 1)) = Sextet(txt, 6 * (i - 1))
      BY <1>7, <3>2
    <3>6. s[j] = a[i]
      <4>1. CASE j <= u
        BY <3>1, <3>3, <3>4, <3>5, <4>1, Zenon
      <4>2. CASE ~(j <= u)
        BY <3>1, <3>3, <3>4, <4>2, Zenon
      <4> QED BY <4>1, <4>2
    <3> QED BY <3>2, <3>6, Zenon
  <2> QED BY <2>1
<1>10. SubSeq(a, y + 1, z) \in Seq(Nat) /\ Len(SubSeq(a, y + 1, z)) = n /\ \A i \in 1 .. n : SubSeq(a, y + 1, z)[i] = a[y + i]
  <2>1. \A i \in y + 1 .. z : a[i] \in Nat
    <3>1. Len(a) \in Nat /\ \A i \in 1 .. Len(a) : a[i] \in Nat
      BY LenProperties, ElementOfSeq
    <3>2. \A i \in y + 1 .. z : i \in 1 .. Len(a)
      BY <1>8, <3>1
    <3> QED BY <3>1, <3>2
  <2>2. y + 1 \in Int /\ z \in Int
    BY <1>8
  <2>3. /\ SubSeq(a, y + 1, z) \in Seq(Nat)
        /\ Len(SubSeq(a, y + 1, z)) = IF y + 1 <= z THEN z - (y + 1) + 1 ELSE 0
        /\ \A i \in 1 .. z - (y + 1) + 1 : SubSeq(a, y + 1, z)[i] = a[y + 1 + i - 1]
    BY <2>1, <2>2, SubSeqProperties
  <2>4. (IF y + 1 <= z THEN z - (y + 1) + 1 ELSE 0) = n /\ z - (y + 1) + 1 = n
    BY <1>3, <1>8
  <2>5. \A i \in 1 .. n : y + 1 + i - 1 = y + i
    BY <1>3, <1>8
  <2> QED BY <2>3, <2>4, <2>5
<1>11. s = SubSeq(a, y + 1, z)
  <2>1. Len(s) = Len(SubSeq(a, y + 1, z)) /\ \A j \in 1 .. Len(s) : s[j] = SubSeq(a, y + 1, z)[j]
    BY <1>8, <1>9, <1>10
  <2> QED BY <1>10, <2>1, SeqEqual, Zenon
<1>12. Base64(part) = SubSeq(Base64(txt), 4 * m + 1, 4 * ((e + 2) \div 3))
  BY <1>3, <1>8, <1>11, Zenon
<1>13. 4 * m <= 4 * f /\ 4 * f <= 4 * t
  BY <1>3, <1>4
<1> QED BY <1>3, <1>4, <1>12, <1>13, Zenon

LEMMA MinOfTwo ==
  ASSUME NEW a \in Nat, NEW b \in Nat
  PROVE  Min({a, b}) = IF a <= b THEN a ELSE b
<1> DEFINE c == IF a <= b THEN a ELSE b
<1>1. c \in {a, b} /\ \A y \in {a, b} : c <= y
  OBVIOUS
<1>2. \A x \in {a, b} : (\A y \in {a, b} : x <= y) => x = c
  OBVIOUS
<1> HIDE DEF c
<1>3. Min({a, b}) = c
  BY <1>1, <1>2 DEF Min
<1> QED BY <1>3 DEF c

\* Where the chunks of a file begin.
LEMMA Multiples ==
  ASSUME NEW x \in Nat, NEW M \in Nat \ {0}, NEW N, N = (x + M - 1) \div M
  PROVE  /\ N \in Nat /\ x <= N * M
         /\ \A k \in 1 .. N : (k - 1) * M <= x
<1>1. x + M - 1 \in Nat
  OBVIOUS
<1>2. N \in Nat /\ N * M <= x + M - 1 /\ x + M - 1 < N * M + M
  BY <1>1
<1>3. x <= N * M
  BY <1>2
<1>4. ASSUME NEW k \in 1 .. N PROVE (k - 1) * M <= x
  <2>1. (k - 1) * M + M <= N * M
    <3>1. PICK d \in Nat : N = k + d
      BY <1>2
    <3>2. N * M = (k - 1) * M + M + d * M
      BY <3>1
    <3> QED BY <3>2
  <2> QED BY <1>2, <2>1
<1> QED BY <1>2, <1>3, <1>4

\* The bytes of a file that the first k chunks hold, and where their characters end.
Read(txt, k) == Min({k * MaxLen, Len(txt)})
Written(txt, k) == 4 * ((Read(txt, k) + 2) \div 3)

LEMMA ChunkOf ==
  ASSUME NEW txt \in Seq(0 .. 255), Encodable(txt), NEW junk,
         NEW N, N = (Len(txt) + MaxLen - 1) \div MaxLen, NEW k \in 1 .. N
  PROVE  /\ base64_encode(Chunk(txt, k), junk) = SubSeq(Base64(txt), Written(txt, k - 1) + 1, Written(txt, k))
         /\ base64_encode(Chunk(txt, k), junk) \in Seq(Nat)
         /\ Written(txt, k - 1) <= Written(txt, k)
<1>0. \A l, e \in Nat : l <= e /\ e <= Len(txt) =>
        /\ SubSeq(txt, l + 1, e) \in Seq(0 .. 255) /\ Len(SubSeq(txt, l + 1, e)) = e - l
        /\ \A i \in 1 .. e - l : SubSeq(txt, l + 1, e)[i] = txt[l + i]
  BY PartType
<1>1. PICK m \in Nat \ {0} : MaxLen = 3 * m
  BY MaxLenAssumption
<1>2. PICK len \in Nat : len = Len(txt)
  BY LenProperties
<1>3. N \in Nat /\ (k - 1) * MaxLen <= len
  BY <1>2, MaxLenAssumption, Multiples
<1>4. PICK a \in Nat : a = (k - 1) * m
  <2>1. k - 1 \in Nat
    BY <1>3
  <2> QED BY <1>1, <2>1
<1>5. (k - 1) * MaxLen = 3 * a /\ k * MaxLen = 3 * (a + m) /\ k * MaxLen \in Nat /\ (k - 1) * MaxLen \in Nat
  <2>1. k \in Nat /\ (k - 1) * (3 * m) = 3 * ((k - 1) * m) /\ k * (3 * m) = 3 * ((k - 1) * m + m)
    BY <1>1, <1>3
  <2> QED BY <1>1, <1>4, <2>1
<1>6. PICK e \in Nat : e = Read(txt, k) /\ e = IF 3 * (a + m) <= len THEN 3 * (a + m) ELSE len
  <2>1. Min({k * MaxLen, Len(txt)}) = IF k * MaxLen <= Len(txt) THEN k * MaxLen ELSE Len(txt)
    BY <1>2, <1>5, MinOfTwo
  <2> QED BY <1>2, <1>5, <2>1 DEF Read
<1>7. Read(txt, k - 1) = 3 * a
  <2>1. Min({(k - 1) * MaxLen, Len(txt)}) = IF (k - 1) * MaxLen <= Len(txt) THEN (k - 1) * MaxLen ELSE Len(txt)
    BY <1>2, <1>5, MinOfTwo
  <2> QED BY <1>2, <1>3, <1>5, <2>1 DEF Read
<1>8. Written(txt, k - 1) = 4 * a
  BY <1>7 DEF Written
<1>9. 3 * a <= e /\ e <= Len(txt) /\ (e = Len(txt) \/ e % 3 = 0)
  <2>1. 3 * a <= len
    BY <1>3, <1>5
  <2>2. e % 3 = 0 \/ e = len
    <3>1. \A x \in Nat : (3 * x) % 3 = 0
      OBVIOUS
    <3> QED BY <1>6, <3>1
  <2>3. 3 * a <= e /\ e <= len
    BY <1>6, <2>1
  <2> QED BY <1>2, <2>2, <2>3
<1>10. PICK part : part = SubSeq(txt, 3 * a + 1, e)
  OBVIOUS
<1>11. Chunk(txt, k) = part
  <2>1. Chunk(txt, k) = SubSeq(txt, (k - 1) * MaxLen + 1, Read(txt, k))
    BY DEF Chunk, Read
  <2> QED BY <1>5, <1>6, <1>10, <2>1
<1>12. /\ Base64(part) = SubSeq(Base64(txt), 4 * a + 1, 4 * ((e + 2) \div 3))
       /\ 4 * a <= 4 * ((e + 2) \div 3)
  BY <1>9, <1>10, PartBase64
<1>13. part \in Seq(0 .. 255) /\ Len(part) = e - 3 * a /\ \A i \in 1 .. e - 3 * a : part[i] = txt[3 * a + i]
  <2>1. PICK l \in Nat : l = 3 * a /\ l <= e
    <3>1. 3 * a \in Nat /\ 3 * a <= e
      BY <1>9
    <3> QED BY <3>1, Zenon
  <2>2. /\ SubSeq(txt, l + 1, e) \in Seq(0 .. 255) /\ Len(SubSeq(txt, l + 1, e)) = e - l
        /\ \A i \in 1 .. e - l : SubSeq(txt, l + 1, e)[i] = txt[l + i]
    BY <1>0, <1>9, <2>1
  <2> QED BY <1>10, <2>1, <2>2
<1>14. Encodable(part)
  <2>1. ASSUME NEW i \in DOMAIN part, i % 3 = 1 PROVE part[i] < 128
    <3>1. i \in 1 .. e - 3 * a
      BY <1>13, LenProperties
    <3>2. PICK j \in Nat : j = 3 * a + i /\ j \in 1 .. Len(txt) /\ j % 3 = 1
      BY <1>2, <1>9, <2>1, <3>1
    <3>3. j \in DOMAIN txt
      BY <3>2, LenProperties
    <3> QED BY <1>13, <3>1, <3>2, <3>3 DEF Encodable
  <2> QED BY <2>1 DEF Encodable
<1>15. base64_encode(part, junk) = Base64(part)
  BY <1>13, <1>14, EncodesRight
<1>16. Base64(part) \in Seq(Nat)
  BY <1>13, Base64Type
<1>17. Written(txt, k) = 4 * ((e + 2) \div 3)
  BY <1>6 DEF Written
<1> QED BY <1>8, <1>11, <1>12, <1>15, <1>16, <1>17

\* The chunks of a file are the file, encoded.
LEMMA ChunksEncoded ==
  ASSUME NEW txt \in Seq(0 .. 255), Encodable(txt), NEW junk,
         NEW enc, enc = [k \in DOMAIN Chunks(txt) |-> base64_encode(Chunks(txt)[k], junk)]
  PROVE  enc \in Seq(Seq(Nat)) /\ FlattenSeq(enc) = Base64(txt)
<1>1. PICK N \in Nat : N = (Len(txt) + MaxLen - 1) \div MaxLen /\ Len(txt) <= N * MaxLen
  BY MaxLenAssumption, LenProperties, Multiples
<1>2. PICK b \in Seq(Nat) : b = Base64(txt) /\ Len(b) = 4 * Quads(txt)
  BY Base64Type
<1>3. enc = [k \in 1 .. N |-> base64_encode(Chunk(txt, k), junk)]
  BY <1>1 DEF Chunks
<1>4. PICK p : p = [k \in 0 .. N |-> Written(txt, k)]
  OBVIOUS
<1>5. ASSUME NEW k \in 1 .. N
      PROVE  p[k - 1] <= p[k] /\ enc[k] = SubSeq(b, p[k - 1] + 1, p[k]) /\ enc[k] \in Seq(Nat)
  <2>1. /\ base64_encode(Chunk(txt, k), junk) = SubSeq(Base64(txt), Written(txt, k - 1) + 1, Written(txt, k))
        /\ base64_encode(Chunk(txt, k), junk) \in Seq(Nat)
        /\ Written(txt, k - 1) <= Written(txt, k)
    BY <1>1, ChunkOf
  <2>2. k - 1 \in 0 .. N /\ k \in 0 .. N
    OBVIOUS
  <2>3. p[k - 1] = Written(txt, k - 1) /\ p[k] = Written(txt, k) /\ enc[k] = base64_encode(Chunk(txt, k), junk)
    BY <1>3, <1>4, <2>2
  <2> QED BY <1>2, <2>1, <2>3
<1>6. enc \in Seq(Seq(Nat)) /\ Len(enc) = N
  BY <1>3, <1>5
<1>7. ASSUME NEW k \in 0 .. N PROVE p[k] \in 0 .. Len(b) /\ (k = 0 => p[k] = 0) /\ (k = N => p[k] = Len(b))
  <2>1. PICK len \in Nat, x \in Nat, r \in Nat :
          /\ len = Len(txt) /\ x = k * MaxLen /\ r = Read(txt, k)
          /\ r = IF x <= len THEN x ELSE len
    <3>1. Len(txt) \in Nat /\ k * MaxLen \in Nat
      BY MaxLenAssumption, LenProperties
    <3>2. Read(txt, k) = IF k * MaxLen <= Len(txt) THEN k * MaxLen ELSE Len(txt)
      BY <3>1, MinOfTwo DEF Read
    <3> QED BY <3>1, <3>2
  <2>2. p[k] = 4 * ((r + 2) \div 3)
    BY <1>4, <2>1 DEF Written
  <2>3. Len(b) = 4 * ((len + 2) \div 3)
    BY <1>2, <2>1 DEF Quads
  <2>4. r <= len
    BY <2>1
  <2>5. k = 0 => r = 0
    BY <2>1, MaxLenAssumption
  <2>6. k = N => r = len
    BY <1>1, <2>1
  <2> QED BY <2>2, <2>3, <2>4, <2>5, <2>6
<1>8. p \in [0 .. Len(enc) -> 0 .. Len(b)] /\ p[0] = 0 /\ p[Len(enc)] = Len(b)
  <2>1. p \in [0 .. N -> 0 .. Len(b)]
    BY <1>4, <1>7
  <2>2. 0 \in 0 .. N /\ N \in 0 .. N
    BY <1>1
  <2>3. p[0] = 0 /\ p[N] = Len(b)
    BY <1>7, <2>2
  <2> QED BY <1>6, <2>1, <2>3
<1>9. FlattenSeq(enc) = SubSeq(b, 1, p[Len(enc)])
  BY <1>5, <1>6, <1>8, Pieces
<1>10. SubSeq(b, 1, Len(b)) = b
  BY SubSeqFull
<1> QED BY <1>2, <1>6, <1>8, <1>9, <1>10
-----------------------------------------------------------------------------
(***************************************************************************)
(* The data of the lines.                                                  *)
(***************************************************************************)
Kinds == {"crlf", "boundary", "data", "filename", "type", "transfer", "disposition"}
MailLine == [kind : Kinds, text : Seq(Nat)]
DataOf(lines) == [i \in DOMAIN lines |-> IF lines[i].kind = "data" THEN lines[i].text ELSE <<>>]

LEMMA LineType ==
  ASSUME NEW k \in Kinds, NEW t \in Seq(Nat)
  PROVE  Line(k, t) \in MailLine /\ Line(k, t).kind = k /\ Line(k, t).text = t
BY DEF Line, MailLine

LEMMA DataType ==
  ASSUME NEW lines \in Seq(MailLine)
  PROVE  /\ DataOf(lines) \in Seq(Seq(Nat)) /\ Len(DataOf(lines)) = Len(lines)
         /\ \A i \in 1 .. Len(lines) : DataOf(lines)[i] = IF lines[i].kind = "data" THEN lines[i].text ELSE <<>>
         /\ Data(lines) = FlattenSeq(DataOf(lines)) /\ Data(lines) \in Seq(Nat)
<1>1. PICK n \in Nat : n = Len(lines) /\ DOMAIN lines = 1 .. n /\ \A i \in 1 .. n : lines[i] \in MailLine
  BY LenProperties, ElementOfSeq
<1>2. PICK t : t = [i \in 1 .. n |-> IF lines[i].kind = "data" THEN lines[i].text ELSE <<>>]
  OBVIOUS
<1>3. t = DataOf(lines) /\ Data(lines) = FlattenSeq(t)
  <2>1. t = [i \in DOMAIN lines |-> IF lines[i].kind = "data" THEN lines[i].text ELSE <<>>]
    BY <1>1, <1>2, Zenon
  <2>2. t = DataOf(lines)
    BY <2>1, Zenon DEF DataOf
  <2>3. Data(lines) = FlattenSeq(DataOf(lines))
    BY Zenon DEF DataOf, Data
  <2> QED BY <2>2, <2>3
<1>4. ASSUME NEW i \in 1 .. n PROVE t[i] \in Seq(Nat)
  <2>1. lines[i].text \in Seq(Nat)
    BY <1>1 DEF MailLine
  <2> QED BY <1>2, <2>1
<1>5. t \in Seq(Seq(Nat)) /\ Len(t) = n
  BY <1>2, <1>4
<1>6. FlattenSeq(t) \in Seq(Nat)
  BY <1>5, FlattenType
<1> QED BY <1>1, <1>2, <1>3, <1>5, <1>6

\* The data of two lists of lines, one after the other.
LEMMA DataConcat ==
  ASSUME NEW a \in Seq(MailLine), NEW b \in Seq(MailLine)
  PROVE  a \o b \in Seq(MailLine) /\ Data(a \o b) = Data(a) \o Data(b)
<1>1. PICK n \in Nat, m \in Nat, c \in Seq(MailLine) :
        /\ n = Len(a) /\ m = Len(b) /\ c = a \o b /\ Len(c) = n + m
        /\ \A i \in 1 .. n + m : c[i] = IF i <= n THEN a[i] ELSE b[i - n]
  <2>1. Len(a) \in Nat /\ Len(b) \in Nat
    BY LenProperties
  <2>2. /\ a \o b \in Seq(MailLine) /\ Len(a \o b) = Len(a) + Len(b)
        /\ \A i \in 1 .. Len(a) + Len(b) : (a \o b)[i] = IF i <= Len(a) THEN a[i] ELSE b[i - Len(a)]
    BY ConcatProperties
  <2> QED BY <2>1, <2>2, Zenon
<1>2. PICK s \in Seq(Seq(Nat)), t \in Seq(Seq(Nat)), u \in Seq(Seq(Nat)) :
        /\ s = DataOf(a) /\ t = DataOf(b) /\ u = DataOf(c) /\ Len(s) = n /\ Len(t) = m /\ Len(u) = n + m
        /\ \A i \in 1 .. n : s[i] = IF a[i].kind = "data" THEN a[i].text ELSE <<>>
        /\ \A i \in 1 .. m : t[i] = IF b[i].kind = "data" THEN b[i].text ELSE <<>>
        /\ \A i \in 1 .. n + m : u[i] = IF c[i].kind = "data" THEN c[i].text ELSE <<>>
        /\ Data(a) = FlattenSeq(s) /\ Data(b) = FlattenSeq(t) /\ Data(c) = FlattenSeq(u)
  <2>1. /\ DataOf(a) \in Seq(Seq(Nat)) /\ Len(DataOf(a)) = n /\ Data(a) = FlattenSeq(DataOf(a))
        /\ \A i \in 1 .. n : DataOf(a)[i] = IF a[i].kind = "data" THEN a[i].text ELSE <<>>
    BY <1>1, DataType
  <2>2. /\ DataOf(b) \in Seq(Seq(Nat)) /\ Len(DataOf(b)) = m /\ Data(b) = FlattenSeq(DataOf(b))
        /\ \A i \in 1 .. m : DataOf(b)[i] = IF b[i].kind = "data" THEN b[i].text ELSE <<>>
    BY <1>1, DataType
  <2>3. /\ DataOf(c) \in Seq(Seq(Nat)) /\ Len(DataOf(c)) = n + m /\ Data(c) = FlattenSeq(DataOf(c))
        /\ \A i \in 1 .. n + m : DataOf(c)[i] = IF c[i].kind = "data" THEN c[i].text ELSE <<>>
    BY <1>1, DataType
  <2> QED BY <2>1, <2>2, <2>3, Zenon
<1>3. s \o t \in Seq(Seq(Nat)) /\ Len(s \o t) = n + m
      /\ \A i \in 1 .. n + m : (s \o t)[i] = IF i <= n THEN s[i] ELSE t[i - n]
  <2>1. /\ s \o t \in Seq(Seq(Nat)) /\ Len(s \o t) = Len(s) + Len(t)
        /\ \A i \in 1 .. Len(s) + Len(t) : (s \o t)[i] = IF i <= Len(s) THEN s[i] ELSE t[i - Len(s)]
    BY ConcatProperties
  <2> QED BY <1>2, <2>1
<1>4. ASSUME NEW i \in 1 .. n + m PROVE u[i] = (s \o t)[i]
  <2>1. CASE i <= n
    <3>1. i \in 1 .. n
      BY <2>1
    <3> QED BY <1>1, <1>2, <1>3, <2>1, <3>1
  <2>2. CASE ~(i <= n)
    <3>1. i - n \in 1 .. m
      BY <2>2
    <3> QED BY <1>1, <1>2, <1>3, <2>2, <3>1
  <2> QED BY <2>1, <2>2
<1>5. u = s \o t
  <2>1. Len(u) = Len(s \o t) /\ \A i \in 1 .. Len(u) : u[i] = (s \o t)[i]
    BY <1>2, <1>3, <1>4
  <2> QED BY <1>3, <2>1, SeqEqual, Zenon
<1>6. FlattenSeq(s \o t) = FlattenSeq(s) \o FlattenSeq(t)
  BY FlattenConcat
<1> QED BY <1>1, <1>2, <1>5, <1>6

\* Lines that are not the data of a file add nothing.
LEMMA NoData ==
  ASSUME NEW lines \in Seq(MailLine), \A i \in 1 .. Len(lines) : lines[i].kind # "data"
  PROVE  Data(lines) = <<>>
<1>1. PICK n \in Nat, g \in Seq(Seq(Nat)) :
        n = Len(lines) /\ Len(g) = n /\ Data(lines) = FlattenSeq(g) /\ \A i \in 1 .. n : g[i] = <<>>
  <2>1. /\ DataOf(lines) \in Seq(Seq(Nat)) /\ Len(DataOf(lines)) = Len(lines)
        /\ \A i \in 1 .. Len(lines) : DataOf(lines)[i] = IF lines[i].kind = "data" THEN lines[i].text ELSE <<>>
        /\ Data(lines) = FlattenSeq(DataOf(lines))
    BY DataType
  <2>2. Len(lines) \in Nat
    BY LenProperties
  <2> QED BY <2>1, <2>2, Zenon
<1>2. PICK b \in Seq(Nat) : b = <<>> /\ Len(b) = 0
  BY EmptySeq
<1>3. PICK p : p = [k \in 0 .. n |-> 0]
  OBVIOUS
<1>4. SubSeq(b, 0 + 1, 0) = <<>> /\ SubSeq(b, 1, 0) = <<>>
  BY SubSeqEmpty
<1>5. p \in [0 .. Len(g) -> 0 .. Len(b)] /\ p[0] = 0 /\ p[Len(g)] = 0
  BY <1>1, <1>2, <1>3
<1>6. \A k \in 1 .. Len(g) : p[k - 1] <= p[k] /\ g[k] = SubSeq(b, p[k - 1] + 1, p[k])
  <2>1. ASSUME NEW k \in 1 .. n PROVE p[k - 1] <= p[k] /\ g[k] = SubSeq(b, p[k - 1] + 1, p[k])
    <3>1. k - 1 \in 0 .. n /\ k \in 0 .. n
      OBVIOUS
    <3>2. p[k - 1] = 0 /\ p[k] = 0
      BY <1>3, <3>1
    <3> QED BY <1>1, <1>4, <3>2
  <2> QED BY <1>1, <2>1
<1>7. FlattenSeq(g) = SubSeq(b, 1, p[Len(g)])
  BY <1>5, <1>6, Pieces
<1> QED BY <1>1, <1>4, <1>5, <1>7

\* The lines of one attachment hold the base 64 of its file.
LEMMA EncodedData ==
  ASSUME NEW txt \in FileTexts, Encodable(txt), NEW junk
  PROVE  Encoded(txt, junk) \in Seq(MailLine) /\ Data(Encoded(txt, junk)) = Base64(txt)
<1>1. txt \in Seq(0 .. 255)
  BY FileTextsAssumption
<1>2. PICK enc : enc = [k \in DOMAIN Chunks(txt) |-> base64_encode(Chunks(txt)[k], junk)]
  OBVIOUS
<1>3. enc \in Seq(Seq(Nat)) /\ FlattenSeq(enc) = Base64(txt)
  BY <1>1, <1>2, ChunksEncoded
<1>4. PICK n \in Nat : /\ n = Len(enc) /\ DOMAIN enc = 1 .. n /\ DOMAIN Chunks(txt) = 1 .. n
                       /\ \A i \in 1 .. n : enc[i] \in Seq(Nat)
  <2>1. Len(enc) \in Nat /\ DOMAIN enc = 1 .. Len(enc) /\ \A i \in 1 .. Len(enc) : enc[i] \in Seq(Nat)
    BY <1>3, LenProperties, ElementOfSeq
  <2>2. DOMAIN Chunks(txt) = DOMAIN enc
    BY <1>2
  <2> QED BY <2>1, <2>2, Zenon
<1>5. PICK data : data = [k \in 1 .. n |-> Line("data", enc[k])]
  OBVIOUS
<1>6. [k \in DOMAIN Chunks(txt) |-> Line("data", base64_encode(Chunks(txt)[k], junk))] = data
  BY <1>2, <1>4, <1>5
<1>7. ASSUME NEW i \in 1 .. n PROVE data[i] \in MailLine /\ data[i].kind = "data" /\ data[i].text = enc[i]
  <2>1. "data" \in Kinds /\ data[i] = Line("data", enc[i]) /\ enc[i] \in Seq(Nat)
    BY <1>4, <1>5 DEF Kinds
  <2> QED BY <2>1, LineType
<1>8. data \in Seq(MailLine) /\ Len(data) = n
  <2>1. data \in [1 .. n -> MailLine]
    BY <1>5, <1>7
  <2> QED BY <1>5, <2>1
<1>9. Data(data) = Base64(txt)
  <2>1. /\ DataOf(data) \in Seq(Seq(Nat)) /\ Len(DataOf(data)) = n /\ Data(data) = FlattenSeq(DataOf(data))
        /\ \A i \in 1 .. n : DataOf(data)[i] = IF data[i].kind = "data" THEN data[i].text ELSE <<>>
    BY <1>8, DataType
  <2>2. \A i \in 1 .. n : DataOf(data)[i] = enc[i]
    BY <1>7, <2>1
  <2>3. DataOf(data) = enc
    <3>1. Len(DataOf(data)) = Len(enc) /\ \A i \in 1 .. Len(DataOf(data)) : DataOf(data)[i] = enc[i]
      BY <1>4, <2>1, <2>2
    <3> QED BY <1>3, <2>1, <3>1, SeqEqual, Zenon
  <2> QED BY <1>3, <2>1, <2>3
<1>10. PICK x \in Seq(MailLine), y \in Seq(MailLine) :
         /\ x = <<Line("filename", <<>>), endLine>> /\ y = <<endLine, boundary>>
         /\ Data(x) = <<>> /\ Data(y) = <<>>
  <2>1. PICK a \in MailLine, b \in MailLine, c \in MailLine :
          /\ a = Line("filename", <<>>) /\ b = endLine /\ c = boundary
          /\ a.kind # "data" /\ b.kind # "data" /\ c.kind # "data"
    <3>1. "filename" \in Kinds /\ "crlf" \in Kinds /\ "boundary" \in Kinds /\ <<>> \in Seq(Nat)
      BY DEF Kinds
    <3>2. /\ Line("filename", <<>>) \in MailLine /\ Line("crlf", <<>>) \in MailLine
          /\ Line("boundary", <<>>) \in MailLine
      BY <3>1, LineType
    <3>3. /\ Line("filename", <<>>).kind = "filename" /\ Line("crlf", <<>>).kind = "crlf"
          /\ Line("boundary", <<>>).kind = "boundary"
      BY DEF Line
    <3> QED BY <3>2, <3>3 DEF endLine, boundary
  <2>2. ASSUME NEW v \in MailLine, NEW w \in MailLine, v.kind # "data", w.kind # "data"
        PROVE  <<v, w>> \in Seq(MailLine) /\ Data(<<v, w>>) = <<>>
    <3>1. PICK s \in Seq(MailLine) : s = <<v, w>> /\ Len(s) = 2 /\ s[1] = v /\ s[2] = w
      <4>1. <<v, w>> \in Seq(MailLine)
        OBVIOUS
      <4>2. Len(<<v, w>>) = 2 /\ <<v, w>>[1] = v /\ <<v, w>>[2] = w
        OBVIOUS
      <4> QED BY <4>1, <4>2, Zenon
    <3>2. \A i \in 1 .. Len(s) : s[i].kind # "data"
      <4>1. \A i \in 1 .. Len(s) : i = 1 \/ i = 2
        BY <3>1
      <4> QED BY <2>2, <3>1, <4>1
    <3>3. Data(s) = <<>>
      BY <3>2, NoData
    <3> QED BY <3>1, <3>3
  <2>3. /\ <<a, b>> \in Seq(MailLine) /\ Data(<<a, b>>) = <<>>
        /\ <<b, c>> \in Seq(MailLine) /\ Data(<<b, c>>) = <<>>
    BY <2>1, <2>2
  <2> QED BY <2>1, <2>3, Zenon
<1>11. Encoded(txt, junk) = x \o data \o y
  BY <1>6, <1>10, Zenon DEF Encoded
<1>12. x \o data \in Seq(MailLine) /\ Data(x \o data) = Data(x) \o Data(data)
  BY <1>8, DataConcat
<1>13. (x \o data) \o y \in Seq(MailLine) /\ Data((x \o data) \o y) = Data(x \o data) \o Data(y)
  BY <1>12, DataConcat
<1>14. Base64(txt) \in Seq(Nat)
  BY <1>1, Base64Type
<1>15. <<>> \o Base64(txt) = Base64(txt) /\ Base64(txt) \o <<>> = Base64(txt)
  BY <1>14, ConcatEmptySeq
<1> QED BY <1>9, <1>10, <1>11, <1>12, <1>13, <1>15

LEMMA HeadersData == HeaderLines \in Seq(MailLine) /\ Data(HeaderLines) = <<>>
<1>1. PICK s \in Seq(MailLine), a \in MailLine, b \in MailLine, c \in MailLine :
        /\ s = HeaderLines /\ s = <<a, b, c>> /\ Len(s) = 3 /\ s[1] = a /\ s[2] = b /\ s[3] = c
        /\ a.kind # "data" /\ b.kind # "data" /\ c.kind # "data"
  <2>1. "type" \in Kinds /\ "transfer" \in Kinds /\ "disposition" \in Kinds /\ <<>> \in Seq(Nat)
    BY DEF Kinds
  <2>2. PICK a \in MailLine, b \in MailLine, c \in MailLine :
          /\ a = Line("type", <<>>) /\ b = Line("transfer", <<>>) /\ c = Line("disposition", <<>>)
    BY <2>1, LineType, Zenon
  <2>3. a.kind # "data" /\ b.kind # "data" /\ c.kind # "data"
    BY <2>2 DEF Line
  <2>4. <<a, b, c>> \in Seq(MailLine) /\ Len(<<a, b, c>>) = 3
    OBVIOUS
  <2>5. HeaderLines = <<a, b, c>>
    BY <2>2, Zenon DEF HeaderLines
  <2>6. <<a, b, c>>[1] = a /\ <<a, b, c>>[2] = b /\ <<a, b, c>>[3] = c
    OBVIOUS
  <2> QED BY <2>3, <2>4, <2>5, <2>6, Zenon
<1>2. \A i \in 1 .. Len(s) : s[i].kind # "data"
  <2>1. \A i \in 1 .. Len(s) : i = 1 \/ i = 2 \/ i = 3
    BY <1>1
  <2> QED BY <1>1, <2>1
<1>3. Data(s) = <<>>
  BY <1>2, NoData
<1> QED BY <1>1, <1>3

(***************************************************************************)
(* The attachments.  The lines are known to be data of bytes only as long  *)
(* as every file can be encoded, so that is part of the invariant.         *)
(***************************************************************************)
AllEncodable(files) == \A f \in ToSet(files) : Encodable(f)
Encodings(files) == [i \in DOMAIN files |-> Base64(files[i])]
AttachInv ==
    /\ attached \in Seq(FileTexts)
    /\ AllEncodable(attached) =>
         attachments \in Seq(MailLine) /\ Data(attachments) = FlattenSeq(Encodings(attached))

\* One file more.
LEMMA EncodingsAppend ==
  ASSUME NEW files \in Seq(FileTexts), NEW txt \in FileTexts
  PROVE  /\ Append(files, txt) \in Seq(FileTexts)
         /\ AllEncodable(Append(files, txt)) => AllEncodable(files) /\ Encodable(txt)
         /\ FlattenSeq(Encodings(Append(files, txt))) = FlattenSeq(Encodings(files)) \o Base64(txt)
<1>1. PICK n \in Nat, m \in Nat, more \in Seq(FileTexts) :
        /\ n = Len(files) /\ m = n + 1 /\ more = Append(files, txt) /\ Len(more) = m
        /\ DOMAIN files = 1 .. n /\ DOMAIN more = 1 .. m
        /\ more[m] = txt /\ \A i \in 1 .. n : more[i] = files[i] /\ files[i] \in FileTexts
  <2>1. Len(files) \in Nat /\ DOMAIN files = 1 .. Len(files) /\ \A i \in 1 .. Len(files) : files[i] \in FileTexts
    BY LenProperties, ElementOfSeq
  <2>2. /\ Append(files, txt) \in Seq(FileTexts) /\ Len(Append(files, txt)) = Len(files) + 1
        /\ Append(files, txt)[Len(files) + 1] = txt
        /\ \A i \in 1 .. Len(files) : Append(files, txt)[i] = files[i]
    BY AppendProperties
  <2>3. Len(files) + 1 \in Nat /\ DOMAIN Append(files, txt) = 1 .. Len(files) + 1
    BY <2>1, <2>2, LenProperties
  <2> QED BY <2>1, <2>2, <2>3, Zenon
<1>2. AllEncodable(more) => AllEncodable(files) /\ Encodable(txt)
  <2> SUFFICES ASSUME AllEncodable(more) PROVE AllEncodable(files) /\ Encodable(txt)
    OBVIOUS
  <2>1. \A i \in 1 .. m : Encodable(more[i])
    BY <1>1 DEF AllEncodable, ToSet
  <2>2. m \in 1 .. m /\ \A i \in 1 .. n : i \in 1 .. m
    BY <1>1
  <2>3. \A i \in 1 .. n : Encodable(files[i])
    BY <1>1, <2>1, <2>2
  <2>4. Encodable(txt)
    BY <1>1, <2>1, <2>2
  <2> QED BY <1>1, <2>3, <2>4 DEF AllEncodable, ToSet
<1>3. ASSUME NEW f \in FileTexts PROVE Base64(f) \in Seq(Nat)
  BY FileTextsAssumption, Base64Type
<1>4. PICK s \in Seq(Seq(Nat)) : s = Encodings(files) /\ Len(s) = n /\ \A i \in 1 .. n : s[i] = Base64(files[i])
  <2>1. PICK s : s = [i \in 1 .. n |-> Base64(files[i])]
    OBVIOUS
  <2>2. \A i \in 1 .. n : Base64(files[i]) \in Seq(Nat)
    BY <1>1, <1>3
  <2>3. s \in Seq(Seq(Nat)) /\ Len(s) = n
    BY <2>1, <2>2
  <2>4. s = Encodings(files)
    BY <1>1, <2>1 DEF Encodings
  <2> QED BY <2>1, <2>3, <2>4
<1>5. Base64(txt) \in Seq(Nat)
  BY <1>3
<1>6. PICK u \in Seq(Seq(Nat)) :
        /\ u = Append(s, Base64(txt)) /\ Len(u) = m /\ u[m] = Base64(txt)
        /\ \A i \in 1 .. n : u[i] = s[i]
  <2>1. Append(s, Base64(txt)) \in Seq(Seq(Nat)) /\ Len(Append(s, Base64(txt))) = n + 1
    BY <1>4, <1>5, AppendProperties
  <2>2. /\ Append(s, Base64(txt))[n + 1] = Base64(txt)
        /\ \A i \in 1 .. n : Append(s, Base64(txt))[i] = s[i]
    BY <1>4, <1>5, AppendProperties
  <2> QED BY <1>1, <2>1, <2>2, Zenon
<1>7. PICK t \in Seq(Seq(Nat)) : t = Encodings(more) /\ Len(t) = m /\ \A i \in 1 .. m : t[i] = Base64(more[i])
  <2>1. PICK t : t = [i \in 1 .. m |-> Base64(more[i])]
    OBVIOUS
  <2>2. \A i \in 1 .. m : more[i] \in FileTexts
    BY <1>1, ElementOfSeq
  <2>3. \A i \in 1 .. m : Base64(more[i]) \in Seq(Nat)
    BY <1>3, <2>2
  <2>4. t \in Seq(Seq(Nat)) /\ Len(t) = m
    BY <2>1, <2>3
  <2>5. t = Encodings(more)
    BY <1>1, <2>1 DEF Encodings
  <2> QED BY <2>1, <2>4, <2>5
<1>8. t = u
  <2>1. ASSUME NEW i \in 1 .. m PROVE t[i] = u[i]
    <3>1. CASE i = m
      BY <1>1, <1>6, <1>7, <3>1
    <3>2. CASE i # m
      <4>1. i \in 1 .. n
        BY <1>1, <3>2
      <4> QED BY <1>1, <1>4, <1>6, <1>7, <4>1
    <3> QED BY <3>1, <3>2
  <2>2. Len(t) = Len(u) /\ \A i \in 1 .. Len(t) : t[i] = u[i]
    BY <1>6, <1>7, <2>1
  <2> QED BY <2>2, SeqEqual, Zenon
<1>9. FlattenSeq(Append(s, Base64(txt))) = FlattenSeq(s) \o Base64(txt)
  BY <1>5, FlattenAppend
<1> QED BY <1>1, <1>2, <1>4, <1>6, <1>7, <1>8, <1>9

LEMMA NothingAttached ==
  /\ <<>> \in Seq(FileTexts) /\ <<>> \in Seq(MailLine)
  /\ Data(<<>>) = FlattenSeq(Encodings(<<>>))
<1>1. <<>> \in Seq(FileTexts) /\ <<>> \in Seq(MailLine)
  OBVIOUS
<1>2. Encodings(<<>>) = <<>>
  BY DEF Encodings
<1>3. Len(<<>>) = 0
  BY EmptySeq
<1>4. \A i \in 1 .. 0 : FALSE
  OBVIOUS
<1>5. PICK s \in Seq(MailLine) : s = <<>> /\ Len(s) = 0
  BY <1>1, <1>3
<1>6. Data(s) = <<>>
  BY <1>4, <1>5, NoData
<1> QED BY <1>1, <1>2, <1>5, <1>6, FlattenEmpty

\* For any files, a line length that is a multiple of three and any calls: what
\* the lines hold is the base 64 of the files that are attached, if no block of
\* one begins with a byte from 128 on.
THEOREM AttachmentsCorrect == EmailSpec => []AttachmentsDecode
<1>1. EmailInit => AttachInv
  BY NothingAttached, Zenon DEF EmailInit, AttachInv
<1>2. AttachInv /\ [EmailNext]_emailvars => AttachInv'
  <2> SUFFICES ASSUME AttachInv, [EmailNext]_emailvars PROVE AttachInv'
    OBVIOUS
  <2>7. ASSUME attachments' = attachments, attached' = attached PROVE AttachInv'
    BY <2>7 DEF AttachInv
  <2>8. ASSUME attachments' = <<>>, attached' = <<>> PROVE AttachInv'
    BY <2>8, NothingAttached, Zenon DEF AttachInv
  <2>1. CASE addAttachment
    <3>1. PICK f \in FileTexts, junk \in Junk :
            \/ attachments' = attachments \o HeaderLines \o Encoded(f, junk) /\ attached' = Append(attached, f)
            \/ attachments' = <<>> /\ attached' = <<>>
      BY <2>1 DEF addAttachment
    <3>2. CASE attachments' = attachments \o HeaderLines \o Encoded(f, junk) /\ attached' = Append(attached, f)
      <4>1. attached \in Seq(FileTexts)
        BY DEF AttachInv
      <4>2. /\ Append(attached, f) \in Seq(FileTexts)
            /\ AllEncodable(Append(attached, f)) => AllEncodable(attached) /\ Encodable(f)
            /\ FlattenSeq(Encodings(Append(attached, f))) = FlattenSeq(Encodings(attached)) \o Base64(f)
        BY <4>1, EncodingsAppend
      <4>3. ASSUME AllEncodable(Append(attached, f))
            PROVE  /\ attachments \o HeaderLines \o Encoded(f, junk) \in Seq(MailLine)
                   /\ Data(attachments \o HeaderLines \o Encoded(f, junk)) = FlattenSeq(Encodings(Append(attached, f)))
        <5>1. attachments \in Seq(MailLine) /\ Data(attachments) = FlattenSeq(Encodings(attached))
          BY <4>2, <4>3 DEF AttachInv
        <5>2. Encoded(f, junk) \in Seq(MailLine) /\ Data(Encoded(f, junk)) = Base64(f)
          BY <4>2, <4>3, EncodedData
        <5>3. /\ attachments \o HeaderLines \in Seq(MailLine)
              /\ Data(attachments \o HeaderLines) = Data(attachments) \o Data(HeaderLines)
          BY <5>1, HeadersData, DataConcat
        <5>4. Data(attachments) \o <<>> = Data(attachments)
          <6>1. Data(attachments) \in Seq(Nat)
            BY <5>1, DataType
          <6> QED BY <6>1, ConcatEmptySeq
        <5>5. /\ (attachments \o HeaderLines) \o Encoded(f, junk) \in Seq(MailLine)
              /\ Data((attachments \o HeaderLines) \o Encoded(f, junk))
                   = Data(attachments \o HeaderLines) \o Data(Encoded(f, junk))
          BY <5>2, <5>3, DataConcat
        <5> QED BY <4>2, <5>1, <5>2, <5>3, <5>4, <5>5, HeadersData
      <4> QED BY <3>2, <4>2, <4>3, Zenon DEF AttachInv
    <3>3. CASE attachments' = <<>> /\ attached' = <<>>
      BY <2>8, <3>3
    <3> QED BY <3>1, <3>2, <3>3
  <2>2. CASE constructEmail
    BY <2>7, <2>2 DEF constructEmail
  <2>3. CASE send \/ payload_source \/ UploadFails
    BY <2>7, <2>3 DEF send, payload_source, UploadFails, writevars
  <2>4. CASE clearEmailContents
    BY <2>8, <2>4 DEF clearEmailContents
  <2>5. CASE removeAllAttachments
    BY <2>8, <2>5 DEF removeAllAttachments
  <2>6. CASE UNCHANGED emailvars
    BY <2>7, <2>6 DEF emailvars, writevars
  <2> QED BY <2>1, <2>2, <2>3, <2>4, <2>5, <2>6 DEF EmailNext
<1>3. AttachInv => AttachmentsDecode
  BY Zenon DEF AttachInv, AttachmentsDecode, AllEncodable, Encodings
<1> QED BY <1>1, <1>2, <1>3, PTL DEF EmailSpec
=============================================================================
