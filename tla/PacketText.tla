----------------------------- MODULE PacketText -----------------------------
(***************************************************************************)
(* Key lines and packets as the text they are sent as.  A mixer's line is  *)
(* its serialised key, a token of underscores and its address; a packet is *)
(* an envelope with the mailbox's address behind it, sealed once for each  *)
(* mixer with that mixer's address behind it.  An address is followed by   *)
(* CUTHERE and its size, and whoever holds the text cuts it off again, at  *)
(* the first CUTHERE.  A symbol is one byte, but for the marker, which is  *)
(* one symbol that stands for seven; what a ciphertext holds is arbitrary. *)
(***************************************************************************)
EXTENDS Integers, SequencesExt

CONSTANTS Symbols,       \* the bytes
          KeyLength,     \* of a serialised key
          KeyTexts,      \* serialised keys
          TokenLength,   \* underscores in the token
          Path,          \* the mixers in the order of the client's shuffled list
          Mailbox,
          Address,       \* the text of every mixer's and the mailbox's address
          CipherTexts    \* what an envelope or a sealed layer may look like

Nodes == ToSet(Path) \cup {Mailbox}

Underscore == "_"
Cut == "CUTHERE"

\* 41 bytes and 45 underscores; no address begins with one.
ASSUME KeyAssumption ==
    /\ KeyLength \in Nat \ {0} /\ TokenLength \in Nat /\ KeyLength <= TokenLength
    /\ KeyTexts \subseteq [1 .. KeyLength -> Symbols] /\ Underscore \in Symbols
ASSUME AddressAssumption ==
    \A n \in Nodes : Address[n] \in Seq(Symbols) /\ Address[n] # <<>> /\ Address[n][1] # Underscore
\* Addresses are different and take two digits to count; sealing adds 48 bytes.
ASSUME RouteAssumption ==
    /\ Path \in Seq(ToSet(Path)) /\ IsInjective(Path) /\ Mailbox \notin ToSet(Path)
    /\ \A n, k \in Nodes : Address[n] = Address[k] => n = k
    /\ \A n \in Nodes : Len(Address[n]) < 100
ASSUME CipherAssumption ==
    /\ Cut \notin Symbols
    /\ \A c \in CipherTexts : c \in Seq(Symbols \cup {Cut}) /\ Len(c) >= 2

VARIABLES
    keys,       \* the mixers' serialised keys
    envelope,   \* encmsg, what pkg_encrypt returned
    stage,      \* what is done to the text next, or how it ended
    text,       \* tmpenc, msg or data: the text at the node at
    at,
    sealed,     \* the layers' ciphertexts, the innermost first,
    plain,      \*   and what each was made of
    peeled      \* history: the mixers that have opened a layer, one after the other

packetvars == <<keys, envelope, stage, text, at, sealed, plain, peeled>>

Digits == <<"0", "1", "2", "3", "4", "5", "6", "7", "8", "9">>

\* std::to_string of a size below 100.
OneDigit(n) == <<Digits[(n % 10) + 1]>>   \* a plausible bug: sizes of one digit
ToText(n) == IF n < 10 THEN <<Digits[n + 1]>> ELSE <<Digits[(n \div 10) + 1], Digits[(n % 10) + 1]>>

\* iss >> toread_start: the number t begins with, 0 when it begins with none.
Value(c) == SelectInSeq(Digits, LAMBDA d : d = c) - 1
Number(t) ==
    LET end == SelectInSeq(Append(t, Cut), LAMBDA c : c \notin ToSet(Digits)) - 1
        upto[k \in 0 .. end] == IF k = 0 THEN 0 ELSE 10 * upto[k - 1] + Value(t[k])
    IN  upto[end]

\* string::size in bytes.
Size(t) == Len(t) + 6 * Cardinality({i \in DOMAIN t : t[i] = Cut})
-----------------------------------------------------------------------------
\* A plausible bug: a token that fits into a key.
OneUnderscore == <<Underscore>>
Token == [i \in 1 .. TokenLength |-> Underscore]

setupkey(k, ip) == k \o Token \o ip

\* k.find(token) of a line that holds the token.
IsAt(line, p) == p + Len(Token) - 1 <= Len(line) /\ SubSeq(line, p, p + Len(Token) - 1) = Token
Find(line) ==
    CHOOSE p \in DOMAIN line : IsAt(line, p) /\ \A q \in 1 .. p - 1 : ~IsAt(line, q)

getkeyfromtxt(line) ==
    [ip |-> SubSeq(line, Find(line) + Len(Token), Len(line)), pub |-> SubSeq(line, 1, Find(line) - 1)]

\* deserial_box_key reads as many bytes as a key has, or throws.
Deserialises(pub) == Len(pub) >= KeyLength

\* The client reads a line for what its mixer put into it.
ReadsBack(k, ip) == getkeyfromtxt(setupkey(k, ip)) = [ip |-> ip, pub |-> k]
-----------------------------------------------------------------------------
\* An address with its marker and size behind it.
Addressed(t, n) == t \o Address[n] \o <<Cut>> \o ToText(Len(Address[n]))

\* parseciphertext, and attachtomixer alike.
Found(t) == SelectInSeq(t, LAMBDA c : c = Cut)
ToRead(t) == SubSeq(t, Found(t) + 1, Len(t))
Before(t) == SubSeq(t, 1, Found(t) - 1)
Split(t) == Len(Before(t)) - Number(ToRead(t))
Ip(t) == SubSeq(Before(t), Split(t) + 1, Len(Before(t)))
Res(t) == SubSeq(Before(t), 1, Split(t))

\* exit(1) without a marker; substr throws when the number is too large.
Parses(t) == Found(t) # 0 /\ Split(t) >= 0
\* msg.erase from before the beginning: anything may happen.
Astray(t) == Split(t) < Size(ToRead(t))

\* The text is cut and sent on; what goes to no node's address is lost.
Forward(t) ==
    \/ /\ Parses(t)
       /\ text' = Res(t)
       /\ IF \E n \in Nodes : Address[n] = Ip(t)
          THEN at' = (CHOOSE n \in Nodes : Address[n] = Ip(t)) /\ stage' = "arrived"
          ELSE stage' = "lost" /\ UNCHANGED at
    \/ /\ ~Parses(t) \/ Astray(t)
       /\ stage' = "died" /\ UNCHANGED <<text, at>>

PacketInit ==
    /\ keys \in [ToSet(Path) -> KeyTexts] /\ envelope \in CipherTexts
    /\ stage = "lines" /\ text = <<>> /\ at = "client" /\ sealed = <<>> /\ plain = <<>>
    /\ peeled = <<>>

\* createciphertext's first loop; an exception ends the client.
ReadLines ==
    /\ stage = "lines"
    /\ stage' = IF \A m \in ToSet(Path) : Deserialises(getkeyfromtxt(setupkey(keys[m], Address[m])).pub)
                THEN "seal" ELSE "died"
    /\ text' = Addressed(envelope, Mailbox)
    /\ UNCHANGED <<keys, envelope, at, sealed, plain, peeled>>

\* Its last loop: one more layer.
Seal ==
    /\ stage = "seal" /\ Len(sealed) < Len(Path)
    /\ \E c \in CipherTexts :
         /\ sealed' = Append(sealed, c) /\ plain' = Append(plain, text)
         /\ text' = Addressed(c, Path[Len(sealed) + 1])
    /\ UNCHANGED <<keys, envelope, stage, at, peeled>>

AttachToMixer ==
    /\ stage = "seal" /\ Len(sealed) = Len(Path)
    /\ Forward(text)
    /\ UNCHANGED <<keys, envelope, sealed, plain, peeled>>

\* A mixer opens what was sealed for it, throws at anything else, and sends on
\* what it finds.
Peel ==
    /\ stage = "arrived" /\ at # Mailbox
    /\ LET i == SelectInSeq(Path, LAMBDA m : m = at)
       IN  \/ text = sealed[i] /\ Forward(plain[i]) /\ peeled' = Append(peeled, at)
           \/ text # sealed[i] /\ stage' = "died" /\ UNCHANGED <<text, at, peeled>>
    /\ UNCHANGED <<keys, envelope, sealed, plain>>

PacketNext == ReadLines \/ Seal \/ AttachToMixer \/ Peel
PacketSpec == PacketInit /\ [][PacketNext]_packetvars
-----------------------------------------------------------------------------
\* A line is read for what was written to it if and only if the last byte of
\* the key is no underscore: find takes it for the token's first, the key comes
\* out too short, and the client ends.
LinesReadBack ==
    \A m \in ToSet(Path) : ReadsBack(keys[m], Address[m]) <=> keys[m][KeyLength] # Underscore

Marked ==
    \/ \E m \in ToSet(Path) : keys[m][KeyLength] = Underscore
    \/ \E c \in ToSet(sealed) \cup {envelope} : Cut \in ToSet(c)

\* The envelope reaches the mailbox as it was, through every mixer, if and only
\* if every line was read back and no ciphertext holds the marker.
Arrived == stage = "arrived" /\ at = Mailbox
ArrivesIffUnmarked ==
    Arrived \/ stage \in {"lost", "died"} =>
      (Arrived /\ text = envelope /\ peeled = Reverse(Path) <=> ~Marked)
=============================================================================
