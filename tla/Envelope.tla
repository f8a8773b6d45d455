------------------------------ MODULE Envelope ------------------------------
(***************************************************************************)
(* The envelope a message travels in, from pkg_encrypt to pkg_decrypt.     *)
(* Nonce and ciphertext are arrays of bytes that become strings as C reads *)
(* them, and the ciphertext's size becomes a few binary digits.  Of a byte *)
(* only whether it is zero is modelled; the secret both sides derive from  *)
(* U, and the cipher itself, are external.                                 *)
(***************************************************************************)
EXTENDS Integers, SequencesExt

CONSTANTS NonceBytes,    \* crypto_secretbox_NONCEBYTES
          MacBytes,      \* crypto_secretbox_MACBYTES
          Sizes,         \* the sizes an envelope's eight bits tell apart: 256
          MaxLength      \* bound: of a message

ASSUME EnvelopeAssumption ==
    NonceBytes \in Nat \ {0} /\ MacBytes \in Nat \ {0} /\ Sizes \in Nat \ {0} /\ MaxLength \in Nat

Zero == "zero"
Byte == {Zero, "other"}
Unknown == "unknown"

VARIABLES
    nonce, ciphertext,   \* as pkg_encrypt draws and computes them
    contents,            \* the envelope's fields
    opened               \* what pkg_decrypt found, "" before

envelopevars == <<nonce, ciphertext, contents, opened>>

\* std::string(char*): up to the first zero, which for an array without one is
\* somewhere in the memory behind it.
CString(s, behind) ==
    LET t == s \o behind \o <<Zero>> IN SubSeq(t, 1, SelectInSeq(t, LAMBDA b : b = Zero) - 1)

\* std::bitset<8>(ciphersize)
SevenBits(n) == n % (Sizes \div 2)    \* a plausible bug: a bit too few
Bitset(n) == n % Sizes

\* The first n bytes at &s[0]: the string, its terminator, and unknown memory.
Bytes(s, n) ==
    [i \in 1 .. n |-> IF i <= Len(s) THEN s[i] ELSE IF i = Len(s) + 1 THEN Zero ELSE Unknown]

\* Every byte that is known is the one that was written.
Agrees(s, t) == Len(s) = Len(t) /\ \A i \in DOMAIN s : s[i] \in {t[i], Unknown}

pkg_encrypt ==
    /\ contents = <<>>
    /\ \E len \in 0 .. MaxLength :
         /\ nonce' \in [1 .. NonceBytes -> Byte]
         /\ ciphertext' \in [1 .. MacBytes + len -> Byte]
         /\ \E behind \in {<<>>, <<"other">>} :
              contents' = <<[nonce |-> CString(nonce', behind),
                             ciphertext |-> CString(ciphertext', behind),
                             ciphersize |-> Bitset(MacBytes + len)]>>
    /\ UNCHANGED opened

\* crypto_secretbox_open_easy fails for what was not sealed, and for less than
\* a tag; what is read from unknown memory may happen to be right.
pkg_decrypt ==
    /\ contents # <<>> /\ opened = ""
    /\ LET c == Head(contents)
           n == Bytes(c.nonce, NonceBytes)
           t == Bytes(c.ciphertext, c.ciphersize)
       IN  \/ n = nonce /\ t = ciphertext /\ opened' = "message"
           \/ <<n, t>> # <<nonce, ciphertext>> /\ opened' = "nothing"
           \/ Agrees(n, nonce) /\ Agrees(t, ciphertext) /\ opened' = "message"
    /\ UNCHANGED <<nonce, ciphertext, contents>>

EnvelopeInit == nonce = <<>> /\ ciphertext = <<>> /\ contents = <<>> /\ opened = ""
EnvelopeNext == pkg_encrypt \/ pkg_decrypt
EnvelopeSpec == EnvelopeInit /\ [][EnvelopeNext]_envelopevars
-----------------------------------------------------------------------------
\* No zero but in the last place, where the string's terminator stands in.
Whole(s) == \A i \in 1 .. Len(s) - 1 : s[i] # Zero

\* A message opens whenever neither nonce nor ciphertext holds an earlier zero
\* and its size fits, and never when the size does not fit.
OpensUnlessCut ==
    opened # "" =>
      LET fits == Len(ciphertext) < Sizes IN
        /\ fits /\ Whole(nonce) /\ Whole(ciphertext) => opened = "message"
        /\ opened = "message" => fits
=============================================================================
