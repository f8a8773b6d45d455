------------------------------ MODULE MCTexts ------------------------------
\* One text at a time: a packet, an envelope, a configuration file or a mail,
\* each from every beginning it may have; the others have nothing to do.
EXTENDS PacketText, Envelope, ConfigFile, EmailText

vars == <<packetvars, envelopevars, configvars, emailvars>>

TwoMixers == <<"m1", "m2">>
Addresses ==
    [m1 |-> <<"1", "0", ".", "0", ".", "0", ".", "1", "2">>,
     m2 |-> <<"1", "4", "2", ".", "9", "3", ".", "1", "8">>,
     box |-> <<"1", "7", "2", ".", "1", "8", ".", "0", ".", "7">>]
AllSymbols == ToSet(Digits) \cup {"_", "k", "b", "."}
TwoByteKeys == [1 .. 2 -> {"_", "k"}]
Ciphers == {c \in [1 .. 4 -> {"b", "1", Cut}] : c[1] = "b"}

Words == ToSet(Headers) \cup {"localhost", "10.0.0.1", "10.0.0.2"}
SmallFiles == UNION {[1 .. n -> Words] : n \in 0 .. 4}
FullFile ==
    <<"MIXERS", "10.0.0.1", "10.0.0.2", "MAILBOXES", "10.0.0.1", "10.0.0.2", "PKGS", "10.0.0.1",
      "INFO", "10.0.0.1", "10.0.0.2">>
ConfigFiles == SmallFiles \cup {FullFile}

FileBytes ==
    {<<>>, <<77>>, <<255>>, <<77, 255>>, <<9, 8, 7, 6, 5, 4>>, <<77, 255, 0, 127, 1, 2, 3>>,
     <<1, 2, 3, 200, 5, 6, 7, 8>>, [k \in 1 .. 14 |-> 9 * k]}
\* One field at a time as long as fits its line, and one letter longer.
Text(n) == [k \in 1 .. n |-> "a"]
ShortMail == [to |-> Text(1), from |-> Text(1), cc |-> <<>>, subject |-> <<>>, body |-> Text(1)]
SomeMails ==
    {ShortMail, [ShortMail EXCEPT !.body = <<>>]}
      \cup {[ShortMail EXCEPT ![f] = Text(n)] : <<f, n>> \in
               {<<"to", 5>>, <<"to", 6>>, <<"from", 3>>, <<"from", 4>>, <<"cc", 5>>, <<"cc", 6>>,
                <<"subject", 1>>, <<"body", 11>>, <<"body", 12>>}}

PacketIdle ==
    /\ keys = [m \in ToSet(Path) |-> <<"k", "k">>] /\ envelope = <<"b">>
    /\ stage = "idle" /\ text = <<>> /\ at = "client" /\ sealed = <<>> /\ plain = <<>> /\ peeled = <<>>
EnvelopeIdle == nonce = <<>> /\ ciphertext = <<>> /\ contents = <<"none">> /\ opened = "message"
ConfigIdle ==
    /\ file = <<>> /\ words = 0 /\ arr = 1 /\ config = << <<>>, <<>>, <<>>, <<>> >>
    /\ used = <<>> /\ state = "idle"
EmailIdle ==
    /\ attachments = <<>> /\ email_contents = <<>> /\ attached = <<>> /\ meant = <<>> /\ calls = MaxCalls
    /\ global_vec = <<>> /\ lines_read = 0 /\ received = <<>> /\ asked = <<>> /\ upload = "idle"

Init ==
    \/ PacketInit /\ EnvelopeIdle /\ ConfigIdle /\ EmailIdle
    \/ PacketIdle /\ EnvelopeInit /\ ConfigIdle /\ EmailIdle
    \/ PacketIdle /\ EnvelopeIdle /\ ConfigInit /\ EmailIdle
    \/ PacketIdle /\ EnvelopeIdle /\ ConfigIdle /\ EmailInit

Next ==
    \/ PacketNext /\ UNCHANGED <<envelopevars, configvars, emailvars>>
    \/ EnvelopeNext /\ UNCHANGED <<packetvars, configvars, emailvars>>
    \/ ConfigNext /\ UNCHANGED <<packetvars, envelopevars, emailvars>>
    \/ EmailNext /\ UNCHANGED <<packetvars, envelopevars, configvars>>

Spec == Init /\ [][Next]_vars
=============================================================================
