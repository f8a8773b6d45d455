----------------------------- MODULE EmailText -----------------------------
(***************************************************************************)
(* The Email class: attachments encoded line by line, the lines put        *)
(* together to a mail through a buffer of MAX_LEN, and the callback that   *)
(* hands them to curl one by one until it returns 0.  Lines whose wording  *)
(* does not matter are known by their kind only.                           *)
(***************************************************************************)
EXTENDS Integers, SequencesExt

CONSTANTS MaxLen,      \* MAX_LEN
          FileTexts,   \* contents of files: sequences of bytes
          Mails,       \* what the setters set: records of sequences of letters
          MaxCalls     \* bound: calls of addAttachment and constructEmail

ASSUME MaxLenAssumption == MaxLen \in Nat \ {0} /\ MaxLen % 3 = 0
ASSUME FileTextsAssumption == FileTexts \subseteq Seq(0 .. 255)

VARIABLES
    attachments, email_contents,   \* of the Email
    attached,    \* history: the files of the attachments there are now
    meant,       \* history: email_contents, had snprintf's buffer no end
    global_vec, lines_read,        \* what payload_source reads from
    received,    \* what it has handed to curl
    asked,       \* history: meant when send was called
    upload,      \* "none", "running", "sent" or "failed"
    calls

writevars == <<attachments, email_contents, attached, meant, calls>>
sendvars == <<global_vec, lines_read, received, asked, upload>>
emailvars == <<writevars, sendvars>>

Line(kind, t) == [kind |-> kind, text |-> t]
endLine == Line("crlf", <<>>)
boundary == Line("boundary", <<>>)

\* The caller has the Email to itself until send returns.
Free == upload \in {"none", "sent", "failed"}

Pad == 64                        \* '='; a character of the table is its index
Strange == 65                    \* a byte before the table
Junk == {<<>>, <<Strange>>}      \* as a zero it ends the block

\* A plausible bug: a block that is not full is not padded.
AllFour(a, b, c, len, junk) ==
    <<a \div 4, ((a % 4) * 16) + (b \div 16), ((b % 16) * 4) + (c \div 64), c % 64>>

\* encodeblock, and the strncat behind it.  char is signed: from 128 on the
\* first index is negative.
encodeblock(a, b, c, len, junk) ==
    LET rest == <<((a % 4) * 16) + (b \div 16),
                  IF len > 1 THEN ((b % 16) * 4) + (c \div 64) ELSE Pad,
                  IF len > 2 THEN c % 64 ELSE Pad>>
    IN  IF a < 128 THEN <<a \div 4>> \o rest
        ELSE IF junk = <<>> THEN <<>> ELSE junk \o rest

base64_encode(in, junk) ==
    LET byte(i) == IF i <= Len(in) THEN in[i] ELSE 0
        block(k) == encodeblock(byte(3 * k - 2), byte(3 * k - 1), byte(3 * k), Len(in) - 3 * (k - 1), junk)
    IN  FlattenSeq([k \in 1 .. (Len(in) + 2) \div 3 |-> block(k)])

\* The chunks a file is read in.
Chunk(file, k) == SubSeq(file, (k - 1) * MaxLen + 1, Min({k * MaxLen, Len(file)}))
Chunks(file) == [k \in 1 .. (Len(file) + MaxLen - 1) \div MaxLen |-> Chunk(file, k)]

\* The lines of an attachment behind its three headers.
Encoded(file, junk) ==
    <<Line("filename", <<>>), endLine>>
      \o [k \in DOMAIN Chunks(file) |-> Line("data", base64_encode(Chunks(file)[k], junk))]
      \o <<endLine, boundary>>

HeaderLines == <<Line("type", <<>>), Line("transfer", <<>>), Line("disposition", <<>>)>>

\* Without a slash in the path all attachments are removed, not this one's
\* headers only.
addAttachment ==
    /\ Free
    /\ calls < MaxCalls /\ calls' = calls + 1
    /\ \E f \in FileTexts, slash \in BOOLEAN, junk \in Junk :
         IF slash THEN /\ attachments' = attachments \o HeaderLines \o Encoded(f, junk)
                       /\ attached' = Append(attached, f)
         ELSE attachments' = <<>> /\ attached' = <<>>
    /\ UNCHANGED <<email_contents, meant, sendvars>>

\* What snprintf's formats print beside the field.
Extra == [to |-> 6, from |-> 8, cc |-> 6, subject |-> 11, body |-> 0]

\* snprintf into a buffer of MAX_LEN: a line that is cut has lost its end, and
\* its "\r\n" with it.
Fits(l) == l.kind \in DOMAIN Extra => Len(l.text) + Extra[l.kind] < MaxLen
Printed(l) == IF Fits(l) THEN l ELSE Line("cut", <<>>)

Composed(m) ==
    <<Line("to", m.to), Line("from", m.from)>> \o (IF m.cc = <<>> THEN <<>> ELSE <<Line("cc", m.cc)>>)
      \o <<Line("subject", m.subject), Line("time", <<>>), Line("template", <<>>), endLine>>
      \o <<Line("body", m.body), endLine, boundary>>
      \o attachments \o <<Line("lastBoundary", <<>>), Line("end", <<>>)>>

\* The lines of a mail are put behind those of the mails before it.
constructEmail ==
    /\ Free
    /\ calls < MaxCalls /\ calls' = calls + 1
    /\ \E m \in Mails : LET lines == Composed(m) IN
         /\ meant' = meant \o lines
         /\ email_contents' = email_contents \o [j \in DOMAIN lines |-> Printed(lines[j])]
    /\ UNCHANGED <<attachments, attached, sendvars>>

send ==
    /\ Free
    /\ upload' = "running" /\ lines_read' = 0 /\ global_vec' = email_contents
    /\ received' = <<>> /\ asked' = meant
    /\ UNCHANGED writevars

\* A plausible bug: the last line is not counted.
MoreThanOne == lines_read < Len(global_vec) - 1
More == lines_read < Len(global_vec)

\* strlen of a line; only a body can be nothing at all.
Empty(l) == l = Line("body", <<>>)

\* curl calls it until it returns 0: behind the last line, or at an empty one.
payload_source ==
    /\ upload = "running"
    /\ lines_read' = IF More THEN lines_read + 1 ELSE lines_read
    /\ IF More /\ ~Empty(global_vec[lines_read + 1])
       THEN received' = Append(received, global_vec[lines_read + 1]) /\ UNCHANGED upload
       ELSE upload' = "sent" /\ UNCHANGED received
    /\ UNCHANGED <<writevars, global_vec, asked>>

\* curl_easy_perform gives up.
UploadFails ==
    /\ upload = "running" /\ upload' = "failed"
    /\ UNCHANGED <<writevars, global_vec, lines_read, received, asked>>

clearEmailContents ==
    /\ Free
    /\ attachments' = <<>> /\ email_contents' = <<>> /\ attached' = <<>> /\ meant' = <<>>
    /\ UNCHANGED <<calls, sendvars>>

removeAllAttachments ==
    /\ Free
    /\ attachments' = <<>> /\ attached' = <<>>
    /\ UNCHANGED <<email_contents, meant, calls, sendvars>>

EmailInit ==
    /\ attachments = <<>> /\ email_contents = <<>> /\ attached = <<>> /\ meant = <<>> /\ calls = 0
    /\ global_vec = <<>> /\ lines_read = 0 /\ received = <<>> /\ asked = <<>> /\ upload = "none"

EmailNext ==
    \/ addAttachment \/ constructEmail \/ send \/ payload_source \/ UploadFails
    \/ clearEmailContents \/ removeAllAttachments

EmailSpec == EmailInit /\ [][EmailNext]_emailvars
-----------------------------------------------------------------------------
\* Base 64 of a file bit by bit: every six bits a character, zeros behind the
\* last byte, and characters to fill the last four.
Weight == <<128, 64, 32, 16, 8, 4, 2, 1>>
Bit(file, n) ==
    IF n < 8 * Len(file) THEN (file[(n \div 8) + 1] \div Weight[(n % 8) + 1]) % 2 ELSE 0
Sextet(file, n) ==
    32 * Bit(file, n) + 16 * Bit(file, n + 1) + 8 * Bit(file, n + 2)
      + 4 * Bit(file, n + 3) + 2 * Bit(file, n + 4) + Bit(file, n + 5)

Base64(file) ==
    LET chars == (8 * Len(file) + 5) \div 6
    IN  [j \in 1 .. 4 * ((chars + 3) \div 4) |-> IF j <= chars THEN Sextet(file, 6 * (j - 1)) ELSE Pad]

\* No byte that begins a block is negative as a char.
Encodable(file) == \A i \in DOMAIN file : i % 3 = 1 => file[i] < 128

Data(lines) == FlattenSeq([i \in DOMAIN lines |-> IF lines[i].kind = "data" THEN lines[i].text ELSE <<>>])

\* The attachments' lines are the base 64 of the files that are attached, across
\* the chunks they are read in, unless a block of one begins with a byte from
\* 128 on; what the code removed is not there any more.
AttachmentsDecode ==
    (\A f \in ToSet(attached) : Encodable(f)) =>
      Data(attachments) = FlattenSeq([i \in DOMAIN attached |-> Base64(attached[i])])

\* When a transfer is over, curl has been handed the lines that were meant if and
\* only if each field fit its buffer and no body was empty: an address that is too
\* long takes the line break with it, and what follows an empty body is not sent.
SentAsMeant ==
    upload = "sent" =>
      (received = asked <=> \A j \in DOMAIN asked : Fits(asked[j]) /\ ~Empty(asked[j]))
=============================================================================
