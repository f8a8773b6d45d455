--------------------------- MODULE KeyServerProofs ---------------------------
(***************************************************************************)
(* For any sessions and users, any mails that fail or are mixed up and any *)
(* broken connections: keys are sent only for the session's own code, and  *)
(* without a race a mail holds only lines of sessions that mailed with it. *)
(***************************************************************************)
EXTENDS KeyServer, SequenceTheorems, TLAPS

USE GarbageAssumption, BoundAssumption

Codes == Sessions \cup {Garbage}
Empty(s) == toServer[s] = <<>> /\ toClient[s] = <<>>

\* Client and thread take turns: while the connection is up, one of them is to
\* move and one message, or the verdict and what follows it, is in flight.
AskingAddress(s) ==
    cl[s] = "prompt" /\ sv[s] = "email" /\ toClient[s] = <<>> /\ \E u \in Users : toServer[s] = <<u>>
MailingCode(s) == cl[s] = "prompt" /\ sv[s] \in {"send", "assign", "perform"} /\ Empty(s)
Prompting(s) == cl[s] = "prompt" /\ sv[s] = "code" /\ toServer[s] = <<>> /\ toClient[s] = <<"prompt">>
Typing(s) == cl[s] = "typing" /\ sv[s] = "code" /\ Empty(s)
GivingCode(s) == cl[s] = "verdict" /\ sv[s] = "code" /\ toServer[s] = <<typed[s]>> /\ toClient[s] = <<>>
Answering(s) ==
    /\ sv[s] = "email" /\ toServer[s] = <<>>
    /\ \/ cl[s] = "verdict" /\ toClient[s] = <<"wrong">>
       \/ cl[s] = "verdict" /\ typed[s] = s /\ toClient[s] = <<"good", "key", "params">>
       \/ cl[s] = "key" /\ toClient[s] = <<"key", "params">>
       \/ cl[s] = "params" /\ toClient[s] = <<"params">>

\* The invariant behind KeyEarned.
Talk(s) ==
    /\ conn[s] # "up" => Empty(s)
    /\ conn[s] = "none" <=> cl[s] = "off"
    /\ conn[s] = "none" => sv[s] = "off"
    /\ conn[s] = "up" =>
         AskingAddress(s) \/ MailingCode(s) \/ Prompting(s) \/ Typing(s) \/ GivingCode(s) \/ Answering(s)
    /\ sv[s] \in {"send", "assign", "perform", "code"} => email[s] \in Users
    /\ cl[s] \in {"off", "prompt", "typing"} => typed[s] = Garbage
    /\ typed[s] \in Sessions => \E u \in Users : typed[s] \in box[u]
    /\ cl[s] = "off" \/ (cl[s] = "prompt" /\ sv[s] = "email") => email[s] = Garbage
    /\ cl[s] \in {"key", "params", "done"} => typed[s] = s

LEMMA TalkInit == Init => TypeOK /\ \A s \in Sessions : Talk(s)
<1> SUFFICES ASSUME Init PROVE TypeOK /\ \A s \in Sessions : Talk(s)
  OBVIOUS
<1>1. TypeOK
  <2>1. <<>> \in Seq(Messages) /\ <<>> \in Seq(Users \cup Sessions \cup {Garbage}) /\ <<>> \in Seq(Codes)
    BY EmptySeq
  <2>2. Len(<<>>) <= Lines
    BY EmptySeq DEF Lines
  <2>3. /\ toClient \in [Sessions -> Seq(Messages)]
        /\ toServer \in [Sessions -> Seq(Users \cup Sessions \cup {Garbage})]
        /\ mail \in [Sessions -> Seq(Sessions \cup {Garbage})]
    BY <2>1 DEF Init, Codes
  <2>4. \A s \in Sessions : Len(mail[s]) <= Lines
    BY <2>2 DEF Init
  <2>5. cl \in [Sessions -> {"off", "prompt", "typing", "verdict", "key", "params", "done", "failed"}]
    BY DEF Init
  <2>6. sv \in [Sessions -> {"off", "email", "send", "assign", "perform", "code", "end"}]
        /\ conn \in [Sessions -> {"none", "up", "down"}]
    BY DEF Init
  <2>7. /\ email \in [Sessions -> Users \cup {Garbage}]
        /\ global_vec \in Sessions \cup {Garbage} /\ typed \in [Sessions -> Sessions \cup {Garbage}]
    BY DEF Init
  <2>8. box \in [Users -> SUBSET (Sessions \cup {Garbage})] /\ with \in [Sessions -> SUBSET Sessions]
    BY DEF Init
  <2>9. alive \in BOOLEAN /\ raced \in BOOLEAN
    BY DEF Init
  <2>10. drops \in 0 .. MaxDrops
    BY BoundAssumption DEF Init
  <2> QED BY <2>3, <2>4, <2>5, <2>6, <2>7, <2>8, <2>9, <2>10 DEF TypeOK
<1>2. ASSUME NEW s \in Sessions PROVE Talk(s)
  BY DEF Init, Talk, Empty
<1> QED BY <1>1, <1>2

\* What another session does, mails included, does not disturb a session.
LEMMA TalkFrame ==
  ASSUME NEW t \in Sessions, TypeOK, Talk(t),
         cl'[t] = cl[t], sv'[t] = sv[t], conn'[t] = conn[t], email'[t] = email[t], typed'[t] = typed[t],
         toServer'[t] = toServer[t], toClient'[t] = toClient[t],
         \A u \in Users : box[u] \subseteq box'[u]
  PROVE  Talk(t)'
BY DEF Talk, Empty, AskingAddress, MailingCode, Prompting, Typing, GivingCode, Answering

\* One step of session s, of its thread or its client, for every session.
Quiet(s) ==
    /\ \A t \in Sessions \ {s} :
         /\ cl'[t] = cl[t] /\ sv'[t] = sv[t] /\ conn'[t] = conn[t] /\ email'[t] = email[t]
         /\ typed'[t] = typed[t] /\ toServer'[t] = toServer[t] /\ toClient'[t] = toClient[t]
    /\ \A u \in Users : box[u] \subseteq box'[u]

LEMMA QuietStep ==
  ASSUME NEW s \in Sessions, TypeOK, Quiet(s), Talk(s)', \A t \in Sessions : Talk(t)
  PROVE  \A t \in Sessions : Talk(t)'
<1> SUFFICES ASSUME NEW t \in Sessions PROVE Talk(t)'
  OBVIOUS
<1>1. CASE t = s
  BY <1>1
<1>2. CASE t # s
  BY <1>2, TalkFrame DEF Quiet
<1> QED BY <1>1, <1>2

LEMMA TalkStep ==
  (TypeOK /\ \A s \in Sessions : Talk(s)) /\ [Next]_vars => (TypeOK /\ \A s \in Sessions : Talk(s))'
<1> SUFFICES ASSUME TypeOK, \A s \in Sessions : Talk(s), [Next]_vars
             PROVE  TypeOK' /\ \A s \in Sessions : Talk(s)'
  OBVIOUS
<1> DEFINE Sent == Users \cup Sessions \cup {Garbage}
<1> USE DEF mailvars, netvars
<1>a. ASSUME NEW s \in Sessions, Connect(s) PROVE TypeOK' /\ \A t \in Sessions : Talk(t)'
  <2> USE <1>a DEF Connect
  <2>1. PICK u \in Users : toServer' = [toServer EXCEPT ![s] = <<u>>]
    OBVIOUS
  <2>2. <<u>> \in Seq(Sent)
    OBVIOUS
  <2>3. TypeOK'
    BY <2>1, <2>2 DEF TypeOK
  <2>4. Talk(s)'
    BY <2>1 DEF Talk, AskingAddress, Empty, TypeOK
  <2>5. Quiet(s)
    BY <2>1 DEF Quiet, TypeOK
  <2> QED BY <2>3, <2>4, <2>5, QuietStep
<1>b. ASSUME NEW s \in Sessions, ReadEmail(s) PROVE TypeOK' /\ \A t \in Sessions : Talk(t)'
  <2> USE <1>b DEF ReadEmail
  <2>1. PICK u \in Users : toServer[s] = <<u>> /\ cl[s] = "prompt" /\ toClient[s] = <<>> /\ conn[s] = "up"
    BY DEF Talk, Empty, AskingAddress, MailingCode, Prompting, Typing, GivingCode, Answering, TypeOK
  <2>2. Head(toServer[s]) = u /\ Tail(toServer[s]) = <<>> /\ <<>> \in Seq(Sent)
    BY <2>1
  <2>3. TypeOK'
    BY <2>2 DEF TypeOK
  <2>4. Talk(s)'
    BY <2>1, <2>2 DEF Talk, MailingCode, Empty, TypeOK
  <2>5. Quiet(s)
    BY DEF Quiet, TypeOK
  <2> QED BY <2>3, <2>4, <2>5, QuietStep
<1>c. ASSUME NEW s \in Sessions, BeginAssign(s) PROVE TypeOK' /\ \A t \in Sessions : Talk(t)'
  <2> USE <1>c DEF BeginAssign
  <2>1. TypeOK'
    BY DEF TypeOK, Mailing, Assigning
  <2>2. Talk(s)'
    BY DEF Talk, Empty, AskingAddress, MailingCode, Prompting, Typing, GivingCode, Answering, TypeOK
  <2>3. Quiet(s)
    BY DEF Quiet, TypeOK
  <2> QED BY <2>1, <2>2, <2>3, QuietStep
<1>d. ASSUME NEW s \in Sessions, EndAssign(s) PROVE TypeOK' /\ \A t \in Sessions : Talk(t)'
  <2> USE <1>d DEF EndAssign
  <2>1. TypeOK'
    BY DEF TypeOK, Contents
  <2>2. Talk(s)'
    BY DEF Talk, Empty, AskingAddress, MailingCode, Prompting, Typing, GivingCode, Answering, TypeOK
  <2>3. Quiet(s)
    BY DEF Quiet, TypeOK
  <2> QED BY <2>1, <2>2, <2>3, QuietStep
<1>e. ASSUME NEW s \in Sessions, PayloadSource(s) PROVE TypeOK' /\ \A t \in Sessions : Talk(t)'
  <2> USE <1>e DEF PayloadSource
  <2>1. PICK line \in Codes : mail' = [mail EXCEPT ![s] = Append(@, line)]
    BY DEF TypeOK, Codes
  <2>2. Append(mail[s], line) \in Seq(Codes) /\ Len(Append(mail[s], line)) <= Lines
    BY DEF TypeOK, Codes, MoreLines, Lines
  <2>3. TypeOK'
    BY <2>1, <2>2 DEF TypeOK, Codes, Assigning
  <2>4. Talk(s)'
    BY DEF Talk, Empty, AskingAddress, MailingCode, Prompting, Typing, GivingCode, Answering, TypeOK
  <2>5. Quiet(s)
    BY DEF Quiet, TypeOK
  <2> QED BY <2>3, <2>4, <2>5, QuietStep
<1>f. ASSUME NEW s \in Sessions, Prompt(s) PROVE TypeOK' /\ \A t \in Sessions : Talk(t)'
  <2> USE <1>f DEF Prompt
  <2>1. email[s] \in Users
    BY DEF Talk
  <2>2. box' \in [Users -> SUBSET Codes] /\ \A u \in Users : box[u] \subseteq box'[u]
    <3>1. CASE UNCHANGED box
      BY <3>1 DEF TypeOK, Codes
    <3>2. CASE ~MoreLines(s) /\ box' = [box EXCEPT ![email[s]] = @ \cup {mail[s][Lines]}]
      <4>1. mail[s][Lines] \in Codes
        BY <3>2 DEF TypeOK, MoreLines, Lines, Codes
      <4> QED BY <3>2, <4>1, <2>1 DEF TypeOK, Codes
    <3> QED BY <3>1, <3>2
  <2>3. toClient' \in [Sessions -> Seq(Messages)]
    <3>1. Append(toClient[s], "prompt") \in Seq(Messages)
      BY AppendProperties DEF TypeOK, Messages
    <3> QED BY <3>1 DEF TypeOK
  <2>4. TypeOK'
    <3>1. mail' \in [Sessions -> Seq(Codes)] /\ \A t \in Sessions : Len(mail'[t]) <= Lines
      BY DEF TypeOK, Codes, Lines
    <3> QED BY <2>2, <2>3, <3>1 DEF TypeOK, Codes
  <2>5. Talk(s)'
    <3>1. (cl[s] = "prompt" /\ Empty(s)) \/ conn[s] # "up"
      BY DEF Talk, Empty, AskingAddress, MailingCode, Prompting, Typing, GivingCode, Answering
    <3>2. CASE conn[s] = "up"
      <4>1. Append(<<>>, "prompt") = <<"prompt">>
        OBVIOUS
      <4>2. Prompting(s)' /\ conn'[s] = "up" /\ cl'[s] = "prompt"
        BY <3>1, <3>2, <4>1 DEF Prompting, Empty, TypeOK
      <4> QED BY <2>1, <2>2, <4>2 DEF Talk, TypeOK, Codes
    <3>3. CASE conn[s] # "up"
      BY <2>1, <2>2, <3>3 DEF Talk, Empty, TypeOK
    <3> QED BY <3>2, <3>3
  <2>6. Quiet(s)
    BY <2>2 DEF Quiet, TypeOK
  <2> QED BY <2>4, <2>5, <2>6, QuietStep
<1>g. ASSUME NEW s \in Sessions, ReadCode(s) PROVE TypeOK' /\ \A t \in Sessions : Talk(t)'
  <2> USE <1>g DEF ReadCode
  <2>1. GivingCode(s) /\ conn[s] = "up"
    BY DEF Talk, Empty, AskingAddress, MailingCode, Prompting, Typing, GivingCode, Answering
  <2>2. Head(toServer[s]) = typed[s] /\ Tail(toServer[s]) = <<>> /\ <<>> \in Seq(Sent)
    BY <2>1 DEF GivingCode
  <2>3. /\ typed[s] = s => toClient'[s] = <<"good", "key", "params">>
        /\ typed[s] # s => toClient'[s] = <<"wrong">>
    BY <2>1, <2>2 DEF GivingCode, Verdict, Code, TypeOK
  <2>4. toClient' \in [Sessions -> Seq(Messages)]
    <3>1. <<"good", "key", "params">> \in Seq(Messages) /\ <<"wrong">> \in Seq(Messages)
      BY DEF Messages
    <3>2. toClient'[s] \in Seq(Messages)
      BY <2>3, <3>1
    <3> QED BY <3>2 DEF TypeOK
  <2>5. TypeOK'
    BY <2>2, <2>4 DEF TypeOK
  <2>6. Talk(s)'
    <3>1. Answering(s)'
      BY <2>1, <2>2, <2>3 DEF GivingCode, Answering, TypeOK
    <3> QED BY <2>1, <3>1 DEF Talk, GivingCode, TypeOK
  <2>7. Quiet(s)
    BY DEF Quiet, TypeOK
  <2> QED BY <2>5, <2>6, <2>7, QuietStep
<1>h. ASSUME NEW s \in Sessions, SessionEnds(s) PROVE TypeOK' /\ \A t \in Sessions : Talk(t)'
  <2> USE <1>h DEF SessionEnds
  <2>1. TypeOK' /\ Quiet(s)
    BY DEF TypeOK, Quiet
  <2>2. Talk(s)'
    BY DEF Talk, Empty, TypeOK
  <2> QED BY <2>1, <2>2, QuietStep
<1>i. ASSUME NEW s \in Sessions, ClientReads(s) PROVE TypeOK' /\ \A t \in Sessions : Talk(t)'
  <2> USE <1>i DEF ClientReads
  <2>1. conn[s] = "up" /\ (Prompting(s) \/ Answering(s))
    BY DEF Talk, Empty, AskingAddress, MailingCode, Prompting, Typing, GivingCode, Answering
  <2>2. Head(toClient[s]) \in Messages /\ Tail(toClient[s]) \in Seq(Messages)
    BY DEF TypeOK
  <2>3. cl'[s] = Expected[Head(toClient[s])] /\ toClient'[s] = Tail(toClient[s])
    BY DEF TypeOK
  <2>4. TypeOK' /\ Quiet(s)
    BY <2>2 DEF TypeOK, Quiet, Messages, Expected
  <2>5. CASE Prompting(s)
    <3>1. Typing(s)' /\ conn'[s] = "up"
      BY <2>1, <2>3, <2>5 DEF Prompting, Typing, Empty, TypeOK, Expected
    <3> QED BY <2>1, <2>4, <2>5, <3>1, QuietStep DEF Talk, Prompting, Typing
  <2>6. CASE Answering(s)
    <3>1. CASE toClient[s] = <<"wrong">>
      <4>1. cl'[s] = "failed" /\ conn'[s] = "down" /\ Empty(s)'
        BY <2>3, <2>6, <3>1 DEF Answering, Empty, TypeOK, Expected
      <4> QED BY <2>1, <2>4, <2>6, <4>1, QuietStep DEF Talk, Answering
    <3>2. CASE toClient[s] # <<"wrong">> /\ cl[s] # "params"
      <4>1. /\ typed[s] = s
            /\ \/ toClient[s] = <<"good", "key", "params">> /\ cl[s] = "verdict"
               \/ toClient[s] = <<"key", "params">> /\ cl[s] = "key"
        BY <2>6, <3>2 DEF Answering, Talk
      <4>2. \/ toClient'[s] = <<"key", "params">> /\ cl'[s] = "key"
            \/ toClient'[s] = <<"params">> /\ cl'[s] = "params"
        <5>1. CASE toClient[s] = <<"good", "key", "params">>
          BY <2>3, <5>1 DEF Expected
        <5>2. CASE toClient[s] = <<"key", "params">>
          BY <2>3, <5>2 DEF Expected
        <5> QED BY <4>1, <5>1, <5>2
      <4>3. conn'[s] = "up" /\ typed'[s] = s /\ sv'[s] = "email" /\ toServer'[s] = <<>>
        BY <2>1, <2>6, <4>1, <4>2 DEF Answering, TypeOK
      <4>4. Answering(s)'
        BY <4>2, <4>3 DEF Answering
      <4> QED BY <2>1, <2>4, <2>6, <4>2, <4>3, <4>4, QuietStep DEF Talk
    <3>3. CASE cl[s] = "params"
      <4>1. toClient[s] = <<"params">> /\ toServer[s] = <<>> /\ typed[s] = s
        BY <2>6, <3>3 DEF Answering, Talk
      <4>2. cl'[s] = "done" /\ toClient'[s] = <<>> /\ toServer'[s] = <<>> /\ typed'[s] = s
        BY <2>3, <4>1 DEF Expected
      <4>3. conn'[s] = "down"
        BY <4>2 DEF TypeOK
      <4> QED BY <2>1, <2>4, <2>6, <4>2, <4>3, QuietStep DEF Talk, Answering, Empty
    <3> QED BY <3>1, <3>2, <3>3
  <2> QED BY <2>1, <2>5, <2>6
<1>j. ASSUME NEW s \in Sessions, Type(s) PROVE TypeOK' /\ \A t \in Sessions : Talk(t)'
  <2> USE <1>j DEF Type
  <2>1. Typing(s) /\ email[s] \in Users
    BY DEF Talk, AskingAddress, MailingCode, Prompting, Typing, GivingCode, Answering
  <2>2. PICK c \in Mailed \cup {Garbage} :
          /\ typed' = [typed EXCEPT ![s] = c]
          /\ toServer' = [toServer EXCEPT ![s] = Append(@, c)]
    OBVIOUS
  <2>3. c \in Codes /\ Append(toServer[s], c) \in Seq(Sent) /\ Append(<<>>, c) = <<c>>
    BY <2>1, <2>2 DEF TypeOK, Codes, Mailed
  <2>4. TypeOK' /\ Quiet(s)
    BY <2>2, <2>3 DEF TypeOK, Codes, Quiet
  <2>5. GivingCode(s)' /\ conn'[s] = "up"
    BY <2>1, <2>2, <2>3 DEF Typing, GivingCode, Empty, TypeOK
  <2>6. c \in Sessions => \E u \in Users : c \in box[u]
    BY <2>2 DEF Mailed
  <2>7. Talk(s)'
    BY <2>1, <2>2, <2>5, <2>6 DEF Talk, Typing, GivingCode, TypeOK
  <2> QED BY <2>4, <2>7, QuietStep
<1>k. ASSUME NEW s \in Sessions, ClientFails(s) PROVE TypeOK' /\ \A t \in Sessions : Talk(t)'
  <2> USE <1>k DEF ClientFails
  <2>1. TypeOK' /\ Quiet(s)
    BY DEF TypeOK, Quiet
  <2>2. Talk(s)'
    BY DEF Talk, Empty, TypeOK
  <2> QED BY <2>1, <2>2, QuietStep
<1>l. ASSUME NEW s \in Sessions, Drop(s) PROVE TypeOK' /\ \A t \in Sessions : Talk(t)'
  <2> USE <1>l DEF Drop
  <2>1. <<>> \in Seq(Sent) /\ <<>> \in Seq(Messages)
    BY EmptySeq
  <2>2. TypeOK' /\ Quiet(s)
    BY <2>1 DEF TypeOK, Quiet
  <2>3. Talk(s)'
    BY DEF Talk, Empty, TypeOK
  <2> QED BY <2>2, <2>3, QuietStep
<1>m. CASE Die
  <2> USE <1>m DEF Die
  <2>1. <<>> \in Seq(Sent) /\ <<>> \in Seq(Messages)
    BY EmptySeq
  <2>2. TypeOK'
    BY <2>1 DEF TypeOK
  <2>3. ASSUME NEW t \in Sessions PROVE Talk(t)'
    BY DEF Talk, Empty, TypeOK
  <2> QED BY <2>2, <2>3
<1>n. CASE UNCHANGED vars
  <2>1. TypeOK'
    BY <1>n DEF vars, TypeOK
  <2>2. ASSUME NEW t \in Sessions PROVE Talk(t)'
    BY <1>n, TalkFrame DEF vars
  <2> QED BY <2>1, <2>2
<1> QED
  BY <1>a, <1>b, <1>c, <1>d, <1>e, <1>f, <1>g, <1>h, <1>i, <1>j, <1>k, <1>l, <1>m, <1>n
     DEF Next, do_session, getkeysfrompkg

LEMMA TalkSafe == Spec => [](TypeOK /\ \A s \in Sessions : Talk(s))
BY TalkInit, TalkStep, PTL DEF Spec

\* For any sessions and users, every variable keeps its type.
THEOREM TypeCorrect == Spec => []TypeOK
BY TalkSafe, PTL

\* While the connection is up, an end that waits for a message gets one: the other
\* is at work on it, or it is in flight.  So the two never wait for each other, and
\* neither has gone; this is what EverySessionEnds needs beside fairness.
ClientWaits(s) == cl[s] \in {"prompt", "verdict", "key", "params"} /\ toClient[s] = <<>>
ThreadWaits(s) == sv[s] \in {"email", "code"} /\ toServer[s] = <<>>
NeverBothWait ==
    \A s \in Sessions : conn[s] = "up" =>
      /\ ClientWaits(s) => sv[s] \in {"send", "assign", "perform"} \/ toServer[s] # <<>>
      /\ ThreadWaits(s) => cl[s] = "typing" \/ toClient[s] # <<>>
      /\ cl[s] \notin {"done", "failed"} /\ sv[s] \notin {"off", "end"}

\* No protocol deadlock, for any sessions, users, broken connections and mails that fail.
THEOREM TurnsCorrect == Spec => []NeverBothWait
<1>1. TypeOK /\ (\A s \in Sessions : Talk(s)) => NeverBothWait
  <2> SUFFICES ASSUME NEW s \in Sessions, Talk(s), conn[s] = "up"
               PROVE  /\ ClientWaits(s) => sv[s] \in {"send", "assign", "perform"}
                                             \/ toServer[s] # <<>>
                      /\ ThreadWaits(s) => cl[s] = "typing" \/ toClient[s] # <<>>
                      /\ cl[s] \notin {"done", "failed"} /\ sv[s] \notin {"off", "end"}
    BY DEF NeverBothWait
  <2>1. toServer[s] # <<>> \/ cl[s] = "typing" \/ toClient[s] # <<>> \/ MailingCode(s)
    <3>1. (\A x : <<x>> # <<>>) /\ (\A x, y : <<x, y>> # <<>>) /\ \A x, y, z : <<x, y, z>> # <<>>
      OBVIOUS
    <3>2. AskingAddress(s) \/ GivingCode(s) => toServer[s] # <<>>
      BY <3>1, Zenon DEF AskingAddress, GivingCode
    <3>3. Prompting(s) \/ Answering(s) => toClient[s] # <<>>
      BY <3>1, Zenon DEF Prompting, Answering
    <3> QED BY <3>2, <3>3 DEF Talk, Typing
  <2> QED
    BY <2>1 DEF Talk, Empty, AskingAddress, MailingCode, Prompting, Typing, GivingCode, Answering,
                ClientWaits, ThreadWaits
<1> QED BY <1>1, TalkSafe, PTL
-----------------------------------------------------------------------------
(***************************************************************************)
(* The invariant behind NoStaleMail: two sessions that mail at the same    *)
(* time know of each other, and what global_vec holds while a mail is read *)
(* is that mail or one of a session known; so a code only gets to the      *)
(* address of its session or of one that mailed at the same time.          *)
(***************************************************************************)
Boxed ==
    ~raced => \A u \in Users : \A c \in box[u] \cap Sessions :
                \E t \in Sessions : c \in {t} \cup with[t] /\ email[t] = u

Known ==
    /\ \A s, t \in Mailing : t \in {s} \cup with[s]
    /\ \A s \in Sessions : sv[s] = "perform" => global_vec \in {s} \cup with[s]
    /\ \A s \in Sessions : sv[s] \in {"off", "email", "send", "assign", "code"} => mail[s] = <<>>
    /\ NoStaleMail /\ Boxed

LEMMA KnownStep == TypeOK /\ (\A s \in Sessions : Talk(s)) /\ Known /\ [Next]_vars => Known'
<1> SUFFICES ASSUME TypeOK, \A s \in Sessions : Talk(s), Known, [Next]_vars PROVE Known'
  OBVIOUS
<1> USE DEF mailvars, netvars
<1>1. ASSUME NEW s \in Sessions, BeginAssign(s) PROVE Known'
  <2>1. Mailing' = Mailing \cup {s} /\ mail[s] = <<>>
    BY <1>1 DEF BeginAssign, Mailing, TypeOK, Known
  <2>2. \A t \in Sessions : with[t] \subseteq with'[t]
    BY <1>1 DEF BeginAssign, TypeOK
  <2>3. Mailing \subseteq with'[s] /\ \A t \in Mailing \ {s} : with'[t] = with[t] \cup {s}
    BY <1>1 DEF BeginAssign, TypeOK, Mailing
  <2>4. \A r, t \in Mailing' : t \in {r} \cup with'[r]
    BY <2>1, <2>3 DEF Known
  <2>5. \A t \in Sessions : sv'[t] = "perform" => t # s /\ global_vec' \in {t} \cup with'[t]
    BY <1>1, <2>2 DEF BeginAssign, TypeOK, Known
  <2>6. \A t \in Sessions : sv'[t] \in {"off", "email", "send", "assign", "code"} => mail'[t] = <<>>
    BY <1>1, <2>1 DEF BeginAssign, TypeOK, Known
  <2>7. NoStaleMail'
    <3> SUFFICES ASSUME ~raced', NEW t \in Sessions, NEW k \in DOMAIN mail'[t]
                 PROVE  mail'[t][k] \in {t} \cup with'[t]
      BY DEF NoStaleMail
    <3>1. mail' = mail /\ ~raced
      BY <1>1 DEF BeginAssign
    <3>2. t # s
      BY <2>1, <3>1
    <3> QED BY <2>2, <3>1, <3>2 DEF Known, NoStaleMail
  <2>8. Boxed'
    <3>1. UNCHANGED <<box, email>> /\ (raced => raced')
      BY <1>1 DEF BeginAssign
    <3> QED BY <2>2, <3>1 DEF Known, Boxed
  <2> QED BY <2>4, <2>5, <2>6, <2>7, <2>8 DEF Known
<1>2. ASSUME NEW s \in Sessions, EndAssign(s) PROVE Known'
  <2>1. /\ Mailing' = Mailing /\ s \in Mailing /\ global_vec' = s
        /\ with' = with /\ mail' = mail /\ raced' = raced /\ box' = box /\ email' = email
    BY <1>2 DEF EndAssign, Mailing, TypeOK, Contents
  <2>2. \A t \in Sessions : sv'[t] = "perform" => t \in Mailing
    BY <1>2 DEF EndAssign, Mailing, TypeOK
  <2>3. \A t \in Sessions : sv'[t] \in {"off", "email", "send", "assign", "code"} => mail'[t] = <<>>
    BY <1>2 DEF EndAssign, TypeOK, Known
  <2> QED BY <2>1, <2>2, <2>3 DEF Known, NoStaleMail, Boxed
<1>3. ASSUME NEW s \in Sessions, PayloadSource(s) PROVE Known'
  <2>1. /\ sv' = sv /\ Mailing' = Mailing /\ global_vec' = global_vec /\ with' = with
        /\ sv[s] = "perform" /\ (raced => raced') /\ box' = box /\ email' = email
    BY <1>3 DEF PayloadSource, Mailing
  <2>2. \A t \in Sessions \ {s} : mail'[t] = mail[t]
    BY <1>3 DEF PayloadSource, TypeOK
  <2>3. NoStaleMail'
    <3> SUFFICES ASSUME ~raced', NEW t \in Sessions, NEW k \in DOMAIN mail'[t]
                 PROVE  mail'[t][k] \in {t} \cup with[t]
      BY <2>1 DEF NoStaleMail
    <3>1. CASE t # s
      BY <2>1, <2>2, <3>1 DEF Known, NoStaleMail
    <3>2. CASE t = s
      <4>1. mail'[s] = Append(mail[s], global_vec) /\ mail[s] \in Seq(Sessions \cup {Garbage})
        BY <1>3 DEF PayloadSource, TypeOK
      <4>2. CASE k = Len(mail[s]) + 1
        BY <2>1, <3>2, <4>1, <4>2 DEF Known, TypeOK
      <4>3. CASE k # Len(mail[s]) + 1
        <5>1. k \in DOMAIN mail[s] /\ mail'[s][k] = mail[s][k]
          BY <3>2, <4>1, <4>3 DEF TypeOK
        <5> QED BY <2>1, <3>2, <5>1 DEF Known, NoStaleMail
      <4> QED BY <4>2, <4>3
    <3> QED BY <3>1, <3>2
  <2>4. Boxed'
    BY <2>1 DEF Known, Boxed
  <2> QED BY <2>1, <2>2, <2>3, <2>4 DEF Known
<1>4. ASSUME NEW s \in Sessions, Prompt(s) PROVE Known'
  <2>1. /\ Mailing' \subseteq Mailing \ {s} /\ global_vec' = global_vec /\ raced' = raced
        /\ mail'[s] = <<>> /\ sv'[s] \in {"code", "end"} /\ with' = with /\ email' = email
    BY <1>4 DEF Prompt, Mailing, TypeOK
  <2>2. \A t \in Sessions \ {s} : sv'[t] = sv[t] /\ mail'[t] = mail[t]
    BY <1>4 DEF Prompt, TypeOK
  <2>3. \A r, t \in Mailing' : t \in {r} \cup with'[r]
    BY <2>1, <2>2 DEF Known, Mailing
  <2>4. NoStaleMail'
    BY <2>1, <2>2 DEF Known, NoStaleMail
\* The mail's last line is its own code or that of a session known.
  <2>5. Boxed'
    <3> SUFFICES ASSUME ~raced, NEW u \in Users, NEW c \in box'[u] \cap Sessions
                 PROVE  \E t \in Sessions : c \in {t} \cup with[t] /\ email[t] = u
      BY <2>1 DEF Boxed
    <3>1. CASE c \in box[u]
      BY <3>1 DEF Known, Boxed
    <3>2. CASE c \notin box[u]
      <4>1. u = email[s] /\ c = mail[s][Lines] /\ ~MoreLines(s)
        BY <1>4, <3>2 DEF Prompt, TypeOK
      <4>2. Lines \in DOMAIN mail[s]
        BY <4>1 DEF MoreLines, Lines, TypeOK
      <4> QED BY <4>1, <4>2 DEF Known, NoStaleMail
    <3> QED BY <3>1, <3>2
  <2> QED BY <2>1, <2>2, <2>3, <2>4, <2>5 DEF Known
<1>5. CASE Die
  <2>1. Mailing' = {} /\ raced' /\ mail' = mail
    BY <1>5 DEF Die, Mailing, TypeOK
  <2>2. \A s \in Sessions : sv'[s] \in {sv[s], "end"} /\ sv'[s] # "perform"
    BY <1>5 DEF Die, TypeOK
  <2> QED BY <2>1, <2>2 DEF Known, NoStaleMail, Boxed
<1>6. ASSUME UNCHANGED mailvars,
             \A s \in Sessions : email[s] \in Users => email'[s] = email[s],
             \A s \in Sessions : \/ sv'[s] = sv[s]
                                 \/ /\ sv[s] \notin {"assign", "perform", "end"}
                                    /\ sv'[s] \notin {"assign", "perform"}
      PROVE  Known'
  <2>1. Mailing' = Mailing
    BY <1>6 DEF Mailing
  <2>2. \A s \in Sessions :
          sv'[s] \in {"off", "email", "send", "assign", "code"} =>
            sv[s] \in {"off", "email", "send", "assign", "code"}
    BY <1>6 DEF TypeOK
  <2>3. Boxed'
    BY <1>6 DEF Known, Boxed
  <2> QED BY <1>6, <2>1, <2>2, <2>3 DEF Known, NoStaleMail
<1>7. ASSUME NEW s \in Sessions,
             Connect(s) \/ ReadEmail(s) \/ ReadCode(s) \/ SessionEnds(s) \/ getkeysfrompkg(s) \/ Drop(s)
      PROVE  Known'
  <2>1. UNCHANGED mailvars
    BY <1>7 DEF Connect, ReadEmail, ReadCode, SessionEnds, getkeysfrompkg, ClientReads, Type, ClientFails, Drop
  <2>2. \A t \in Sessions : \/ sv'[t] = sv[t]
                            \/ /\ sv[t] \notin {"assign", "perform", "end"}
                               /\ sv'[t] \notin {"assign", "perform"}
    BY <1>7 DEF Connect, ReadEmail, ReadCode, SessionEnds, getkeysfrompkg, ClientReads, Type, ClientFails, Drop,
                TypeOK, Talk
  <2>3. \A t \in Sessions : email[t] \in Users => email'[t] = email[t]
    <3>1. CASE ReadEmail(s)
      <4>1. AskingAddress(s)
        BY <3>1 DEF ReadEmail, Talk, Empty, AskingAddress, MailingCode, Prompting, Typing, GivingCode, Answering
      <4>2. email[s] = Garbage /\ email[s] \notin Users
        BY <4>1 DEF Talk, AskingAddress
      <4> QED BY <3>1, <4>2 DEF ReadEmail, TypeOK
    <3>2. CASE ~ReadEmail(s)
      BY <1>7, <3>2 DEF Connect, ReadCode, SessionEnds, getkeysfrompkg, ClientReads, Type, ClientFails, Drop
    <3> QED BY <3>1, <3>2
  <2> QED BY <1>6, <2>1, <2>2, <2>3
<1>8. CASE UNCHANGED vars
  BY <1>6, <1>8 DEF vars
<1> QED
  BY <1>1, <1>2, <1>3, <1>4, <1>5, <1>7, <1>8 DEF Next, do_session

LEMMA KnownSafe == Spec => []Known
<1>1. Init => Known
  BY DEF Init, Known, Mailing, NoStaleMail, Boxed
<1>2. (TypeOK /\ \A s \in Sessions : Talk(s)) /\ Known /\ [Next]_vars => Known'
  BY KnownStep
<1> QED BY <1>1, <1>2, TalkSafe, PTL DEF Spec

\* For any sessions and users: as long as no thread has assigned global_vec while
\* another used it, every line of a mail is of a session that mails at that time
\* (email.cpp 299-310, 460-482).
THEOREM MailCorrect == Spec => []NoStaleMail
<1>1. Known => NoStaleMail
  BY DEF Known
<1> QED BY <1>1, KnownSafe, PTL

\* For any sessions and users, however the mails are mixed up and whichever code is
\* pasted: a key is on its way to a client, or there, only for the code of that very
\* session; and until threads race on global_vec that code has reached only the
\* session's address or one that was being mailed to at the same time
\* (pkgserver.cpp 126-186, email.cpp 310).
THEOREM EarnedCorrect == Spec => []KeyEarned
<1>1. TypeOK /\ (\A s \in Sessions : Talk(s)) /\ Known => KeyEarned
  <2> SUFFICES ASSUME TypeOK, NEW s \in Sessions, Talk(s), Known, KeySent(s)
               PROVE  /\ typed[s] = s /\ s \in Mailed
                      /\ ~raced => \E t \in Sessions : s \in {t} \cup with[t] /\ s \in box[email[t]]
    BY DEF KeyEarned
  <2>1. typed[s] = s
    <3>1. CASE cl[s] \in {"key", "params", "done"}
      BY <3>1 DEF Talk
    <3>2. ASSUME NEW k \in DOMAIN toClient[s], toClient[s][k] = "key" PROVE typed[s] = s
      <4>1. toClient[s] # <<>>
        BY <3>2
      <4>2. CASE Prompting(s)
        BY <3>2, <4>2 DEF Prompting
      <4>3. CASE Answering(s)
        <5>1. CASE toClient[s] = <<"wrong">>
          BY <3>2, <5>1
        <5> QED BY <4>3, <5>1 DEF Answering, Talk
      <4> QED
        BY <4>1, <4>2, <4>3 DEF Talk, Empty, AskingAddress, MailingCode, Typing, GivingCode
    <3> QED BY <3>1, <3>2 DEF KeySent
  <2>2. PICK u \in Users : s \in box[u]
    BY <2>1 DEF Talk
  <2>3. ~raced => \E t \in Sessions : s \in {t} \cup with[t] /\ email[t] = u
    BY <2>2 DEF Known, Boxed
  <2> QED BY <2>1, <2>2, <2>3 DEF Mailed
<1> QED BY <1>1, TalkSafe, KnownSafe, PTL
=============================================================================
