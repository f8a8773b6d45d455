------------------------------ MODULE KeyServer ------------------------------
(***************************************************************************)
(* How a user gets the keys for an email address.  The key server runs a   *)
(* thread for each connection: it reads the address, mails a random code   *)
(* to it, prompts for the code, and sends the keys for the right one.      *)
(* Each mail is an object of its own, but libcurl reads its lines through  *)
(* a vector all threads share.  Client and server write and read in turns  *)
(* and either may find the connection broken.  curl, the mail provider and *)
(* the user are external; the keys themselves are not modelled.            *)
(***************************************************************************)
EXTENDS Naturals, Sequences, FiniteSets

CONSTANTS Sessions,    \* the connections, each with its client and its thread
          Users,       \* the users, each with an address
          MaxDrops,    \* bound: how many connections break
          Garbage      \* no code and no user

ASSUME GarbageAssumption == Garbage \notin Sessions \cup Users
ASSUME BoundAssumption == MaxDrops \in Nat

VARIABLES
    cl,         \* cl[s]: where the client is
    sv,         \* sv[s]: where the thread is
    conn,       \* conn[s]: none, up, or down (closed or broken)
    toServer, toClient, \* the messages in flight
    email,      \* email[s]: the address the thread was asked with
    global_vec, \* whose lines global_vec holds; a code is named by its session
    mail,       \* mail[s]: whose lines libcurl has read for s's mail so far
    box,        \* box[u]: the codes in the mails the user has
    typed,      \* typed[s]: what the user has pasted
    alive,      \* the server process runs
    drops,
    with,       \* history: the sessions that have mailed while s did
    raced       \* history: global_vec was used by one thread and assigned by another

mailvars == <<global_vec, mail, box, with, raced>>
netvars == <<conn, toServer, toClient, drops>>
vars == <<cl, sv, email, typed, alive, mailvars, netvars>>

\* The lines that matter: the header To: and the body with the code.
Lines == 2

Init ==
    /\ cl = [s \in Sessions |-> "off"] /\ sv = [s \in Sessions |-> "off"]
    /\ conn = [s \in Sessions |-> "none"]
    /\ toServer = [s \in Sessions |-> <<>>] /\ toClient = [s \in Sessions |-> <<>>]
    /\ email = [s \in Sessions |-> Garbage] /\ global_vec = Garbage
    /\ mail = [s \in Sessions |-> <<>>]
    /\ box = [u \in Users |-> {}]
    /\ typed = [s \in Sessions |-> Garbage]
    /\ alive = TRUE /\ drops = 0
    /\ with = [s \in Sessions |-> {}] /\ raced = FALSE
-----------------------------------------------------------------------------
\* The client connects, a thread is made for it, and it writes the address.
Connect(s) ==
    /\ cl[s] = "off" /\ alive
    /\ cl' = [cl EXCEPT ![s] = "prompt"] /\ sv' = [sv EXCEPT ![s] = "email"]
    /\ conn' = [conn EXCEPT ![s] = "up"]
    /\ \E u \in Users : toServer' = [toServer EXCEPT ![s] = <<u>>]
    /\ UNCHANGED <<toClient, drops, email, typed, alive, mailvars>>

\* The thread reads the address, makes a code and constructs the mail.
ReadEmail(s) ==
    /\ sv[s] = "email" /\ toServer[s] # <<>>
    /\ sv' = [sv EXCEPT ![s] = "send"]
    /\ email' = [email EXCEPT ![s] = Head(toServer[s])]
    /\ toServer' = [toServer EXCEPT ![s] = Tail(@)]
    /\ UNCHANGED <<cl, conn, toClient, drops, typed, alive, mailvars>>

Mailing == {s \in Sessions : sv[s] \in {"assign", "perform"}}
Assigning(s) == \E t \in Sessions \ {s} : sv[t] = "assign"

\* global_vec = this->email_contents begins,
BeginAssign(s) ==
    /\ sv[s] = "send"
    /\ sv' = [sv EXCEPT ![s] = "assign"]
    /\ raced' = (raced \/ Assigning(s))
    /\ with' = [t \in Sessions |-> IF t = s THEN with[t] \cup Mailing
                                   ELSE IF t \in Mailing THEN with[t] \cup {s} ELSE with[t]]
    /\ UNCHANGED <<cl, email, typed, alive, global_vec, mail, box, netvars>>

\* A plausible bug: only an empty global_vec is filled.
FilledOnce(s) == IF global_vec = Garbage THEN s ELSE global_vec
Contents(s) == s

\* and ends.
EndAssign(s) ==
    /\ sv[s] = "assign"
    /\ sv' = [sv EXCEPT ![s] = "perform"]
    /\ global_vec' = Contents(s)
    /\ UNCHANGED <<cl, email, typed, alive, mail, box, with, raced, netvars>>

\* A plausible bug: one line too many.
OneTooMany(s) == Len(mail[s]) <= Lines
MoreLines(s) == Len(mail[s]) < Lines

\* payload_source: libcurl asks for the next line.  What an assignment under way
\* leaves of it, or a race has left, can be anything.
PayloadSource(s) ==
    /\ sv[s] = "perform" /\ MoreLines(s)
    /\ raced' = (raced \/ Assigning(s))
    /\ \E line \in IF raced' THEN Sessions \cup {Garbage} ELSE {global_vec} :
         mail' = [mail EXCEPT ![s] = Append(@, line)]
    /\ UNCHANGED <<cl, sv, email, typed, alive, global_vec, box, with, netvars>>

\* curl_easy_perform ends, and the Email object with it.  Whether or not there
\* was an error, the client is prompted.
Prompt(s) ==
    /\ sv[s] = "perform"
    /\ \/ /\ ~MoreLines(s)
          /\ box' = [box EXCEPT ![email[s]] = @ \cup {mail[s][Lines]}]
       \/ UNCHANGED box
    /\ mail' = [mail EXCEPT ![s] = <<>>]
    /\ IF conn[s] = "up"
       THEN /\ toClient' = [toClient EXCEPT ![s] = Append(@, "prompt")]
            /\ sv' = [sv EXCEPT ![s] = "code"]
       ELSE sv' = [sv EXCEPT ![s] = "end"] /\ UNCHANGED toClient
    /\ UNCHANGED <<cl, conn, toServer, drops, email, typed, alive, global_vec, with, raced>>

\* A plausible bug: the code is compared with a global one.
SharedCode(s) == global_vec
Code(s) == s

\* Plausible bugs: a wrong code is not answered; key and parameters in one message.
NoAnswer(right) == IF right THEN <<"good", "key", "params">> ELSE <<>>
OneMessage(right) == IF right THEN <<"good", "key">> ELSE <<"wrong">>
Verdict(right) == IF right THEN <<"good", "key", "params">> ELSE <<"wrong">>

\* The code is read and answered, and the thread waits for the next address.
ReadCode(s) ==
    /\ sv[s] = "code" /\ toServer[s] # <<>>
    /\ sv' = [sv EXCEPT ![s] = "email"]
    /\ toServer' = [toServer EXCEPT ![s] = Tail(@)]
    /\ toClient' = [toClient EXCEPT ![s] = @ \o Verdict(Head(toServer[s]) = Code(s))]
    /\ UNCHANGED <<cl, conn, drops, email, typed, alive, mailvars>>

\* A read of a connection that is down throws and ends the thread.
SessionEnds(s) ==
    /\ sv[s] \in {"email", "code"} /\ conn[s] = "down"
    /\ sv' = [sv EXCEPT ![s] = "end"]
    /\ UNCHANGED <<cl, email, typed, alive, mailvars, netvars>>

\* The client's reads: the prompt, the verdict, the key and the parameters.
\* The last one and a wrong code are followed by a close.
Expected == [prompt |-> "typing", good |-> "key", key |-> "params", params |-> "done", wrong |-> "failed"]

ClientReads(s) ==
    /\ cl[s] \in {"prompt", "verdict", "key", "params"} /\ toClient[s] # <<>>
    /\ cl' = [cl EXCEPT ![s] = Expected[Head(toClient[s])]]
    /\ toClient' = [toClient EXCEPT ![s] = Tail(@)]
    /\ conn' = [conn EXCEPT ![s] = IF cl'[s] \in {"done", "failed"} THEN "down" ELSE @]
    /\ UNCHANGED <<sv, toServer, drops, email, typed, alive, mailvars>>

\* std::cin >> code: any code that was mailed, to whichever address, or none.
Mailed == UNION {box[u] : u \in Users}
Type(s) ==
    /\ cl[s] = "typing" /\ conn[s] = "up"
    /\ \E c \in Mailed \cup {Garbage} :
         /\ typed' = [typed EXCEPT ![s] = c]
         /\ toServer' = [toServer EXCEPT ![s] = Append(@, c)]
    /\ cl' = [cl EXCEPT ![s] = "verdict"]
    /\ UNCHANGED <<sv, conn, toClient, drops, email, alive, mailvars>>

\* Any use of a connection that is down throws; what was read is given up.
ClientFails(s) ==
    /\ cl[s] \in {"prompt", "typing", "verdict", "key", "params"} /\ conn[s] = "down"
    /\ cl' = [cl EXCEPT ![s] = "failed"]
    /\ UNCHANGED <<sv, email, typed, alive, mailvars, netvars>>

\* A connection breaks and what is in flight is lost.  Both ends come to notice:
\* the code sets no timeout, and relies on the operating system's.
Drop(s) ==
    /\ conn[s] = "up" /\ drops < MaxDrops
    /\ drops' = drops + 1
    /\ conn' = [conn EXCEPT ![s] = "down"]
    /\ toServer' = [toServer EXCEPT ![s] = <<>>] /\ toClient' = [toClient EXCEPT ![s] = <<>>]
    /\ UNCHANGED <<cl, sv, email, typed, alive, mailvars>>

\* After a race on global_vec the server process may die, with all its threads.
Die ==
    /\ alive /\ raced
    /\ alive' = FALSE
    /\ sv' = [s \in Sessions |-> IF sv[s] = "off" THEN "off" ELSE "end"]
    /\ conn' = [s \in Sessions |-> IF conn[s] = "up" THEN "down" ELSE conn[s]]
    /\ toServer' = [s \in Sessions |-> <<>>] /\ toClient' = [s \in Sessions |-> <<>>]
    /\ UNCHANGED <<cl, drops, email, typed, mailvars>>

do_session(s) ==
    \/ ReadEmail(s) \/ BeginAssign(s) \/ EndAssign(s) \/ PayloadSource(s) \/ Prompt(s)
    \/ ReadCode(s) \/ SessionEnds(s)
getkeysfrompkg(s) == ClientReads(s) \/ Type(s) \/ ClientFails(s)

Next ==
    \/ \E s \in Sessions : Connect(s) \/ do_session(s) \/ getkeysfrompkg(s) \/ Drop(s)
    \/ Die

\* The threads and clients run, mails are sent or fail, and users type something.
Spec == Init /\ [][Next]_vars
             /\ \A s \in Sessions : WF_vars(do_session(s)) /\ WF_vars(getkeysfrompkg(s))
-----------------------------------------------------------------------------
Messages == {"prompt", "good", "wrong", "key", "params"}

TypeOK ==
    /\ cl \in [Sessions -> {"off", "prompt", "typing", "verdict", "key", "params", "done", "failed"}]
    /\ sv \in [Sessions -> {"off", "email", "send", "assign", "perform", "code", "end"}]
    /\ conn \in [Sessions -> {"none", "up", "down"}]
    /\ toClient \in [Sessions -> Seq(Messages)]
    /\ toServer \in [Sessions -> Seq(Users \cup Sessions \cup {Garbage})]
    /\ mail \in [Sessions -> Seq(Sessions \cup {Garbage})]
    /\ \A s \in Sessions : Len(mail[s]) <= Lines
    /\ email \in [Sessions -> Users \cup {Garbage}]
    /\ global_vec \in Sessions \cup {Garbage} /\ typed \in [Sessions -> Sessions \cup {Garbage}]
    /\ box \in [Users -> SUBSET (Sessions \cup {Garbage})]
    /\ alive \in BOOLEAN /\ drops \in 0 .. MaxDrops
    /\ with \in [Sessions -> SUBSET Sessions] /\ raced \in BOOLEAN

\* email.cpp 43, "global vector this is TEMP": until threads race on it, every line
\* of a mail is the session's own, or of one that was mailing at the same time;
\* so that a session that mails alone mails its own code.
NoStaleMail == ~raced => \A s \in Sessions : \A k \in DOMAIN mail[s] : mail[s][k] \in {s} \cup with[s]

KeySent(s) == cl[s] \in {"key", "params", "done"} \/ \E k \in DOMAIN toClient[s] : toClient[s][k] = "key"

\* Whatever is mixed up in the mails and whichever mailed code a user pastes: keys
\* are sent only for the very code of the session, which is in some mailbox, and
\* until threads race on global_vec in that of its address or of one that was being
\* mailed to at the same time; for a session that mails alone, in its own address's.
KeyEarned ==
    \A s \in Sessions : KeySent(s) =>
      /\ typed[s] = s /\ s \in Mailed
      /\ ~raced => \E t \in Sessions : s \in {t} \cup with[t] /\ s \in box[email[t]]

\* Who pastes the right code gets both keys, unless the connection breaks or the
\* server dies.
RightCodeGetsKeys == \A s \in Sessions : typed[s] = s ~> cl[s] = "done" \/ drops > 0 \/ ~alive

\* Every session ends on both sides, also when mails fail and connections break.
EverySessionEnds ==
    \A s \in Sessions : cl[s] # "off" ~> cl[s] \in {"done", "failed"} /\ sv[s] = "end"
=============================================================================
