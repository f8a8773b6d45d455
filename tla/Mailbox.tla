------------------------------- MODULE Mailbox -------------------------------
(***************************************************************************)
(* The mailbox node: the hand-off of NodeQueue, whose loop appends what it *)
(* copies out of msgtmp to the global vector outbox, together with the     *)
(* clients that poll it.  Nothing is ever removed from outbox; each        *)
(* DumpMessages call runs in a gRPC thread of its own, walks outbox with a *)
(* range-for and streams it to the client, which calls again until it has  *)
(* received something.  No lock is taken.                                  *)
(***************************************************************************)
EXTENDS NodeQueue

CONSTANT Clients     \* the clients polling this mailbox

VARIABLES
    outbox,    \* the shared vector
    dpc,       \* dpc[c]: where the client's call, or the client, is
    bgen,      \* the storage that begin() of c's call pointed into
    visited,   \* how many strings c's call has visited
    stop,      \* the end() of c's call
    data,      \* data[c]: mailreq.data, what the client has received
    killed,    \* TRUE once a dump that read freed storage ended the process
    atCall,    \* history: how many strings were stored when c's call began
    spoiled    \* history: outbox moved to new storage during c's calls

callVars == <<dpc, bgen, visited, stop, data, killed, atCall>>
mailboxVars == <<vars, outbox, callVars, spoiled>>

MailboxInit ==
    /\ Init
    /\ outbox = V!NoStrings
    /\ dpc = [c \in Clients |-> "call"]
    /\ bgen = [c \in Clients |-> 0]
    /\ visited = [c \in Clients |-> 0]
    /\ stop = [c \in Clients |-> 0]
    /\ data = [c \in Clients |-> <<>>]
    /\ killed = FALSE
    /\ atCall = [c \in Clients |-> 0]
    /\ spoiled = [c \in Clients |-> FALSE]

Up == alive /\ ~killed
Walking(c) == dpc[c] \in {"begin", "end", "walk"}
-----------------------------------------------------------------------------
\* The only writer of outbox is the main loop, so a reader can tell two steps
\* of a push_back apart only when storage moves.
PushBack(v, x) == IF V!IsFull(v) THEN V!Grow(v, v.fin, x)
                  ELSE V!StoreFinish(V!Build(v, v.fin + 1, x), v.fin + 1)

\* for(auto x : msgtmp){ outbox.push_back(x); }, one string of it.
Store ==
    /\ ~killed
    /\ Copy
    /\ outbox' = PushBack(outbox, taken'[Len(taken')])
    /\ spoiled' = [c \in Clients |->
                     spoiled[c] \/ (Walking(c) /\ outbox'.gen # outbox.gen)]
    /\ UNCHANGED callVars

Turn ==
    /\ ~killed
    /\ Poll \/ PollEnd \/ Clear
    /\ UNCHANGED <<outbox, callVars, spoiled>>

MainLoop == Store \/ Turn

Handler(h) ==
    /\ ~killed
    /\ PutMessages(h)
    /\ UNCHANGED <<outbox, callVars, spoiled>>

\* mailreq.DumpMessages() reaches the server, and if(!outbox.empty()) decides:
\* an empty outbox is answered with CANCELLED, and the client calls again.
Call(c) ==
    /\ Up /\ dpc[c] = "call"
    /\ outbox.fin # 0
    /\ dpc' = [dpc EXCEPT ![c] = "begin"]
    /\ atCall' = [atCall EXCEPT ![c] = outbox.fin]
    /\ UNCHANGED <<vars, outbox, bgen, visited, stop, data, killed, spoiled>>

\* for(auto x : outbox): begin() and then end() are read.
Begin(c) ==
    /\ Up /\ dpc[c] = "begin"
    /\ bgen' = [bgen EXCEPT ![c] = outbox.gen]
    /\ visited' = [visited EXCEPT ![c] = 0]
    /\ dpc' = [dpc EXCEPT ![c] = "end"]
    /\ UNCHANGED <<vars, outbox, stop, data, killed, atCall, spoiled>>

EndOneShort == outbox.fin - 1      \* a plausible bug: the loop stops one short
EndPosition == outbox.fin

End(c) ==
    /\ Up /\ dpc[c] = "end"
    /\ stop' = [stop EXCEPT ![c] = EndPosition]
    /\ dpc' = [dpc EXCEPT ![c] = "walk"]
    /\ UNCHANGED <<vars, outbox, bgen, visited, data, killed, atCall, spoiled>>

Dropped(c, x) == data[c]           \* a plausible bug: Read without push_back
Received(c, x) == Append(data[c], x)

\* One string is copied, written to the stream, read and kept by the client.
\* In storage freed meanwhile it is garbage, or the read kills the mailbox.
Walk(c) ==
    /\ Up /\ dpc[c] = "walk" /\ visited[c] < stop[c]
    /\ visited' = [visited EXCEPT ![c] = @ + 1]
    /\ IF bgen[c] = outbox.gen
         THEN /\ data' = [data EXCEPT ![c] = Received(c, V!Cell(outbox, visited[c] + 1))]
              /\ UNCHANGED killed
         ELSE /\ data' = [data EXCEPT ![c] = Received(c, Garbage)]
              /\ killed' \in BOOLEAN
    /\ UNCHANGED <<vars, outbox, dpc, bgen, stop, atCall, spoiled>>

\* The call ends, with OK or because the mailbox died under it; a client that
\* has received anything stops polling, another one calls again.
Finish(c) ==
    /\ Walking(c) /\ (~Up \/ (dpc[c] = "walk" /\ visited[c] = stop[c]))
    /\ dpc' = [dpc EXCEPT ![c] = IF data[c] = <<>> THEN "call" ELSE "done"]
    /\ UNCHANGED <<vars, outbox, bgen, visited, stop, data, killed, atCall, spoiled>>

DumpMessages(c) == Call(c) \/ Begin(c) \/ End(c) \/ Walk(c) \/ Finish(c)

MailboxNext ==
    \/ MainLoop
    \/ \E h \in Handlers : Handler(h)
    \/ \E c \in Clients : DumpMessages(c)

\* The main thread spins, every handler thread is scheduled again and again,
\* and every client keeps polling.
MailboxSpec ==
    /\ MailboxInit /\ [][MailboxNext]_mailboxVars
    /\ WF_mailboxVars(MainLoop)
    /\ \A h \in Handlers : WF_mailboxVars(Handler(h))
    /\ \A c \in Clients : WF_mailboxVars(DumpMessages(c))
-----------------------------------------------------------------------------
OutboxTypeOK ==
    /\ outbox \in V!Vector(Msg)
    /\ dpc \in [Clients -> {"call", "begin", "end", "walk", "done"}]
    /\ bgen \in [Clients -> Nat] /\ visited \in [Clients -> Nat]
    /\ stop \in [Clients -> Nat] /\ atCall \in [Clients -> Nat]
    /\ data \in [Clients -> Seq(Msg \cup {Garbage})]
    /\ killed \in BOOLEAN /\ spoiled \in [Clients -> BOOLEAN]
    /\ \A c \in Clients : dpc[c] = "walk" => stop[c] > 0

MailboxTypeOK == TypeOK /\ OutboxTypeOK

\* A dump during which outbox did not move is a snapshot: the client that ends
\* with it holds the strings in the order the mailbox took them from msgtmp,
\* from the first one on, and at least up to those stored when its call began;
\* only the death of the mailbox can cut the dump short, and still leaves a
\* prefix (DumpMessages, nodeserver.hpp 67-75, against mailbox.cpp 48-55).
CleanDumpIsSnapshot ==
    \A c \in Clients : dpc[c] = "done" /\ ~spoiled[c] =>
        /\ Up => Len(data[c]) >= atCall[c]
        /\ \E n \in 0 .. Len(taken) : data[c] = SubSeq(taken, 1, n)

\* The hand-off and the outbox together: a message PutMessages answered with
\* yes = true ends up in outbox, where every later dump finds it, unless a
\* race on msgtmp lost it or memory corruption ended the process.
Stored(x) == \E k \in 1 .. outbox.fin : V!Cell(outbox, k) = x
AnsweredIsStored ==
    \A x \in Msg : x \in acked ~> Stored(x) \/ raced \/ ~Up

\* Once the mailbox has stored a message, every polling client stops with some
\* message, unless memory corruption kills the mailbox.
EveryClientGetsMail ==
    \A c \in Clients : outbox.fin > 0 ~> (data[c] # <<>> /\ dpc[c] = "done") \/ ~Up
=============================================================================
