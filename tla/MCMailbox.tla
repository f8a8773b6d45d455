------------------------------ MODULE MCMailbox ------------------------------
(* Two streams at once into a mailbox that a client polls: the first long   *)
(* enough for msgtmp and outbox to grow twice.                              *)
EXTENDS Mailbox, TLC

CONSTANTS h1, h2, a, b, d

TwoFeeds == h1 :> <<a, b>> @@ h2 :> <<d>>
=============================================================================
