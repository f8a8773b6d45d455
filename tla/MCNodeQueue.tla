---------------------------- MODULE MCNodeQueue ----------------------------
(* Two streams at once, the first long enough for msgtmp to grow twice. *)
EXTENDS NodeQueue, TLC

CONSTANTS h1, h2, a, b, c, d

TwoFeeds == h1 :> <<a, b, c>> @@ h2 :> <<d>>
=============================================================================
