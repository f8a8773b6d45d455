------------------------------ MODULE Delivery ------------------------------
(***************************************************************************)
(* What the network of mixers promises for a client's message: it is       *)
(* submitted once, reaches the mailbox at most once and never after it was *)
(* lost, and it does not stay under way for ever.  Nothing is promised     *)
(* about losses: no component of Zephyr acknowledges or repeats a message. *)
(***************************************************************************)
CONSTANT Msg
VARIABLE status     \* status[m]: unsent, transit, delivered or lost

Init == status = [m \in Msg |-> "unsent"]

Submit(m) ==
    /\ status[m] = "unsent"
    /\ status' = [status EXCEPT ![m] = "transit"]

\* A mailbox takes what has reached it together.
Deliver(S) ==
    /\ \A m \in S : status[m] = "transit"
    /\ status' = [m \in Msg |-> IF m \in S THEN "delivered" ELSE status[m]]

\* A node that dies takes all it holds with it.
Lose(S) ==
    /\ \A m \in S : status[m] \in {"transit", "delivered"}
    /\ status' = [m \in Msg |-> IF m \in S THEN "lost" ELSE status[m]]

Settle(m) == \E S \in SUBSET Msg : m \in S /\ status[m] = "transit" /\ (Deliver(S) \/ Lose(S))

Next ==
    \/ \E m \in Msg : Submit(m)
    \/ \E S \in (SUBSET Msg) \ {{}} : Deliver(S) \/ Lose(S)

Spec == Init /\ [][Next]_status /\ \A m \in Msg : WF_status(Settle(m))
=============================================================================
