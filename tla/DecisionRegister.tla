-------------------------- MODULE DecisionRegister --------------------------
(***************************************************************************)
(* What the review of cases promises, whoever works on a case and whatever *)
(* fails on the way: a case is decided at most once, the decision never    *)
(* changes, and the customer hears of it at most once, only after it was   *)
(* recorded, and hears what was recorded.                                  *)
(***************************************************************************)
CONSTANTS Case, None

Decision == {"approved", "rejected"}

VARIABLES decision, announced

vars == <<decision, announced>>

Init == /\ decision = [c \in Case |-> None]
        /\ announced = [c \in Case |-> None]

Decide(c) == /\ decision[c] = None
             /\ \E d \in Decision : decision' = [decision EXCEPT ![c] = d]
             /\ UNCHANGED announced

Announce(c) == /\ decision[c] # None /\ announced[c] = None
               /\ announced' = [announced EXCEPT ![c] = decision[c]]
               /\ UNCHANGED decision

Next == \E c \in Case : Decide(c) \/ Announce(c)

Spec == Init /\ [][Next]_vars
=============================================================================
