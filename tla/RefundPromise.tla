--------------------------- MODULE RefundPromise ---------------------------
(***************************************************************************)
(* What the refund pipeline promises to the customer and to the operator:  *)
(* the provider decides a refund once, the platform may be working on it   *)
(* or ask a human to look at it, and once it says that a refund succeeded  *)
(* or failed this is what the provider decided, for ever.                  *)
(***************************************************************************)
CONSTANT Ops

VARIABLES
  decided,  \* what the provider has decided about each refund
  told      \* what the platform says about it

Outcomes == {"succeeded", "failed"}

Init ==
  /\ decided = [o \in Ops |-> "open"]
  /\ told = [o \in Ops |-> "nothing"]

Ask(o) ==
  /\ told[o] = "nothing"
  /\ told' = [told EXCEPT ![o] = "working"]
  /\ UNCHANGED decided

Decide(o) ==
  /\ told[o] # "nothing"
  /\ decided[o] = "open"
  /\ \E d \in Outcomes : decided' = [decided EXCEPT ![o] = d]
  /\ UNCHANGED told

Report(o) ==
  /\ decided[o] \in Outcomes
  /\ told[o] \in {"working", "attention"}
  /\ told' = [told EXCEPT ![o] = decided[o]]
  /\ UNCHANGED decided

Escalate(o) ==
  /\ told[o] = "working"
  /\ told' = [told EXCEPT ![o] = "attention"]
  /\ UNCHANGED decided

Resume(o) ==
  /\ told[o] = "attention"
  /\ told' = [told EXCEPT ![o] = "working"]
  /\ UNCHANGED decided

Next ==
  \E o \in Ops : Ask(o) \/ Decide(o) \/ Report(o) \/ Escalate(o) \/ Resume(o)

Spec == Init /\ [][Next]_<<decided, told>>

=============================================================================
