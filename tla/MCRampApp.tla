----------------------------- MODULE MCRampApp -----------------------------
(* Small instances of RampApp for TLC: "tab", a purchase and a sale, with a  *)
(* poll and another call in flight; "polls", a purchase with two polls; and  *)
(* "simulations", a purchase with two calls and no polls, of which nothing   *)
(* is expected to happen in the end.                                         *)
EXTENDS RampApp

CONSTANTS buy, sell, ana, beto

VARIABLE instance

AKind == [r \in Request |-> IF r = buy THEN "on_ramp" ELSE "off_ramp"]

AnOwner == [r \in Request |-> ana]

\* Of the slots 1 and 2 for calls, 3 and 4 for polls.
Unused(slots) == \A s \in slots : calls[s] = NoCall

NoSale == sell \notin issued /\ \A s \in Slot : calls[s].id # sell

WithinInstance ==
    CASE instance = "tab"         -> Unused({2, 4})
      [] instance = "polls"       -> Unused({2}) /\ NoSale
      [] instance = "simulations" -> Unused({3, 4}) /\ NoSale

AppInstances == RampAppInit /\ instance \in {"tab", "polls", "simulations"}

InstancesSpec ==
    /\ AppInstances
    /\ [][RampAppNext /\ UNCHANGED instance /\ WithinInstance']_<<requestVars, appVars, instance>>
    /\ PollFairness
=============================================================================
