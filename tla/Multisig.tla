------------------------------ MODULE Multisig ------------------------------
(***************************************************************************)
(* What a treasury run by M-of-N proposals promises.  Members open motions   *)
(* and vote on them, each member once a motion; a motion is decided once,   *)
(* on the votes it has collected, or withdrawn by one of its voters; one    *)
(* that has lapsed can only be withdrawn, and never comes back; the         *)
(* membership and what counts as enough votes change only by the decision   *)
(* of a motion.                                                             *)
(***************************************************************************)
CONSTANTS Person, Motion

VARIABLES founded, members,
          enough,       \* the sets of voters that can decide a motion
          votes, outcome,
          lapsed        \* the motions whose time is over

charter == <<founded, members, enough>>
motions == <<votes, outcome, lapsed>>

Enough == SUBSET SUBSET Person

MultisigInit ==
    /\ founded = FALSE
    /\ members = {}
    /\ enough \in Enough
    /\ votes = [m \in Motion |-> {}]
    /\ outcome = [m \in Motion |-> "unopened"]
    /\ lapsed = {}

Found == /\ ~founded
         /\ founded' = TRUE
         /\ members' \in SUBSET Person
         /\ enough' \in Enough
         /\ UNCHANGED motions

Open(p, m) == /\ p \in members
              /\ outcome[m] = "unopened"
              /\ outcome' = [outcome EXCEPT ![m] = "open"]
              /\ votes' = [votes EXCEPT ![m] = {p}]
              /\ UNCHANGED <<charter, lapsed>>

Alive(m) == outcome[m] = "open" /\ m \notin lapsed

Vote(p, m) == /\ p \in members \ votes[m]
              /\ Alive(m)
              /\ votes' = [votes EXCEPT ![m] = @ \cup {p}]
              /\ UNCHANGED <<charter, outcome, lapsed>>

Withdraw(p, m) == /\ p \in votes[m]
                  /\ outcome[m] = "open"
                  /\ outcome' = [outcome EXCEPT ![m] = "withdrawn"]
                  /\ UNCHANGED <<charter, votes, lapsed>>

Decide(p, m) == /\ p \in members
                /\ Alive(m)
                /\ votes[m] \in enough
                /\ outcome' = [outcome EXCEPT ![m] = "decided"]
                /\ members' \in SUBSET Person
                /\ enough' \in Enough
                /\ UNCHANGED <<founded, votes, lapsed>>

\* Time passes for any of the motions there are.
Lapse == /\ lapsed \subseteq lapsed'
         /\ lapsed' \subseteq {m \in Motion : outcome[m] # "unopened"}
         /\ UNCHANGED <<charter, votes, outcome>>

MultisigNext ==
    \/ Found
    \/ Lapse
    \/ \E p \in Person, m \in Motion :
          Open(p, m) \/ Vote(p, m) \/ Withdraw(p, m) \/ Decide(p, m)

MultisigSpec == MultisigInit /\ [][MultisigNext]_<<charter, motions>>
=============================================================================
