------------------------------ MODULE MCToken ------------------------------
(* Small instances of BOBTToken for TLC: "funds", three accounts and any mix *)
(* of roles for one of them, without allowances; "expiry", two accounts and  *)
(* allowances over three ledgers, without roles; "guarded", the two and      *)
(* allowances, with an administrator who pauses, freezes and claws back.     *)
EXTENDS BOBTToken, TLC

CONSTANTS alice, bob, ops, r1, r2

VARIABLE instance

\* ops administers and mints; alice and bob hold funds.
AllRoles == {<<"minter", ops>>, <<"pauser", ops>>, <<"blklst", ops>>}

\* Callers may pass any i128; the contract has to refuse the non-positive ones.
SignedAmounts == {-1, 1, 2}

HolderSymmetry == Permutations({alice, bob}) \cup Permutations({r1, r2})

\* One mint, and what the two holders do with it.
TwoHolders ==
    /\ balances[ops] = 0
    /\ \A a \in Address : allowances[<<a, ops>>] = NoAllowance /\ allowances[<<ops, a>>] = NoAllowance
    /\ ops \notin frozen
    /\ Cardinality(mint_requests) <= 1 /\ burn_requests = {}

TokenInstances ==
    /\ instance \in {"funds", "expiry", "guarded"}
    /\ IF instance = "guarded"
       THEN /\ initialized = TRUE /\ owner = ops /\ roles = {<<"pauser", ops>>, <<"blklst", ops>>}
            /\ paused = FALSE /\ total_supply = 0 /\ balances = [a \in Address |-> 0]
            /\ allowances = [p \in Address \X Address |-> NoAllowance]
            /\ frozen = {} /\ mint_requests = {} /\ burn_requests = {} /\ sequence = 0
       ELSE TokenInit

WithinInstance ==
    CASE instance = "funds"   -> owner' \in {NoOwner, ops} /\ UNCHANGED <<allowances, sequence>>
      [] instance = "expiry"  -> TwoHolders' /\ AllRoles \cap roles' = {} /\ owner' # ops
      [] instance = "guarded" -> TwoHolders' /\ UNCHANGED <<control, sequence>>

InstancesSpec ==
    TokenInstances /\ [][TokenNext /\ WithinInstance /\ UNCHANGED instance]_<<tokenVars, instance>>
=============================================================================
