------------------------------ MODULE MCSystem ------------------------------
(* Small instances of BOBTSystem for TLC: "day", in which the treasury mints *)
(* and burns up to its limits over two days, and "priced", in which prices   *)
(* move and others mint while two proposals are pending.                     *)
EXTENDS BOBTSystem, TLC

CONSTANTS ops, ana, token, treasury, oracle, r1, r2, r3

VARIABLE instance

\* ana signs alone.
AnaAlone == {[p \in Address |-> IF p = ana THEN 1 ELSE 0]}

OpsRoles == {<<"owner", ops>>, <<"pauser", ops>>}

TreasuryRoles == {<<"minter", treasury>>, <<"pauser", treasury>>}

NoGrants == {}

Agreed(ask, bid) == [e \in Exchange |-> [ask |-> ask, bid |-> bid]]

TwoPrices == {Agreed(2, 1), Agreed(3, 2)}

RefSymmetry == Permutations(RequestId)

\* The state the initialize calls, the role grants and the approved SetOracle
\* of a deployment lead to, with the first day's window open.
Deployed ==
    /\ initialized = TRUE /\ owner = ops /\ paused = FALSE
    /\ roles = OpsRoles \cup TreasuryRoles
    /\ total_supply = 0 /\ balances = [a \in Address |-> 0]
    /\ allowances = [p \in Address \X Address |-> NoAllowance]
    /\ frozen = {} /\ mint_requests = {} /\ burn_requests = {}
    /\ treasury_initialized = TRUE
    /\ signers \in AnaAlone /\ threshold = 1 /\ config_threshold = 1
    /\ oracle_address = oracle
    /\ proposal_count = 0 /\ proposals = <<>> /\ approvals = {}
    /\ daily_minted = 0 /\ daily_burned = 0 /\ last_reset_ledger = 0
    /\ oracle_admin = ops /\ operators = {}
    /\ exchange_price = [e \in Exchange |-> NoPrice] /\ aggregated = NoAggregate
    /\ sequence = 0 /\ now = 0

Orders(types) == {id \in 1..proposal_count : proposals[id].proposal_type \in types}

ReferencesUsed ==
    {proposals[id].external_ref : id \in Orders({"Mint", "Burn", "MintFromUsdt"})}
        \cup {r.external_ref : r \in mint_requests}

\* Two units are the limit of a day.
DayTerms ==
    /\ \A id \in Orders({"Mint", "Burn"}) : proposals[id].amount = DAILY_MINT_LIMIT
    /\ Orders({"SetOracle", "EmergencyPause"}) = {}
    /\ \A r \in mint_requests : r.minter = TreasuryContract

\* One reference for all, three ledgers, and an oracle its admin posts to.
PricedTerms ==
    /\ \A id \in Orders({"Mint", "Burn"}) : proposals[id].amount = 1
    /\ proposal_count <= 2
    /\ Cardinality(ReferencesUsed) <= 1
    /\ sequence <= 2
    /\ operators = {}

WithinInstance ==
    CASE instance = "day"    -> DayTerms' /\ UNCHANGED oracleVars
      [] instance = "priced" -> PricedTerms'

SystemInstances == Deployed /\ instance \in {"day", "priced"}

InstancesSpec ==
    /\ SystemInstances
    /\ [][SystemNext /\ WithinInstance /\ UNCHANGED instance]_<<systemVars, instance>>
=============================================================================
