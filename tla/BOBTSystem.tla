----------------------------- MODULE BOBTSystem -----------------------------
(***************************************************************************)
(* The three contracts as deployed together: the treasury executes approved *)
(* proposals by calling the token, and prices USDT deposits by calling the  *)
(* oracle.  A call between contracts is part of the caller's step, so the   *)
(* step is the conjunction of both contracts' actions, and happens only if  *)
(* the called contract accepts.                                             *)
(***************************************************************************)
EXTENDS BOBTToken, Treasury, Oracle

CONSTANT OracleContract     \* the oracle's own address

ASSUME SystemAssumption ==
    /\ OracleContract \in Address
    /\ TreasuryContract \notin Caller \cup {TokenContract}

systemVars == <<tokenVars, treasuryVars, oracleVars, now>>

SystemInit == TokenInit /\ TreasuryInit /\ OracleInit
-----------------------------------------------------------------------------
ElsewhereUnchanged == UNCHANGED <<oracleVars, now>>

PayMint(executor, id) ==
    LET p == proposals[id] IN
    /\ ExecuteMint(executor, id)
    /\ AdminMint(TreasuryContract, p.target, p.amount, p.external_ref)
    /\ ElsewhereUnchanged

PayBurn(executor, id) ==
    LET p == proposals[id] IN
    /\ ExecuteBurn(executor, id)
    /\ AdminBurn(TreasuryContract, p.target, p.amount, p.external_ref)
    /\ ElsewhereUnchanged

PauseToken(executor, id) ==
    /\ ExecuteEmergencyPause(executor, id)
    /\ Pause(TreasuryContract)
    /\ ElsewhereUnchanged

\* The oracle contract answers, and its price is fresh.
OracleAnswers == oracle_address = OracleContract /\ PriceValid

QuoteDeposit(proposer) ==
    /\ OracleAnswers
    /\ \E a \in Payee, usdt \in DepositedUsdt, ref \in RequestId :
          ProposeMintFromUsdt(proposer, a, usdt, ref, UsdtToBobt(usdt))
    /\ UNCHANGED tokenVars
    /\ ElsewhereUnchanged

\* Slip: the quote of the proposal is paid.
PayQuoted(executor, id) ==
    LET p == proposals[id] IN
    /\ OracleAnswers
    /\ ExecuteMintFromUsdt(executor, id, p.amount)
    /\ AdminMint(TreasuryContract, p.target, p.amount, p.external_ref)
    /\ ElsewhereUnchanged

PayDeposit(executor, id) ==
    LET p == proposals[id]
        bobt == UsdtToBobt(p.usdt_amount) IN
    /\ OracleAnswers
    /\ ExecuteMintFromUsdt(executor, id, bobt)
    /\ AdminMint(TreasuryContract, p.target, bobt, p.external_ref)
    /\ ElsewhereUnchanged

ContractCalls ==
    \E a \in Address :
        \/ QuoteDeposit(a)
        \/ \E id \in 1..proposal_count :
              PayMint(a, id) \/ PayBurn(a, id) \/ PauseToken(a, id) \/ PayDeposit(a, id)

TokenOnly == /\ TokenCall
             /\ UNCHANGED treasuryVars
             /\ ElsewhereUnchanged

TreasuryOnly == /\ TreasuryAlone
                /\ UNCHANGED tokenVars
                /\ ElsewhereUnchanged

OracleOnly == /\ OracleStep
              /\ UNCHANGED <<tokenVars, treasuryVars, now>>

\* One ledger closes for all of them.
NextLedger == /\ TokenCloseLedger
              /\ PassTime
              /\ UNCHANGED <<treasuryVars, oracleVars>>

SystemNext == ContractCalls \/ TokenOnly \/ TreasuryOnly \/ OracleOnly \/ NextLedger

SystemSpec == SystemInit /\ [][SystemNext]_systemVars
-----------------------------------------------------------------------------
Settled(types) == {id \in 1..proposal_count : /\ proposals[id].status = "Executed"
                                              /\ proposals[id].proposal_type \in types}

TreasuryMints == {r \in mint_requests : r.minter = TreasuryContract}
TreasuryBurns == {r \in burn_requests : r.operator = TreasuryContract}

\* The executed proposals a mint or a burn on the audit trail can stand for.
MintOrders(r) == {id \in Settled({"Mint", "MintFromUsdt"}) :
    /\ proposals[id].external_ref = r.external_ref
    /\ proposals[id].target = r.to
    /\ proposals[id].proposal_type = "Mint" => proposals[id].amount = r.amount}

BurnOrders(r) == {id \in Settled({"Burn"}) :
    /\ proposals[id].external_ref = r.external_ref
    /\ proposals[id].target = r.from
    /\ proposals[id].amount = r.amount}

(* The token's audit trail and the treasury's proposals tell one story:     *)
(* every mint and burn the treasury made answers to exactly one executed    *)
(* proposal with its terms, and no two executed proposals share one.        *)
TrailMatchesProposals ==
    /\ \A r \in TreasuryMints : Cardinality(MintOrders(r)) = 1
    /\ \A r \in TreasuryBurns : Cardinality(BurnOrders(r)) = 1
    /\ Cardinality(Settled({"Mint", "MintFromUsdt"})) = Cardinality(TreasuryMints)
    /\ Cardinality(Settled({"Burn"})) = Cardinality(TreasuryBurns)

Within(trail, first) ==
    Total([r \in {q \in trail : q.ledger \in first..first + ONE_DAY_LEDGERS - 1} |-> r.amount])

(* Whatever day-long stretch of ledgers one looks at, the treasury mints    *)
(* and burns at most twice the daily limit in it: resets are a day apart.   *)
TwiceTheLimitADay ==
    \A first \in 0..sequence :
        /\ Within(TreasuryMints, first) <= 2 * DAILY_MINT_LIMIT
        /\ Within(TreasuryBurns, first) <= 2 * DAILY_BURN_LIMIT

(* A USDT deposit is paid at the price of the moment it is executed, not    *)
(* the one it was proposed at: the mint on the trail is what that price     *)
(* makes of the deposit, less than one unit short and never above.          *)
DepositPaidAtPrice ==
    [][\A id \in Settled({"MintFromUsdt"})' \ Settled({"MintFromUsdt"}) :
          \E r \in TreasuryMints' \ TreasuryMints :
              LET worth == proposals[id].usdt_amount * aggregated.bid IN
              /\ now - aggregated.timestamp \in 0..MAX_PRICE_AGE_SECS
              /\ r.amount * ONE_UNIT <= worth
              /\ worth < (r.amount + 1) * ONE_UNIT
      ]_systemVars
=============================================================================
