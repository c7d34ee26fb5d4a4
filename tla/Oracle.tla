------------------------------- MODULE Oracle -------------------------------
(***************************************************************************)
(* The price oracle contract (contracts/oracle): operators post P2P prices  *)
(* of three exchanges, the contract averages the ones that are fresh, and   *)
(* conversions use the average while it is fresh itself.  A rejected call   *)
(* is no step.  Prices are integers in units of 1/ONE_UNIT.                  *)
(***************************************************************************)
EXTENDS Integers, Accounts

CONSTANTS
    NoAdmin,
    MAX_PRICE_AGE_SECS, MAX_PRICE_DEVIATION_BPS, ONE_UNIT,
    MIN_EXCHANGES_FOR_AGGREGATION,
    MaxNow,             \* bound: the last timestamp of a checked behaviour
    \* What callers pass:
    Elapsed,            \* the seconds between two ledgers
    OracleAccount,      \* the accounts that may become admin or operators
    PostedPrice,        \* asks and bids of update_price
    BatchPrices,        \* the prices of an update_prices_batch, by exchange
    PostedTimestamp

Exchange == {"BINANCE", "BYBIT", "BITGET"}

Quote == [ask : Int, bid : Int]

ASSUME OracleAssumption ==
    /\ NoAdmin \notin Address
    /\ OracleAccount \subseteq Address
    /\ {MAX_PRICE_AGE_SECS, MAX_PRICE_DEVIATION_BPS, MaxNow} \subseteq Nat
    /\ ONE_UNIT \in Nat \ {0}
    /\ MIN_EXCHANGES_FOR_AGGREGATION \in Nat \ {0}
    /\ Elapsed \subseteq Nat
    /\ PostedPrice \subseteq Int
    /\ BatchPrices \subseteq [Exchange -> Quote]
    /\ PostedTimestamp \subseteq Nat

VARIABLES
    oracle_admin, operators,
    exchange_price,     \* the last price posted for each exchange
    aggregated,         \* the last average stored
    now                 \* the timestamp of the current ledger

oracleVars == <<oracle_admin, operators, exchange_price, aggregated>>

\* Stored prices are positive, so a zero ask stands for an absent entry.
NoPrice     == [ask |-> 0, bid |-> 0, timestamp |-> 0]
NoAggregate == [ask |-> 0, bid |-> 0, timestamp |-> 0, num_sources |-> 0]

OracleInit ==
    /\ oracle_admin = NoAdmin
    /\ operators = {}
    /\ exchange_price = [e \in Exchange |-> NoPrice]
    /\ aggregated = NoAggregate
    /\ now = 0
-----------------------------------------------------------------------------
InitializeOracle(admin, initial) ==
    /\ oracle_admin = NoAdmin
    /\ oracle_admin' = admin
    /\ operators' = initial
    /\ UNCHANGED <<exchange_price, aggregated>>

\* The admin is an operator too.
IsOperator(a) == a = oracle_admin \/ a \in operators

FreshSources(prices) ==
    {e \in Exchange : prices[e] # NoPrice /\ now - prices[e].timestamp <= MAX_PRICE_AGE_SECS}

SumOver(S, f) == LET n(e) == IF e \in S THEN f[e] ELSE 0 IN
                 n("BINANCE") + n("BYBIT") + n("BITGET")

\* Slip: ask and bid are exchanged.
AverageSwapped(prices) ==
    LET S == FreshSources(prices)
        k == Cardinality(S) IN
    [ask |-> SumOver(S, [e \in Exchange |-> prices[e].bid]) \div k,
     bid |-> SumOver(S, [e \in Exchange |-> prices[e].ask]) \div k,
     timestamp |-> now,
     num_sources |-> k]

\* The simple average of the fresh prices, dated now whatever their dates.
Average(prices) ==
    LET S == FreshSources(prices)
        k == Cardinality(S) IN
    [ask |-> SumOver(S, [e \in Exchange |-> prices[e].ask]) \div k,
     bid |-> SumOver(S, [e \in Exchange |-> prices[e].bid]) \div k,
     timestamp |-> now,
     num_sources |-> k]

\* Slip: a date ahead of the ledger is taken as fresh.
StoreAnyDate(prices) ==
    /\ exchange_price' = prices
    /\ aggregated' = IF Cardinality(FreshSources(prices)) < MIN_EXCHANGES_FOR_AGGREGATION
                     THEN aggregated ELSE Average(prices)
    /\ UNCHANGED <<oracle_admin, operators>>

\* Stores the prices and, with enough fresh sources, their average.  Ages are
\* unsigned: a price dated after the ledger makes the subtraction trap.
StorePrices(prices) ==
    /\ \A e \in Exchange : prices[e].timestamp <= now
    /\ exchange_price' = prices
    /\ aggregated' = IF Cardinality(FreshSources(prices)) < MIN_EXCHANGES_FOR_AGGREGATION
                     THEN aggregated ELSE Average(prices)
    /\ UNCHANGED <<oracle_admin, operators>>

WithinDeviation(new, reference) ==
    LET distance == IF new > reference THEN new - reference ELSE reference - new IN
    reference # 0 => (distance * 10000) \div reference <= MAX_PRICE_DEVIATION_BPS

\* Slip: only the ask has to be positive.
UpdateAnyBid(operator, e, ask, bid, timestamp) ==
    /\ IsOperator(operator)
    /\ ask > 0
    /\ ask >= bid
    /\ WithinDeviation(ask, aggregated.ask)
    /\ StorePrices([exchange_price EXCEPT ![e] =
            [ask |-> ask, bid |-> bid, timestamp |-> timestamp]])

\* The reference is the stored average, a stale one included.
UpdatePrice(operator, e, ask, bid, timestamp) ==
    /\ IsOperator(operator)
    /\ ask > 0 /\ bid > 0
    /\ ask >= bid
    /\ WithinDeviation(ask, aggregated.ask)
    /\ StorePrices([exchange_price EXCEPT ![e] =
            [ask |-> ask, bid |-> bid, timestamp |-> timestamp]])

\* Slip: an entry is skipped only when both its prices are missing.
UpdateHalfQuotes(operator, quotes, timestamp) ==
    /\ IsOperator(operator)
    /\ StorePrices([e \in Exchange |->
            IF quotes[e].ask > 0 \/ quotes[e].bid > 0
            THEN [ask |-> quotes[e].ask, bid |-> quotes[e].bid, timestamp |-> timestamp]
            ELSE exchange_price[e]])

\* Entries without two positive prices are skipped; nothing else is asked.
UpdatePricesBatch(operator, quotes, timestamp) ==
    /\ IsOperator(operator)
    /\ StorePrices([e \in Exchange |->
            IF quotes[e].ask > 0 /\ quotes[e].bid > 0
            THEN [ask |-> quotes[e].ask, bid |-> quotes[e].bid, timestamp |-> timestamp]
            ELSE exchange_price[e]])

AddOperator(admin, new) ==
    /\ admin = oracle_admin
    /\ new \notin operators
    /\ operators' = operators \cup {new}
    /\ UNCHANGED <<oracle_admin, exchange_price, aggregated>>

RemoveOperator(admin, old) ==
    /\ admin = oracle_admin
    /\ old \in operators
    /\ operators' = operators \ {old}
    /\ UNCHANGED <<oracle_admin, exchange_price, aggregated>>
-----------------------------------------------------------------------------
\* get_price answers: an average is stored and is not stale.
PriceValid == /\ aggregated # NoAggregate
              /\ now - aggregated.timestamp <= MAX_PRICE_AGE_SECS

UsdtToBobt(usdt) == (usdt * aggregated.bid) \div ONE_UNIT

BobtToUsdt(bobt) == (bobt * ONE_UNIT) \div aggregated.ask
-----------------------------------------------------------------------------
OracleStep ==
    \E a \in OracleAccount :
        \/ \E initial \in SUBSET OracleAccount : InitializeOracle(a, initial)
        \/ \E b \in OracleAccount : AddOperator(a, b) \/ RemoveOperator(a, b)
        \/ \E t \in PostedTimestamp :
             \/ \E e \in Exchange, ask, bid \in PostedPrice : UpdatePrice(a, e, ask, bid, t)
             \/ \E quotes \in BatchPrices : UpdatePricesBatch(a, quotes, t)

PassTime == \E n \in Elapsed : now + n <= MaxNow /\ now' = now + n

OracleNext == \/ OracleStep /\ UNCHANGED now
              \/ PassTime /\ UNCHANGED oracleVars

OracleSpec == OracleInit /\ [][OracleNext]_<<oracleVars, now>>
-----------------------------------------------------------------------------
OracleTypeOK ==
    /\ oracle_admin \in Address \cup {NoAdmin}
    /\ operators \subseteq Address
    /\ exchange_price \in [Exchange -> [ask : Nat, bid : Nat, timestamp : Nat]]
    /\ aggregated \in [ask : Nat, bid : Nat, timestamp : Nat, num_sources : 0..3]
    /\ now \in Nat

(* What every later call computes of what is stored is defined: no date is  *)
(* ahead of the ledger's, so no unsigned age traps; and an average rests on *)
(* enough exchanges and on prices that exist, so that dividing by its ask,  *)
(* and converting at its bid, does not trap or come to nothing.             *)
PricesComputable ==
    /\ \A e \in Exchange : exchange_price[e].timestamp <= now
    /\ aggregated.timestamp <= now
    /\ aggregated # NoAggregate =>
           /\ aggregated.num_sources >= MIN_EXCHANGES_FOR_AGGREGATION
           /\ aggregated.ask > 0 /\ aggregated.bid > 0
           /\ \A e \in Exchange : exchange_price[e] # NoPrice => exchange_price[e].bid > 0

(* Converting USDT to BOBT and back never yields more than was put in.      *)
NoRoundTripGain ==
    PriceValid => \A usdt \in 0..3 * ONE_UNIT : BobtToUsdt(UsdtToBobt(usdt)) <= usdt
=============================================================================
