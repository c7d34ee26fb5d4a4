----------------------------- MODULE PriceProofs -----------------------------
(***************************************************************************)
(* What the oracle's average is worth: of any prices posted to the contract *)
(* (OracleSpec), and of those the price updater posts (UpdaterSpec), for    *)
(* any clocks, ages, limits and number of overlapping runs.                 *)
(***************************************************************************)
EXTENDS PriceUpdater, FiniteSetTheorems, TLAPS

LEMMA PriceConstants ==
    /\ MAX_PRICE_AGE_SECS \in Nat /\ MAX_PRICE_DEVIATION_BPS \in Nat /\ MaxNow \in Nat
    /\ ONE_UNIT \in Nat \ {0} /\ MIN_EXCHANGES_FOR_AGGREGATION \in Nat \ {0}
  BY OracleAssumption

(* A set of exchanges has as many elements as the sum of its ones. *)
LEMMA ExchangesCounted ==
    ASSUME NEW S \in SUBSET Exchange
    PROVE  Cardinality(S) = (IF "BINANCE" \in S THEN 1 ELSE 0)
                            + (IF "BYBIT" \in S THEN 1 ELSE 0)
                            + (IF "BITGET" \in S THEN 1 ELSE 0)
<1>1. ASSUME NEW T, IsFiniteSet(T), NEW x
      PROVE  /\ IsFiniteSet(T \ {x}) /\ Cardinality(T \ {x}) \in Nat
             /\ Cardinality(T) = Cardinality(T \ {x}) + (IF x \in T THEN 1 ELSE 0)
  <2>1. IsFiniteSet(T \ {x})
    BY <1>1, FS_Difference
  <2>2. Cardinality(T \ {x}) \in Nat /\ Cardinality(T) \in Nat
    BY <1>1, <2>1, FS_CardinalityType
  <2>3. CASE x \in T
    <3>1. Cardinality(T \ {x}) = Cardinality(T) - 1
      BY <1>1, <2>3, FS_RemoveElement
    <3> QED
      BY <2>1, <2>2, <2>3, <3>1
  <2>4. CASE x \notin T
    <3>1. Cardinality(T \ {x}) = Cardinality(T)
      <4>1. T \ {x} = T
        BY <2>4
      <4> QED
        BY <4>1, Zenon
    <3> QED
      BY <2>1, <2>2, <2>4, <3>1
  <2> QED
    BY <2>3, <2>4
<1>2. IsFiniteSet(S)
  <2>1. IsFiniteSet({}) /\ IsFiniteSet({"BINANCE"}) /\ IsFiniteSet({"BINANCE", "BYBIT"})
    <3>1. IsFiniteSet({}) /\ IsFiniteSet({"BINANCE"})
      BY FS_EmptySet, FS_Singleton
    <3>2. {"BINANCE", "BYBIT"} = {"BINANCE"} \cup {"BYBIT"}
      OBVIOUS
    <3> QED
      BY <3>1, <3>2, FS_AddElement
  <2>2. IsFiniteSet(Exchange)
    <3>1. Exchange = {"BINANCE", "BYBIT"} \cup {"BITGET"}
      BY DEF Exchange
    <3> QED
      BY <2>1, <3>1, FS_AddElement
  <2> QED
    BY <2>2, FS_Subset
<1> DEFINE T1 == S \ {"BINANCE"}
           T2 == T1 \ {"BYBIT"}
           T3 == T2 \ {"BITGET"}
<1>3. /\ IsFiniteSet(T1) /\ Cardinality(T1) \in Nat
      /\ Cardinality(S) = Cardinality(T1) + (IF "BINANCE" \in S THEN 1 ELSE 0)
  BY <1>1, <1>2
<1>4. /\ IsFiniteSet(T2) /\ Cardinality(T2) \in Nat
      /\ Cardinality(T1) = Cardinality(T2) + (IF "BYBIT" \in S THEN 1 ELSE 0)
  BY <1>1, <1>3
<1>5. /\ Cardinality(T3) \in Nat
      /\ Cardinality(T2) = Cardinality(T3) + (IF "BITGET" \in S THEN 1 ELSE 0)
  BY <1>1, <1>4
<1>6. Cardinality(T3) = 0
  <2>1. T3 = {}
    BY DEF Exchange
  <2> QED
    BY <2>1, FS_EmptySet
<1> HIDE DEF T1, T2, T3
<1> QED
  BY <1>3, <1>4, <1>5, <1>6

(* The average of some exchanges' values is no less than a bound on them all, *)
LEMMA AverageAtLeast ==
    ASSUME NEW S \in SUBSET Exchange, NEW k, k = Cardinality(S), k >= 1,
           NEW f \in [Exchange -> Int], NEW lo \in Int, \A e \in S : lo <= f[e]
    PROVE  SumOver(S, f) \div k \in Int /\ lo <= SumOver(S, f) \div k
<1> DEFINE s == SumOver(S, f)
<1>1. k \in {1, 2, 3} /\ s \in Int /\ k * lo <= s
  BY ExchangesCounted DEF SumOver, Exchange
<1> HIDE DEF s
<1>2. s \div k \in Int /\ lo <= s \div k
  <2>1. CASE k = 1
    BY <1>1, <2>1
  <2>2. CASE k = 2
    BY <1>1, <2>2
  <2>3. CASE k = 3
    BY <1>1, <2>3
  <2> QED
    BY <1>1, <2>1, <2>2, <2>3
<1> QED
  BY <1>2 DEF s

(* nor more than one,                                                       *)
LEMMA AverageAtMost ==
    ASSUME NEW S \in SUBSET Exchange, NEW k, k = Cardinality(S), k >= 1,
           NEW f \in [Exchange -> Int], NEW hi \in Int, \A e \in S : f[e] <= hi
    PROVE  SumOver(S, f) \div k \in Int /\ SumOver(S, f) \div k <= hi
<1> DEFINE s == SumOver(S, f)
<1>1. k \in {1, 2, 3} /\ s \in Int /\ s <= k * hi
  BY ExchangesCounted DEF SumOver, Exchange
<1> HIDE DEF s
<1>2. s \div k \in Int /\ s \div k <= hi
  <2>1. CASE k = 1
    BY <1>1, <2>1
  <2>2. CASE k = 2
    BY <1>1, <2>2
  <2>3. CASE k = 3
    BY <1>1, <2>3
  <2> QED
    BY <1>1, <2>1, <2>2, <2>3
<1> QED
  BY <1>2 DEF s

(* and the average of larger values is no smaller.                          *)
LEMMA AverageMonotone ==
    ASSUME NEW S \in SUBSET Exchange, NEW k, k = Cardinality(S), k >= 1,
           NEW f \in [Exchange -> Int], NEW g \in [Exchange -> Int],
           \A e \in S : f[e] <= g[e]
    PROVE  SumOver(S, f) \div k <= SumOver(S, g) \div k
<1> DEFINE s == SumOver(S, f)
           t == SumOver(S, g)
<1>1. k \in {1, 2, 3} /\ s \in Int /\ t \in Int /\ s <= t
  BY ExchangesCounted DEF SumOver, Exchange
<1> HIDE DEF s, t
<1>2. s \div k <= t \div k
  <2>1. CASE k = 1
    BY <1>1, <2>1
  <2>2. CASE k = 2
    BY <1>1, <2>2
  <2>3. CASE k = 3
    BY <1>1, <2>3
  <2> QED
    BY <1>1, <2>1, <2>2, <2>3
<1> QED
  BY <1>2 DEF s, t

(* The quotient is the largest number that times the divisor fits in. *)
LEMMA Quotient ==
    ASSUME NEW a \in Int, NEW b \in Nat, b > 0
    PROVE  /\ a \div b \in Int
           /\ b * (a \div b) <= a
           /\ \A c \in Int : a < b * (c + 1) => a \div b <= c
  OBVIOUS
-----------------------------------------------------------------------------
Price == [ask : Nat, bid : Nat, timestamp : Nat]

Aggregate == [ask : Nat, bid : Nat, timestamp : Nat, num_sources : 0..3]

\* An entry of the store is absent, or both its prices are positive.
Positive(price) == price = NoPrice \/ (price.ask > 0 /\ price.bid > 0)

AccessOK == oracle_admin \in Address \cup {NoAdmin} /\ operators \subseteq Address

PricesOK ==
    /\ now \in Nat
    /\ exchange_price \in [Exchange -> Price]
    /\ \A e \in Exchange : /\ exchange_price[e].timestamp <= now
                           /\ Positive(exchange_price[e])
    /\ aggregated \in Aggregate
    /\ aggregated.timestamp <= now
    /\ aggregated # NoAggregate =>
          /\ aggregated.num_sources >= MIN_EXCHANGES_FOR_AGGREGATION
          /\ aggregated.ask > 0 /\ aggregated.bid > 0

OracleInv == AccessOK /\ PricesOK

(* An average over enough fresh prices that are positive is positive too.   *)
LEMMA AverageType ==
    ASSUME now \in Nat, NEW prices \in [Exchange -> Price], \A e \in Exchange : Positive(prices[e]),
           Cardinality(FreshSources(prices)) >= MIN_EXCHANGES_FOR_AGGREGATION
    PROVE  /\ Average(prices) \in Aggregate
           /\ Average(prices).timestamp = now
           /\ Average(prices).num_sources >= MIN_EXCHANGES_FOR_AGGREGATION
           /\ Average(prices).ask > 0 /\ Average(prices).bid > 0
<1> DEFINE S == FreshSources(prices)
           asks == [e \in Exchange |-> prices[e].ask]
           bids == [e \in Exchange |-> prices[e].bid]
           ask == SumOver(S, asks) \div Cardinality(S)
           bid == SumOver(S, bids) \div Cardinality(S)
<1>1. S \in SUBSET Exchange /\ asks \in [Exchange -> Int] /\ bids \in [Exchange -> Int]
  BY DEF FreshSources, Price
<1>2. Cardinality(S) \in 1..3
  BY <1>1, ExchangesCounted, PriceConstants
<1>3. \A e \in S : 1 <= asks[e] /\ 1 <= bids[e]
  BY DEF FreshSources, Positive, Price
<1>4. ask \in Int /\ bid \in Int /\ 1 <= ask /\ 1 <= bid
  <2> HIDE DEF asks, bids, S
  <2> QED
    BY <1>1, <1>2, <1>3, AverageAtLeast
<1>5. Average(prices) = [ask |-> ask, bid |-> bid, timestamp |-> now,
                         num_sources |-> Cardinality(S)]
  BY DEF Average
<1> HIDE DEF ask, bid
<1> QED
  BY <1>2, <1>4, <1>5 DEF Aggregate

(* Storing prices that are absent or positive keeps the store in order. *)
LEMMA StoreKeepsPrices ==
    ASSUME PricesOK, NEW prices \in [Exchange -> Price], \A e \in Exchange : Positive(prices[e]),
           StorePrices(prices), UNCHANGED now
    PROVE  PricesOK'
<1>1. /\ exchange_price' = prices /\ \A e \in Exchange : prices[e].timestamp <= now
      /\ now \in Nat
  BY DEF StorePrices, PricesOK
<1>2. CASE Cardinality(FreshSources(prices)) < MIN_EXCHANGES_FOR_AGGREGATION
  BY <1>1, <1>2 DEF PricesOK, StorePrices
<1>3. CASE ~(Cardinality(FreshSources(prices)) < MIN_EXCHANGES_FOR_AGGREGATION)
  <2> PICK average : average = Average(prices)
    OBVIOUS
  <2>1. Cardinality(FreshSources(prices)) >= MIN_EXCHANGES_FOR_AGGREGATION
    <3>1. FreshSources(prices) \in SUBSET Exchange
      BY DEF FreshSources
    <3> QED
      BY <1>3, <3>1, ExchangesCounted, PriceConstants
  <2>2. aggregated' = average
    BY <1>3 DEF StorePrices
  <2>3. /\ average \in Aggregate /\ average.timestamp = now
        /\ average.num_sources >= MIN_EXCHANGES_FOR_AGGREGATION
        /\ average.ask > 0 /\ average.bid > 0
    BY <1>1, <2>1, AverageType
  <2> QED
    BY <1>1, <2>2, <2>3 DEF PricesOK
<1> QED
  BY <1>2, <1>3

LEMMA BatchKeepsPrices ==
    ASSUME PricesOK, UNCHANGED now, NEW a, NEW quotes \in [Exchange -> Quote], NEW t \in Nat,
           UpdatePricesBatch(a, quotes, t)
    PROVE  PricesOK' /\ UNCHANGED <<oracle_admin, operators>>
<1> DEFINE prices == [e \in Exchange |->
            IF quotes[e].ask > 0 /\ quotes[e].bid > 0
            THEN [ask |-> quotes[e].ask, bid |-> quotes[e].bid, timestamp |-> t]
            ELSE exchange_price[e]]
<1>1. StorePrices(prices)
  BY DEF UpdatePricesBatch
<1>2. prices \in [Exchange -> Price] /\ \A e \in Exchange : Positive(prices[e])
  BY DEF PricesOK, Price, Quote, Positive
<1> HIDE DEF prices
<1> QED
  BY <1>1, <1>2, StoreKeepsPrices DEF StorePrices

LEMMA UpdateKeepsPrices ==
    ASSUME PricesOK, UNCHANGED now, NEW a, NEW e \in Exchange,
           NEW ask \in Int, NEW bid \in Int, NEW t \in Nat, UpdatePrice(a, e, ask, bid, t)
    PROVE  PricesOK' /\ UNCHANGED <<oracle_admin, operators>>
<1> DEFINE prices == [exchange_price EXCEPT ![e] =
                        [ask |-> ask, bid |-> bid, timestamp |-> t]]
<1>1. StorePrices(prices) /\ ask > 0 /\ bid > 0
  BY DEF UpdatePrice
<1>2. prices \in [Exchange -> Price] /\ \A x \in Exchange : Positive(prices[x])
  BY <1>1 DEF PricesOK, Price, Positive
<1> HIDE DEF prices
<1> QED
  BY <1>1, <1>2, StoreKeepsPrices DEF StorePrices

LEMMA OracleInitInv == OracleInit => OracleInv
<1> SUFFICES ASSUME OracleInit PROVE OracleInv
  OBVIOUS
<1>1. NoPrice \in Price /\ NoAggregate \in Aggregate
      /\ NoPrice.timestamp = 0 /\ NoAggregate.timestamp = 0
  BY DEF NoPrice, NoAggregate, Price, Aggregate
<1>2. exchange_price \in [Exchange -> Price]
      /\ \A e \in Exchange : exchange_price[e] = NoPrice
  BY <1>1 DEF OracleInit
<1>3. now = 0 /\ aggregated = NoAggregate
  BY DEF OracleInit
<1>4. PricesOK
  BY <1>1, <1>2, <1>3 DEF PricesOK, Positive
<1> QED
  BY <1>4 DEF OracleInit, OracleInv, AccessOK

LEMMA OracleStepInv == OracleInv /\ [OracleNext]_<<oracleVars, now>> => OracleInv'
<1> SUFFICES ASSUME OracleInv, [OracleNext]_<<oracleVars, now>> PROVE OracleInv'
  OBVIOUS
<1> USE OracleAssumption DEF OracleInv
<1>1. CASE OracleStep /\ UNCHANGED now
  <2>1. ASSUME NEW a \in OracleAccount, NEW b \in OracleAccount,
               AddOperator(a, b) \/ RemoveOperator(a, b)
        PROVE  OracleInv'
    BY <1>1, <2>1 DEF AddOperator, RemoveOperator, AccessOK, PricesOK
  <2>2. ASSUME NEW a \in OracleAccount, NEW initial \in SUBSET OracleAccount,
               InitializeOracle(a, initial)
        PROVE  OracleInv'
    BY <1>1, <2>2 DEF InitializeOracle, AccessOK, PricesOK
  <2>3. ASSUME NEW a \in OracleAccount, NEW t \in PostedTimestamp, NEW e \in Exchange,
               NEW ask \in PostedPrice, NEW bid \in PostedPrice, UpdatePrice(a, e, ask, bid, t)
        PROVE  OracleInv'
    BY <1>1, <2>3, UpdateKeepsPrices DEF AccessOK
  <2>4. ASSUME NEW a \in OracleAccount, NEW t \in PostedTimestamp,
               NEW quotes \in BatchPrices, UpdatePricesBatch(a, quotes, t)
        PROVE  OracleInv'
    BY <1>1, <2>4, BatchKeepsPrices DEF AccessOK
  <2> QED
    BY <1>1, <2>1, <2>2, <2>3, <2>4 DEF OracleStep
<1>2. CASE PassTime /\ UNCHANGED oracleVars
  BY <1>2 DEF PassTime, oracleVars, AccessOK, PricesOK, Price, Aggregate
<1>3. CASE UNCHANGED <<oracleVars, now>>
  BY <1>3 DEF oracleVars, AccessOK, PricesOK
<1> QED
  BY <1>1, <1>2, <1>3 DEF OracleNext

(* The invariant of the oracle, whatever prices and batches are posted. *)
THEOREM OracleInvariant == OracleSpec => []OracleInv
  BY OracleInitInv, OracleStepInv, PTL DEF OracleSpec

(* Every oracle variable keeps its type, for any constants. *)
THEOREM OracleTypeCorrect == OracleSpec => []OracleTypeOK
<1>1. OracleInv => OracleTypeOK
  BY DEF OracleInv, AccessOK, PricesOK, OracleTypeOK, Price, Aggregate
<1> QED
  BY <1>1, OracleInvariant, PTL

(* update_price and update_prices_batch (lib.rs:115-261) store no date ahead *)
(* of the ledger, so the unsigned age that every later call computes never  *)
(* traps; and calculate_aggregated_price (storage.rs:185-243), whatever     *)
(* quotes are posted, half-empty and crossed ones included, stores an       *)
(* average of enough exchanges, neither side of which is rounded to zero.   *)
THEOREM OraclePricesComputable == OracleSpec => []PricesComputable
<1>1. OracleInv => PricesComputable
  BY DEF OracleInv, PricesOK, Positive, PricesComputable
<1> QED
  BY <1>1, OracleInvariant, PTL
-----------------------------------------------------------------------------
\* No price is sold for less than it is bought for.
Uncrossed(price) == price.bid <= price.ask

OrderOK == /\ \A e \in Exchange : Uncrossed(exchange_price[e])
           /\ Uncrossed(aggregated)

\* What the contract does not check of a batch, and its price updater does.
BatchesUncrossed ==
    \A quotes \in BatchPrices, e \in Exchange :
        quotes[e].ask > 0 /\ quotes[e].bid > 0 => quotes[e].bid <= quotes[e].ask

LEMMA StoreKeepsOrder ==
    ASSUME PricesOK, OrderOK, NEW prices \in [Exchange -> Price],
           \A e \in Exchange : Uncrossed(prices[e]), StorePrices(prices)
    PROVE  OrderOK'
<1> DEFINE S == FreshSources(prices)
           asks == [e \in Exchange |-> prices[e].ask]
           bids == [e \in Exchange |-> prices[e].bid]
<1>1. /\ S \in SUBSET Exchange /\ asks \in [Exchange -> Int] /\ bids \in [Exchange -> Int]
      /\ \A e \in S : bids[e] <= asks[e]
  BY DEF FreshSources, Price, Uncrossed
<1>2. CASE Cardinality(S) < MIN_EXCHANGES_FOR_AGGREGATION
  BY <1>2 DEF StorePrices, OrderOK, Uncrossed
<1>3. CASE ~(Cardinality(S) < MIN_EXCHANGES_FOR_AGGREGATION)
  <2>1. Cardinality(S) >= 1
    BY <1>1, <1>3, ExchangesCounted, PriceConstants
  <2>2. SumOver(S, bids) \div Cardinality(S) <= SumOver(S, asks) \div Cardinality(S)
    <3> HIDE DEF S, asks, bids
    <3> QED
      BY <1>1, <2>1, AverageMonotone
  <2>3. aggregated'.ask = SumOver(S, asks) \div Cardinality(S)
        /\ aggregated'.bid = SumOver(S, bids) \div Cardinality(S)
    BY <1>3 DEF StorePrices, Average
  <2>4. Uncrossed(aggregated')
    BY <2>2, <2>3 DEF Uncrossed
  <2> QED
    BY <2>4 DEF StorePrices, OrderOK, Uncrossed
<1> QED
  BY <1>2, <1>3

LEMMA BatchKeepsOrder ==
    ASSUME PricesOK, OrderOK, NEW a, NEW quotes \in [Exchange -> Quote], NEW t \in Nat,
           \A e \in Exchange : quotes[e].ask > 0 /\ quotes[e].bid > 0
                               => quotes[e].bid <= quotes[e].ask,
           UpdatePricesBatch(a, quotes, t)
    PROVE  OrderOK'
<1> DEFINE prices == [e \in Exchange |->
            IF quotes[e].ask > 0 /\ quotes[e].bid > 0
            THEN [ask |-> quotes[e].ask, bid |-> quotes[e].bid, timestamp |-> t]
            ELSE exchange_price[e]]
<1>1. StorePrices(prices)
  BY DEF UpdatePricesBatch
<1>2. prices \in [Exchange -> Price] /\ \A e \in Exchange : Uncrossed(prices[e])
  BY DEF PricesOK, OrderOK, Price, Quote, Uncrossed
<1> HIDE DEF prices
<1> QED
  BY <1>1, <1>2, StoreKeepsOrder

LEMMA UpdateKeepsOrder ==
    ASSUME PricesOK, OrderOK, NEW a, NEW e \in Exchange,
           NEW ask \in Int, NEW bid \in Int, NEW t \in Nat, UpdatePrice(a, e, ask, bid, t)
    PROVE  OrderOK'
<1> DEFINE prices == [exchange_price EXCEPT ![e] =
                        [ask |-> ask, bid |-> bid, timestamp |-> t]]
<1>1. StorePrices(prices) /\ ask > 0 /\ bid > 0 /\ bid <= ask
  BY DEF UpdatePrice
<1>2. prices \in [Exchange -> Price] /\ \A x \in Exchange : Uncrossed(prices[x])
  BY <1>1 DEF PricesOK, OrderOK, Price, Uncrossed
<1> HIDE DEF prices
<1> QED
  BY <1>1, <1>2, StoreKeepsOrder

LEMMA OrderStep ==
    ASSUME BatchesUncrossed
    PROVE  OracleInv /\ OrderOK /\ [OracleNext]_<<oracleVars, now>> => OrderOK'
<1> SUFFICES ASSUME OracleInv, OrderOK, [OracleNext]_<<oracleVars, now>> PROVE OrderOK'
  OBVIOUS
<1> USE OracleAssumption DEF OracleInv
<1>1. ASSUME UNCHANGED <<exchange_price, aggregated>> PROVE OrderOK'
  BY <1>1 DEF OrderOK
<1>2. CASE OracleStep
  <2>1. ASSUME NEW a \in OracleAccount, NEW t \in PostedTimestamp, NEW e \in Exchange,
               NEW ask \in PostedPrice, NEW bid \in PostedPrice, UpdatePrice(a, e, ask, bid, t)
        PROVE  OrderOK'
    BY <2>1, UpdateKeepsOrder
  <2>2. ASSUME NEW a \in OracleAccount, NEW t \in PostedTimestamp,
               NEW quotes \in BatchPrices, UpdatePricesBatch(a, quotes, t)
        PROVE  OrderOK'
    BY <2>2, BatchKeepsOrder DEF BatchesUncrossed
  <2>3. ASSUME NEW a \in OracleAccount,
               \/ \E initial \in SUBSET OracleAccount : InitializeOracle(a, initial)
               \/ \E b \in OracleAccount : AddOperator(a, b) \/ RemoveOperator(a, b)
        PROVE  OrderOK'
    BY <1>1, <2>3 DEF InitializeOracle, AddOperator, RemoveOperator
  <2> QED
    BY <1>2, <2>1, <2>2, <2>3 DEF OracleStep
<1>3. CASE UNCHANGED oracleVars
  BY <1>1, <1>3 DEF oracleVars
<1> QED
  BY <1>2, <1>3 DEF OracleNext

(* To BOBT at the bid and back at the ask: both roundings are downwards. *)
LEMMA RoundTrip ==
    ASSUME NEW ask \in Nat, NEW bid \in Nat, bid <= ask, ask > 0,
           NEW unit \in Nat, unit > 0, NEW usdt \in Nat
    PROVE  (((usdt * bid) \div unit) * unit) \div ask <= usdt
<1> PICK bobt : bobt = (usdt * bid) \div unit
  OBVIOUS
<1>1. usdt * bid \in Int /\ usdt * bid <= usdt * ask
  OBVIOUS
<1>2. bobt \in Int /\ unit * bobt <= usdt * bid
  BY <1>1, Quotient
<1>3. bobt * unit \in Int /\ bobt * unit <= usdt * ask
  BY <1>1, <1>2
<1>4. bobt * unit < ask * (usdt + 1)
  BY <1>3
<1>5. (bobt * unit) \div ask <= usdt
  BY <1>3, <1>4, Quotient
<1> QED
  BY <1>5

LEMMA OrderedNoGain == OracleInv /\ OrderOK => NoRoundTripGain
<1> SUFFICES ASSUME OracleInv, OrderOK, PriceValid, NEW usdt \in 0..3 * ONE_UNIT
             PROVE  BobtToUsdt(UsdtToBobt(usdt)) <= usdt
  BY DEF NoRoundTripGain
<1>1. /\ aggregated.ask \in Nat /\ aggregated.bid \in Nat /\ aggregated.ask > 0
      /\ aggregated.bid <= aggregated.ask
  BY DEF PriceValid, OracleInv, PricesOK, Aggregate, OrderOK, Uncrossed
<1>2. ONE_UNIT \in Nat /\ ONE_UNIT > 0 /\ usdt \in Nat
  BY PriceConstants
<1> QED
  BY <1>1, <1>2, RoundTrip DEF BobtToUsdt, UsdtToBobt

(* usdt_to_bobt and bobt_to_usdt (lib.rs:326-361): while no crossed batch is *)
(* posted, changing USDT to BOBT and back gains nothing, at any prices and  *)
(* with both roundings.  Without the premise it fails: update_prices_batch  *)
(* compares no ask with its bid.                                            *)
THEOREM OracleNoRoundTripGain ==
    ASSUME BatchesUncrossed PROVE OracleSpec => []NoRoundTripGain
<1>1. OracleInit => OrderOK
  BY DEF OracleInit, OrderOK, Uncrossed, NoPrice, NoAggregate
<1>2. OracleInv /\ OrderOK /\ [OracleNext]_<<oracleVars, now>> => OrderOK'
  BY OrderStep
<1> QED
  BY <1>1, <1>2, OrderedNoGain, OracleInvariant, PTL DEF OracleSpec
-----------------------------------------------------------------------------
Stage == {"idle", "authorizing", "fetching", "loading", "simulating", "sending", "polling",
          "ended"}

Batch == [quotes : [Exchange -> [ask : Nat, bid : Nat]],
          timestamp : Nat, sequence : Nat, until : Nat]

\* What the script believes of a quote it posts (criptoya.ts:87), and so of
\* every price in the oracle.
InRange(q) == LowestPrice <= q.bid /\ q.bid <= q.ask /\ q.ask <= HighestPrice

Report == {"none", "success", "failed"}

\* Answers it kept and batches it built hold such quotes or none, and a batch
\* is no longer good than the timeout from its date.
ScriptOK ==
    /\ stage \in [Run -> Stage]
    /\ fetched \in [Run -> [Exchange -> Answer]]
    /\ \A r \in Run, e \in Exchange :
          fetched[r][e].ask > 0 /\ fetched[r][e].bid > 0 => InRange(fetched[r][e])
    /\ batch \in [Run -> Batch]
    /\ \A r \in Run, e \in Exchange :
          batch[r].quotes[e].ask > 0 /\ batch[r].quotes[e].bid > 0
            => InRange(batch[r].quotes[e])
    /\ \A r \in Run : batch[r].until <= batch[r].timestamp + TIMEOUT_SECONDS
    /\ report \in [Run -> Report]

ChainOK == /\ tx \in [Run -> {"none", "held", "stored", "refused"}]
           /\ account_sequence \in Nat

RangeOK == /\ \A e \in Exchange : exchange_price[e] = NoPrice \/ InRange(exchange_price[e])
           /\ aggregated = NoAggregate \/ InRange(aggregated)

\* A batch that the account's sequence number still lets through is dated no
\* earlier than any price it could replace.
SequenceOK ==
    \A r \in Run :
        /\ batch[r].sequence <= account_sequence + 1
        /\ batch[r].sequence = account_sequence + 1 =>
             \A e \in Exchange : exchange_price[e].timestamp <= batch[r].timestamp

UpdaterInv == OracleInv /\ ScriptOK /\ ChainOK /\ RangeOK /\ SequenceOK

LEMMA UpdaterConstants ==
    /\ LowestPrice \in Nat /\ HighestPrice \in Nat /\ LowestPrice > 0
    /\ Answers \subseteq [Exchange -> Answer] /\ ClockLead \subseteq Nat
    /\ TIMEOUT_SECONDS \in Nat /\ Operator \in Address
  BY UpdaterAssumption
-----------------------------------------------------------------------------
(* The average of prices in range is in range. *)
LEMMA StoreKeepsRange ==
    ASSUME PricesOK, RangeOK, NEW prices \in [Exchange -> Price],
           \A e \in Exchange : prices[e] = NoPrice \/ InRange(prices[e]), StorePrices(prices)
    PROVE  RangeOK'
<1> DEFINE S == FreshSources(prices)
           asks == [e \in Exchange |-> prices[e].ask]
           bids == [e \in Exchange |-> prices[e].bid]
<1>1. /\ S \in SUBSET Exchange /\ asks \in [Exchange -> Int] /\ bids \in [Exchange -> Int]
      /\ \A e \in S : LowestPrice <= bids[e] /\ bids[e] <= asks[e] /\ asks[e] <= HighestPrice
  BY DEF FreshSources, Price, InRange
<1>2. CASE Cardinality(S) < MIN_EXCHANGES_FOR_AGGREGATION
  BY <1>2 DEF StorePrices, RangeOK
<1>3. CASE ~(Cardinality(S) < MIN_EXCHANGES_FOR_AGGREGATION)
  <2>1. Cardinality(S) >= 1
    BY <1>1, <1>3, ExchangesCounted, PriceConstants
  <2>2. /\ LowestPrice <= SumOver(S, bids) \div Cardinality(S)
        /\ SumOver(S, bids) \div Cardinality(S) <= SumOver(S, asks) \div Cardinality(S)
        /\ SumOver(S, asks) \div Cardinality(S) <= HighestPrice
    <3> HIDE DEF S, asks, bids
    <3> LowestPrice \in Int /\ HighestPrice \in Int
      BY UpdaterConstants
    <3> QED
      BY <1>1, <2>1, AverageAtLeast, AverageAtMost, AverageMonotone
  <2>3. aggregated'.ask = SumOver(S, asks) \div Cardinality(S)
        /\ aggregated'.bid = SumOver(S, bids) \div Cardinality(S)
    BY <1>3 DEF StorePrices, Average
  <2>4. InRange(aggregated')
    BY <2>2, <2>3 DEF InRange
  <2> QED
    BY <2>4 DEF StorePrices, RangeOK
<1> QED
  BY <1>2, <1>3

(* The latest time of the answers kept is one of them. *)
LEMMA LatestTimeType ==
    ASSUME NEW kept \in [Exchange -> Answer] PROVE LatestTime(kept) \in Nat
<1>1. \E x \in Exchange : \A e \in Exchange : kept[e].time <= kept[x].time
  <2>1. /\ kept["BINANCE"].time \in Nat /\ kept["BYBIT"].time \in Nat
        /\ kept["BITGET"].time \in Nat
    BY DEF Exchange, Answer
  <2> QED
    BY <2>1 DEF Exchange
<1>2. \E t \in {kept[e].time : e \in Exchange} : \A e \in Exchange : kept[e].time <= t
  BY <1>1
<1>3. LatestTime(kept) \in {kept[e].time : e \in Exchange}
  BY <1>2 DEF LatestTime
<1> QED
  BY <1>3 DEF Answer

(* A batch is dated by the script's clock or later. *)
LEMMA DateOfBatchLate ==
    ASSUME NEW kept \in [Exchange -> Answer], NEW clock \in Nat
    PROVE  DateOfBatch(kept, clock) \in Nat /\ DateOfBatch(kept, clock) >= clock
  BY LatestTimeType DEF DateOfBatch
-----------------------------------------------------------------------------
LEMMA FetchKeepsScript ==
    ASSUME UpdaterInv, NEW r \in Run, FetchAllPrices(r)
    PROVE  ScriptOK'
<1>1. PICK answers \in Answers :
        LET kept == [e \in Exchange |-> IF Sane(answers[e]) THEN answers[e] ELSE Nothing]
            enough == Cardinality({e \in Exchange : kept[e] # Nothing}) >= MIN_EXCHANGES IN
        /\ \/ /\ enough
              /\ GoesOn(r, "fetching", "loading")
              /\ fetched' = [fetched EXCEPT ![r] = kept]
              /\ UNCHANGED report
           \/ ~enough /\ Ends(r, "fetching", "failed") /\ UNCHANGED fetched
        /\ UNCHANGED <<batch, polls, chain>>
  BY DEF FetchAllPrices
<1> DEFINE kept == [e \in Exchange |-> IF Sane(answers[e]) THEN answers[e] ELSE Nothing]
<1>2. /\ kept \in [Exchange -> Answer]
      /\ \A e \in Exchange : kept[e].ask > 0 /\ kept[e].bid > 0 => InRange(kept[e])
  BY UpdaterConstants DEF Sane, Nothing, Answer, InRange
<1>3. /\ fetched' \in {fetched, [fetched EXCEPT ![r] = kept]}
      /\ UNCHANGED batch
      /\ \E to \in Stage : stage' = [stage EXCEPT ![r] = to]
      /\ report' \in {report, [report EXCEPT ![r] = "failed"]}
  <2> HIDE DEF kept
  <2> QED
    BY <1>1 DEF kept, GoesOn, Ends, Stage
<1> HIDE DEF kept
<1> QED
  BY <1>2, <1>3 DEF UpdaterInv, ScriptOK, Report

LEMMA BuildKeepsScript ==
    ASSUME UpdaterInv, NEW r \in Run, NEW lead \in ClockLead,
           GoesOn(r, "loading", "simulating"),
           batch' = [batch EXCEPT ![r] =
                [quotes    |-> [e \in Exchange |-> [ask |-> fetched[r][e].ask,
                                                    bid |-> fetched[r][e].bid]],
                 timestamp |-> DateOfBatch(fetched[r], now + lead),
                 sequence  |-> account_sequence + 1,
                 until     |-> now + lead + TIMEOUT_SECONDS]],
           fetched' = [fetched EXCEPT ![r] = NoAnswers],
           UNCHANGED <<polls, report, chain, oracleVars, now>>
    PROVE  ScriptOK' /\ SequenceOK'
<1> DEFINE new == [quotes    |-> [e \in Exchange |-> [ask |-> fetched[r][e].ask,
                                                      bid |-> fetched[r][e].bid]],
                   timestamp |-> DateOfBatch(fetched[r], now + lead),
                   sequence  |-> account_sequence + 1,
                   until     |-> now + lead + TIMEOUT_SECONDS]
<1>1. now \in Nat /\ lead \in Nat /\ fetched[r] \in [Exchange -> Answer]
      /\ account_sequence \in Nat
  BY UpdaterConstants DEF UpdaterInv, OracleInv, PricesOK, ScriptOK, ChainOK
<1>2. /\ DateOfBatch(fetched[r], now + lead) \in Nat
      /\ DateOfBatch(fetched[r], now + lead) >= now + lead
      /\ DateOfBatch(fetched[r], now + lead) >= now
  <2>1. now + lead \in Nat /\ now + lead >= now
    BY <1>1
  <2> QED
    BY <1>1, <2>1, DateOfBatchLate
<1>3. /\ new \in Batch
      /\ \A e \in Exchange : new.quotes[e].ask > 0 /\ new.quotes[e].bid > 0
                               => InRange(new.quotes[e])
      /\ new.sequence = account_sequence + 1 /\ new.timestamp >= now
      /\ new.until <= new.timestamp + TIMEOUT_SECONDS
  <2>1. new.quotes \in [Exchange -> [ask : Nat, bid : Nat]]
    BY <1>1 DEF Answer
  <2>2. new \in Batch
    BY <1>1, <1>2, <2>1, UpdaterConstants DEF Batch
  <2>3. \A e \in Exchange : new.quotes[e].ask > 0 /\ new.quotes[e].bid > 0
                               => InRange(new.quotes[e])
    BY <1>1 DEF UpdaterInv, ScriptOK, InRange
  <2>4. new.until <= new.timestamp + TIMEOUT_SECONDS
    BY <1>1, <1>2, UpdaterConstants
  <2> QED
    BY <1>2, <2>2, <2>3, <2>4
<1> HIDE DEF new
<1>4. batch' = [batch EXCEPT ![r] = new]
  BY DEF new
<1>5. NoAnswers \in [Exchange -> Answer] /\ \A e \in Exchange : NoAnswers[e].ask = 0
  BY DEF NoAnswers, Nothing, Answer
<1>6. ScriptOK'
  <2>1. /\ batch' \in [Run -> Batch]
        /\ \A q \in Run, e \in Exchange : batch'[q].quotes[e].ask > 0 /\ batch'[q].quotes[e].bid > 0
               => InRange(batch'[q].quotes[e])
        /\ \A q \in Run : batch'[q].until <= batch'[q].timestamp + TIMEOUT_SECONDS
    BY <1>3, <1>4 DEF UpdaterInv, ScriptOK
  <2>2. fetched' \in [Run -> [Exchange -> Answer]]
        /\ \A q \in Run, e \in Exchange :
               fetched'[q][e].ask > 0 /\ fetched'[q][e].bid > 0 => InRange(fetched'[q][e])
    BY <1>5 DEF UpdaterInv, ScriptOK
  <2> QED
    BY <2>1, <2>2 DEF UpdaterInv, ScriptOK, GoesOn, Stage
<1>7. SequenceOK'
  <2> SUFFICES ASSUME NEW q \in Run
               PROVE  /\ batch'[q].sequence <= account_sequence + 1
                      /\ batch'[q].sequence = account_sequence + 1 =>
                           \A e \in Exchange : exchange_price[e].timestamp <= batch'[q].timestamp
    BY DEF SequenceOK, chain, oracleVars
  <2>1. CASE q = r
    <3>1. batch'[q] = new
      BY <1>4, <2>1 DEF UpdaterInv, ScriptOK
    <3>2. \A e \in Exchange : exchange_price[e].timestamp \in Nat
                              /\ exchange_price[e].timestamp <= now
      BY DEF UpdaterInv, OracleInv, PricesOK, Price
    <3> QED
      BY <1>1, <1>3, <3>1, <3>2 DEF Batch
  <2>2. CASE q # r
    BY <1>4, <2>2 DEF UpdaterInv, ScriptOK, SequenceOK
  <2> QED
    BY <2>1, <2>2
<1> QED
  BY <1>6, <1>7

(* A step of a run that leaves its answers and batch as they are. *)
LEMMA MoveKeepsScript ==
    ASSUME ScriptOK, NEW r \in Run, UNCHANGED <<fetched, batch>>,
           \/ UNCHANGED stage
           \/ \E to \in Stage : stage' = [stage EXCEPT ![r] = to],
           \/ UNCHANGED report
           \/ \E said \in Report : report' = [report EXCEPT ![r] = said]
    PROVE  ScriptOK'
<1>1. stage' \in [Run -> Stage]
  BY DEF ScriptOK
<1>2. report' \in [Run -> Report]
  BY DEF ScriptOK
<1> QED
  BY <1>1, <1>2 DEF ScriptOK

(* What one step of a run does to the variables the invariant is about. *)
LEMMA RunMoves ==
    ASSUME UpdaterInv, NEW r \in Run,
           RunStep(r) \/ Start(r) \/ Kill(r)
    PROVE  /\ \/ UNCHANGED stage
              \/ \E to \in Stage : stage' = [stage EXCEPT ![r] = to]
           /\ \/ UNCHANGED report
              \/ \E said \in Report : report' = [report EXCEPT ![r] = said]
           /\ UNCHANGED tx \/ tx' = [tx EXCEPT ![r] = "held"]
           /\ UNCHANGED account_sequence
<1> USE DEF GoesOn, Ends, chain, Stage, Report
<1>1. CASE CheckOperatorStatus(r)
  BY <1>1 DEF CheckOperatorStatus
<1>2. CASE FetchAllPrices(r)
  <2>1. /\ stage[r] = "fetching"
        /\ \/ GoesOn(r, "fetching", "loading") /\ UNCHANGED report
           \/ Ends(r, "fetching", "failed")
        /\ UNCHANGED chain
    BY <1>2 DEF FetchAllPrices
  <2> QED
    BY <2>1
<1>3. CASE BuildBatch(r)
  BY <1>3 DEF BuildBatch
<1>4. CASE Simulate(r)
  BY <1>4 DEF Simulate
<1>5. CASE SendTransaction(r)
  BY <1>5 DEF SendTransaction
<1>6. CASE PollAgain(r)
  BY <1>6 DEF PollAgain
<1>7. CASE PollSettled(r)
  BY <1>7 DEF PollSettled
<1>8. CASE GiveUpPolling(r)
  BY <1>8 DEF GiveUpPolling
<1>9. CASE Start(r)
  BY <1>9 DEF Start
<1>10. CASE Kill(r)
  BY <1>10 DEF Kill
<1> QED
  BY <1>1, <1>2, <1>3, <1>4, <1>5, <1>6, <1>7, <1>8, <1>9, <1>10 DEF RunStep

LEMMA RunKeepsChain ==
    ASSUME UpdaterInv, NEW r \in Run, RunStep(r) \/ Start(r) \/ Kill(r)
    PROVE  ChainOK'
  BY RunMoves DEF UpdaterInv, ChainOK

LEMMA RunKeepsScript ==
    ASSUME UpdaterInv, NEW r \in Run, RunStep(r) \/ Start(r) \/ Kill(r),
           UNCHANGED <<oracleVars, now>>
    PROVE  ScriptOK' /\ SequenceOK'
<1> USE DEF UpdaterInv
<1>1. ASSUME UNCHANGED <<fetched, batch>> PROVE ScriptOK' /\ SequenceOK'
  <2>1. SequenceOK'
    BY <1>1, RunMoves DEF SequenceOK, oracleVars
  <2>2. ScriptOK'
    BY <1>1, RunMoves, MoveKeepsScript
  <2> QED
    BY <2>1, <2>2
<1>2. CASE FetchAllPrices(r)
  <2>1. UNCHANGED batch /\ UNCHANGED account_sequence
    BY <1>2 DEF FetchAllPrices, chain
  <2>2. SequenceOK'
    BY <2>1 DEF SequenceOK, oracleVars
  <2> QED
    BY <1>2, <2>2, FetchKeepsScript
<1>3. CASE BuildBatch(r)
  <2>1. CASE Ends(r, "loading", "failed") /\ UNCHANGED <<fetched, batch, polls, chain>>
    BY <1>1, <2>1
  <2>2. CASE ~(Ends(r, "loading", "failed") /\ UNCHANGED <<fetched, batch, polls, chain>>)
    BY <1>3, <2>2, BuildKeepsScript DEF BuildBatch
  <2> QED
    BY <2>1, <2>2
<1>4. CASE CheckOperatorStatus(r) \/ Simulate(r) \/ SendTransaction(r) \/ PollAgain(r)
             \/ PollSettled(r) \/ GiveUpPolling(r) \/ Start(r) \/ Kill(r)
  BY <1>1, <1>4 DEF CheckOperatorStatus, Simulate, SendTransaction, PollAgain, PollSettled,
                    GiveUpPolling, Start, Kill
<1> QED
  BY <1>2, <1>3, <1>4 DEF RunStep
-----------------------------------------------------------------------------
\* No exchange's price is replaced by one dated earlier.
Forward == \A e \in Exchange : exchange_price'[e].timestamp >= exchange_price[e].timestamp

\* A price is stored within the timeout of its date.
Timely == \A e \in Exchange : exchange_price'[e] # exchange_price[e] =>
             now <= exchange_price'[e].timestamp + TIMEOUT_SECONDS

(* Applying a batch uses up the account's sequence number: no other batch     *)
(* built on it can be applied any more.                                     *)
LEMMA ApplyMoves ==
    ASSUME UpdaterInv, NEW r \in Run, Apply(r), UNCHANGED <<script, now>>
    PROVE  /\ OracleInv' /\ RangeOK' /\ ChainOK' /\ SequenceOK'
           /\ Forward /\ Timely
<1> USE DEF UpdaterInv
<1> PICK quotes, t : quotes = batch[r].quotes /\ t = batch[r].timestamp
  OBVIOUS
<1>1. /\ batch[r] \in Batch /\ quotes \in [Exchange -> Quote] /\ t \in Nat
      /\ \A e \in Exchange : quotes[e].ask > 0 /\ quotes[e].bid > 0 => InRange(quotes[e])
  BY DEF ScriptOK, Batch, Quote
<1>2. /\ tx[r] = "held" /\ batch[r].sequence = account_sequence + 1
      /\ account_sequence' = account_sequence + 1 /\ account_sequence \in Nat
      /\ UNCHANGED <<stage, batch, report>>
      /\ tx' = [tx EXCEPT ![r] = "stored"] \/ tx' = [tx EXCEPT ![r] = "refused"]
  BY DEF Apply, ChainOK, script
<1>3. ChainOK'
  BY <1>2 DEF ChainOK
<1>4. now <= t + TIMEOUT_SECONDS
  BY <1>1, UpdaterConstants DEF Apply, ScriptOK, Batch, OracleInv, PricesOK
<1>5. SequenceOK'
  <2> SUFFICES ASSUME NEW q \in Run
               PROVE  batch[q].sequence < account_sequence + 1 + 1
    BY <1>2 DEF SequenceOK, ScriptOK, Batch
  <2> QED
    BY <1>2 DEF SequenceOK, ScriptOK, Batch
<1>6. CASE UNCHANGED oracleVars
  <2>1. OracleInv' /\ RangeOK'
    BY <1>6 DEF OracleInv, oracleVars, AccessOK, PricesOK, RangeOK
  <2>2. Forward /\ Timely
    BY <1>6 DEF oracleVars, OracleInv, PricesOK, Price, Forward, Timely
  <2> QED
    BY <1>3, <1>5, <2>1, <2>2
<1>7. CASE UpdatePricesBatch(Operator, quotes, t)
  <2> DEFINE prices == [e \in Exchange |->
                IF quotes[e].ask > 0 /\ quotes[e].bid > 0
                THEN [ask |-> quotes[e].ask, bid |-> quotes[e].bid, timestamp |-> t]
                ELSE exchange_price[e]]
  <2>1. StorePrices(prices)
    BY <1>7 DEF UpdatePricesBatch
  <2>2. prices \in [Exchange -> Price]
    BY <1>1 DEF OracleInv, PricesOK, Price, Quote
  <2>3. \A e \in Exchange : prices[e] = NoPrice \/ InRange(prices[e])
    BY <1>1 DEF RangeOK, InRange
  <2>4. \A e \in Exchange : /\ prices[e].timestamp >= exchange_price[e].timestamp
                            /\ prices[e] # exchange_price[e] => prices[e].timestamp = t
    BY <1>1, <1>2 DEF SequenceOK, OracleInv, PricesOK, Price
  <2>5. OracleInv'
    BY <1>1, <1>7, BatchKeepsPrices DEF OracleInv, AccessOK
  <2> HIDE DEF prices
  <2>6. RangeOK'
    BY <2>1, <2>2, <2>3, StoreKeepsRange DEF OracleInv
  <2>7. Forward /\ Timely
    BY <1>4, <2>1, <2>4 DEF StorePrices, Forward, Timely
  <2> QED
    BY <1>3, <1>5, <2>5, <2>6, <2>7
<1> QED
  BY <1>6, <1>7 DEF Apply

LEMMA UpdaterInitInv == UpdaterInit => UpdaterInv
<1> SUFFICES ASSUME UpdaterInit PROVE UpdaterInv
  OBVIOUS
<1>1. OracleInv
  BY OracleInitInv DEF UpdaterInit
<1>2. /\ NoAnswers \in [Exchange -> Answer] /\ \A e \in Exchange : NoAnswers[e].ask = 0
      /\ NoBatch \in Batch /\ \A e \in Exchange : NoBatch.quotes[e].ask = 0
      /\ NoBatch.sequence = 0
  BY DEF NoAnswers, Nothing, Answer, NoBatch, Batch
<1>3. ScriptOK
  <2>1. fetched = [r \in Run |-> NoAnswers] /\ batch = [r \in Run |-> NoBatch]
    BY DEF UpdaterInit
  <2>2. stage \in [Run -> Stage] /\ report \in [Run -> Report]
    BY DEF UpdaterInit, Stage, Report
  <2>3. NoBatch.until <= NoBatch.timestamp + TIMEOUT_SECONDS
    BY UpdaterConstants DEF NoBatch
  <2> QED
    BY <1>2, <2>1, <2>2, <2>3 DEF ScriptOK
<1>4. ChainOK
  BY DEF UpdaterInit, ChainOK
<1>5. RangeOK
  BY DEF UpdaterInit, OracleInit, RangeOK
<1>6. SequenceOK
  BY <1>2 DEF UpdaterInit, SequenceOK
<1> QED
  BY <1>1, <1>3, <1>4, <1>5, <1>6 DEF UpdaterInv

LEMMA OthersKeepUpdater ==
    ASSUME UpdaterInv, UNCHANGED <<script, chain, exchange_price, aggregated>>, OracleInv'
    PROVE  UpdaterInv'
<1>1. ScriptOK'
  BY DEF UpdaterInv, ScriptOK, script
<1>2. ChainOK'
  BY DEF UpdaterInv, ChainOK, chain
<1>3. RangeOK' /\ SequenceOK'
  BY DEF UpdaterInv, RangeOK, SequenceOK, script, chain
<1> QED
  BY <1>1, <1>2, <1>3 DEF UpdaterInv

LEMMA UpdaterStep == UpdaterInv /\ [UpdaterNext]_updaterVars => UpdaterInv' /\ Forward /\ Timely
<1> SUFFICES ASSUME UpdaterInv, [UpdaterNext]_updaterVars PROVE UpdaterInv' /\ Forward /\ Timely
  OBVIOUS
<1> USE DEF UpdaterInv
<1>1. ASSUME UNCHANGED exchange_price PROVE Forward /\ Timely
  BY <1>1 DEF Forward, Timely, OracleInv, PricesOK, Price
<1>2. ASSUME UNCHANGED <<oracleVars, now>> PROVE OracleInv' /\ RangeOK' /\ Forward /\ Timely
  BY <1>1, <1>2 DEF OracleInv, oracleVars, AccessOK, PricesOK, RangeOK
<1>3. ASSUME NEW r \in Run, RunStep(r) \/ Start(r) \/ Kill(r), UNCHANGED <<oracleVars, now>>
      PROVE  UpdaterInv' /\ Forward /\ Timely
  BY <1>2, <1>3, RunKeepsChain, RunKeepsScript
<1>4. ASSUME NEW r \in Run, Apply(r), UNCHANGED <<script, now>>
      PROVE  UpdaterInv' /\ Forward /\ Timely
  <2>1. ScriptOK'
    BY <1>4 DEF ScriptOK, script
  <2> QED
    BY <1>4, <2>1, ApplyMoves
<1>5. CASE (SetUp \/ Govern) /\ UNCHANGED <<script, chain, now>>
  <2>1. UNCHANGED <<exchange_price, aggregated>>
    BY <1>5 DEF SetUp, Govern, InitializeOracle, AddOperator, RemoveOperator
  <2>2. OracleInv'
    <3>1. AccessOK'
      BY <1>5, OracleAssumption, UpdaterConstants
         DEF SetUp, Govern, InitializeOracle, AddOperator, RemoveOperator, OracleInv, AccessOK
    <3> QED
      BY <1>5, <2>1, <3>1 DEF OracleInv, PricesOK
  <2> QED
    BY <1>1, <1>5, <2>1, <2>2, OthersKeepUpdater
<1>6. CASE PassTime /\ UNCHANGED <<script, chain, oracleVars>>
  <2>1. OracleInv'
    <3>1. [OracleNext]_<<oracleVars, now>>
      BY <1>6 DEF OracleNext
    <3> QED
      BY <3>1, OracleStepInv
  <2> QED
    BY <1>1, <1>6, <2>1, OthersKeepUpdater DEF oracleVars
<1>7. CASE UNCHANGED updaterVars
  BY <1>2, <1>7, OthersKeepUpdater DEF updaterVars, oracleVars
<1>8. CASE \E r \in Run : \/ RunStep(r)
                          \/ (Start(r) \/ Kill(r)) /\ UNCHANGED <<oracleVars, now>>
                          \/ Apply(r) /\ UNCHANGED <<script, now>>
  <2>1. \A r \in Run : RunStep(r) => UNCHANGED <<oracleVars, now>>
    BY DEF RunStep
  <2> QED
    BY <1>3, <1>4, <1>8, <2>1
<1> QED
  BY <1>5, <1>6, <1>7, <1>8 DEF UpdaterNext

(* The strengthened invariant of the updater and the oracle together. *)
THEOREM UpdaterInvariant == UpdaterSpec => []UpdaterInv
<1>1. UpdaterInv /\ [UpdaterNext]_updaterVars => UpdaterInv'
  BY UpdaterStep
<1> QED
  BY <1>1, UpdaterInitInv, PTL DEF UpdaterSpec

(* fetchExchangePrice (criptoya.ts:54-110): with the updater alone posting,  *)
(* the average is uncrossed and in the script's range, which the contract   *)
(* asks of no batch, however runs overlap, fail or are killed.              *)
THEOREM UpdaterAverageSane == UpdaterSpec => []AverageSane
<1>1. UpdaterInv => AverageSane
  BY DEF UpdaterInv, RangeOK, InRange, AverageSane
<1> QED
  BY <1>1, UpdaterInvariant, PTL

(* Then nobody gains by converting to and fro, with no premise on batches. *)
THEOREM UpdaterNoRoundTripGain == UpdaterSpec => []NoRoundTripGain
<1>1. UpdaterInv => OrderOK
  BY DEF UpdaterInv, RangeOK, InRange, OrderOK, Uncrossed, NoPrice, NoAggregate
<1>2. UpdaterInv => NoRoundTripGain
  BY <1>1, OrderedNoGain DEF UpdaterInv
<1> QED
  BY <1>2, UpdaterInvariant, PTL

(* update_prices_batch (lib.rs:192) compares no dates and late or overlapping *)
(* runs apply in any order; sequence numbers and the trap on a date ahead of *)
(* the ledger keep every exchange's date from going back.                   *)
THEOREM UpdaterDatesForward == UpdaterSpec => DatesForward
<1>1. UpdaterInv /\ [UpdaterNext]_updaterVars => [Forward]_updaterVars
  BY UpdaterStep
<1> QED
  BY <1>1, UpdaterInvariant, PTL DEF UpdaterSpec, DatesForward, Forward

(* updateOraclePrices (stellar.ts:74-108, 168): a batch enters the oracle    *)
(* within the transaction's timeout of its date or never, however late its  *)
(* transaction is, also when its run was killed or had long said "success". *)
THEOREM UpdaterPricesArriveInTime == UpdaterSpec => PricesArriveInTime
<1>1. UpdaterInv /\ [UpdaterNext]_updaterVars => [Timely]_updaterVars
  BY UpdaterStep
<1> QED
  BY <1>1, UpdaterInvariant, PTL DEF UpdaterSpec, PricesArriveInTime, Timely
=============================================================================
