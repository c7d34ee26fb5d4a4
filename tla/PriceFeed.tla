----------------------------- MODULE PriceFeed -----------------------------
(***************************************************************************)
(* Prices on their way to the screen: the exchange route of the ramp        *)
(* service and of the web application with its cache, which the second has  *)
(* on top of the fetch cache of Next; the rate service of the ramp with its *)
(* own; and what the pages make of the answers: the exchange panel          *)
(* (useCryptoYaPrices), the price card (useOraclePrice) and the chart with  *)
(* its history in the browser's storage (usePriceHistory).  A price is the  *)
(* time it was taken at.                                                    *)
(***************************************************************************)
EXTENDS Integers, FiniteSets, SequencesExt

CONSTANTS
    CacheTtl,           \* PRICE_CACHE_TTL_MS
    Revalidate,         \* the age from which Next fetches anew what it keeps
    RateTtl,            \* cacheDuration of the rate service
    PointGap,           \* least time between points of the chart
    Day,
    MaxPoints,          \* MAX_HISTORY_POINTS
    Handler,            \* requests of the exchange route under way at once
    Panel, Card,        \* those among them that the panel and the card await
    MaxNow              \* the bound of the clock

ASSUME PriceFeedAssumption ==
    /\ {CacheTtl, Revalidate, RateTtl, PointGap, Day, MaxPoints} \subseteq Nat \ {0}
    /\ MaxNow \in Nat
    /\ {Panel, Card} \subseteq Handler

Never == -1
Time == 0..MaxNow

VARIABLES
    clock,
    route,              \* whose route is asked: "service" or "web"
    priceCache,         \* of the route: how its prices are dated, when they were taken
    fetchCache,         \* of Next: when the answer it keeps was taken
    revalidating,       \* since when Next waits for another
    fetching,           \* since when a request waits, and for what Next keeps, if anything
    panel, card,        \* the prices on show
    lastFetch,          \* of the rate service: when it read the oracle
    quoted,             \* the last price told by the rate service
    history, storedHistory

routeVars == <<route, priceCache, fetchCache, revalidating, fetching>>
shownVars == <<panel, card>>
rateVars == <<lastFetch, quoted>>
chartVars == <<history, storedHistory>>
priceVars == <<clock, routeVars, shownVars, rateVars, chartVars>>

\* What a caller is told: prices as old as that when he asked, held for valid or not.
Told(age, isValid) == [age |-> age, isValid |-> isValid]
Nothing == Told(0, FALSE)

NoPrices == [dated |-> Never, taken |-> Never]
NoFetch == [since |-> Never, kept |-> Never]

PriceInit ==
    /\ clock = 0
    /\ route \in {"service", "web"}
    /\ priceCache = NoPrices /\ fetchCache = Never /\ revalidating = Never
    /\ fetching = [h \in Handler |-> NoFetch]
    /\ panel = Nothing /\ card = Nothing
    /\ lastFetch = Never /\ quoted = Nothing
    /\ history = <<>> /\ storedHistory = <<>>

Tick ==
    /\ clock < MaxNow
    /\ clock' = clock + 1
    /\ UNCHANGED <<routeVars, shownVars, rateVars, chartVars>>
-----------------------------------------------------------------------------
\* The exchange route.
Younger(time, age) == time # Never /\ clock - time < age

\* The card takes any prices of the route for valid.
ApiPrice(h, age) == IF h = Card THEN Told(age, TRUE) ELSE card

\* An answer, which the panel or the card shows when it is its own.
Serve(h, asked, taken, stale) ==
    /\ panel' = IF h = Panel THEN Told(asked - taken, ~stale) ELSE panel
    /\ card' = ApiPrice(h, asked - taken)

\* Of what Next keeps any age will do; past its time it is fetched anew, for
\* those who ask later.
Fetch(h) ==
    /\ fetching' = [fetching EXCEPT ![h] = [since |-> clock, kept |-> fetchCache]]
    /\ revalidating' = IF /\ fetchCache # Never /\ ~Younger(fetchCache, Revalidate)
                          /\ revalidating = Never
                       THEN clock ELSE revalidating

GetExchangePrices(h) ==
    /\ fetching[h] = NoFetch
    /\ IF Younger(priceCache.dated, CacheTtl)
       THEN Serve(h, clock, priceCache.taken, FALSE) /\ UNCHANGED <<fetching, revalidating>>
       ELSE Fetch(h) /\ UNCHANGED shownVars
    /\ UNCHANGED <<clock, route, priceCache, fetchCache, rateVars, chartVars>>

\* The answer of the exchanges, or what Next has kept of an earlier one.
Fetched(h) == IF fetching[h].kept # Never THEN fetching[h].kept ELSE fetching[h].since

\* The prices are dated with the time the request came in, whenever they were
\* taken, and replace those of a later request that was answered earlier.
KeepPrices(h) == priceCache' = [dated |-> fetching[h].since, taken |-> Fetched(h)]

\* Next keeps the answers to the web application alone.
KeepAnswer(h) ==
    fetchCache' = IF route = "web" /\ fetching[h].kept = Never THEN fetching[h].since ELSE fetchCache

Answered(h) ==
    /\ fetching' = [fetching EXCEPT ![h] = NoFetch]
    /\ UNCHANGED <<clock, route, revalidating, rateVars, chartVars>>

ExchangesAnswer(h) ==
    /\ fetching[h] # NoFetch
    /\ KeepPrices(h) /\ KeepAnswer(h)
    /\ Serve(h, fetching[h].since, Fetched(h), FALSE)
    /\ Answered(h)

\* What is cached, however old, marked; or an error, which the card tells.
ServeStale(h) ==
    IF priceCache # NoPrices THEN Serve(h, fetching[h].since, priceCache.taken, TRUE)
    ELSE card' = [card EXCEPT !.isValid = @ /\ h # Card] /\ UNCHANGED panel

\* Slip: old prices pass for new ones.
ExchangesFailUnmarked(h) ==
    /\ fetching[h] # NoFetch /\ fetching[h].kept = Never
    /\ IF priceCache = NoPrices THEN UNCHANGED shownVars
       ELSE Serve(h, fetching[h].since, priceCache.taken, FALSE)
    /\ Answered(h)
    /\ UNCHANGED <<priceCache, fetchCache>>

\* Refused, rate limited, or not reached.
ExchangesFail(h) ==
    /\ fetching[h] # NoFetch /\ fetching[h].kept = Never
    /\ ServeStale(h)
    /\ Answered(h)
    /\ UNCHANGED <<priceCache, fetchCache>>

\* What Next has fetched anew replaces what it kept, if it was answered.
Revalidated ==
    /\ revalidating # Never
    /\ fetchCache' \in {fetchCache, revalidating}
    /\ revalidating' = Never
    /\ UNCHANGED <<clock, route, priceCache, fetching, shownVars, rateVars, chartVars>>

\* What the contract answers, when it holds its price for valid.
OraclePrice == Told(0, TRUE)

\* The card asks the oracle, and turns to the route when that has no valid price.
FetchPrice ==
    /\ fetching[Card] = NoFetch
    /\ card' = OraclePrice
    /\ UNCHANGED <<clock, routeVars, panel, rateVars, chartVars>>
-----------------------------------------------------------------------------
\* The rate the ramp quotes with.
\* An oracle price once read is served as valid for ever when the oracle cannot
\* be read again; the exchanges, and then a constant, are for a service that
\* never read one.
GetPrice ==
    /\ \/ /\ Younger(lastFetch, RateTtl)
          /\ quoted' = Told(clock - lastFetch, TRUE) /\ UNCHANGED lastFetch
       \/ /\ ~Younger(lastFetch, RateTtl)
          /\ quoted' = Told(0, TRUE) /\ lastFetch' = clock
       \/ /\ ~Younger(lastFetch, RateTtl)
          /\ quoted' \in IF lastFetch # Never THEN {Told(clock - lastFetch, TRUE)}
                         ELSE {Told(0, TRUE), Told(0, FALSE)}
          /\ UNCHANGED lastFetch
    /\ UNCHANGED <<clock, routeVars, shownVars, chartVars>>
-----------------------------------------------------------------------------
\* The chart.
\* filter: the points after a time, in their order.  SelectSeq, told by the
\* places of the points it keeps so that proofs can follow it.
Later(points, time) ==
    LET kept == {i \in DOMAIN points : points[i] > time} IN
    [n \in 1..Cardinality(kept) |->
        points[CHOOSE i \in kept : Cardinality(kept \cap 1..i) = n]]

Recent(points) == Later(points, clock - Day)

LastPoints(points) ==
    IF Len(points) <= MaxPoints THEN points
    ELSE SubSeq(points, Len(points) - MaxPoints + 1, Len(points))

\* Slip: the last point is not replaced.
WithPointKept(points) ==
    LastPoints(Append(points, clock))

WithPoint(points) ==
    IF points # <<>> /\ clock - Last(points) < PointGap THEN Append(Front(points), clock)
    ELSE LastPoints(Append(points, clock))

\* A price the oracle holds for valid; another changes nothing.
AddPoint ==
    /\ history' = WithPoint(history)
    /\ storedHistory' = LastPoints(Recent(history'))
    /\ UNCHANGED <<clock, routeVars, shownVars, rateVars>>

\* The page is opened anew, between two answers of the route.
OpenCharts ==
    /\ fetching[Panel] = NoFetch /\ fetching[Card] = NoFetch
    /\ history' = Recent(storedHistory)
    /\ panel' = Nothing /\ card' = Nothing
    /\ UNCHANGED <<clock, routeVars, rateVars, storedHistory>>

\* What the chart draws.
PriceChart == history

PriceStep ==
    \/ Tick \/ GetPrice \/ Revalidated \/ FetchPrice \/ AddPoint \/ OpenCharts
    \/ \E h \in Handler : GetExchangePrices(h) \/ ExchangesAnswer(h) \/ ExchangesFail(h)
-----------------------------------------------------------------------------
Stamp == Time \cup {Never}
Prices == [age : -MaxNow..MaxNow, isValid : BOOLEAN]

PriceTypes ==
    /\ clock \in Time
    /\ route \in {"service", "web"}
    /\ priceCache \in [dated : Stamp, taken : Stamp]
    /\ {fetchCache, revalidating, lastFetch} \subseteq Stamp
    /\ fetching \in [Handler -> [since : Stamp, kept : Stamp]]
    /\ {panel, card, quoted} \subseteq Prices
    /\ Len(history) <= MaxPoints /\ Len(storedHistory) <= MaxPoints

(* Prices that an answer of the service's exchange route does not mark as    *)
(* stale were asked for within the cache's lifetime before the request they *)
(* answer, also when requests overlap, answers overtake one another and the *)
(* exchanges fail.                                                          *)
FreshUnlessMarked ==
    route = "service" /\ panel.isValid => panel.age < CacheTtl

\* The caches on the way of the route's prices.
RouteTtl == IF route = "web" THEN CacheTtl + Revalidate ELSE CacheTtl

(* Whatever is shown as valid on a page, or told as valid to who quotes with *)
(* it, is younger than the caches on its way let prices grow together.  It   *)
(* does not hold, of any of the three: Next answers the web application's   *)
(* route with what it keeps, whatever its age; the card does not look at    *)
(* the mark of stale prices; and the rate service tells an oracle price     *)
(* past its time as valid, before it asks the exchanges.                    *)
ValidIsFresh ==
    /\ panel.isValid => panel.age < RouteTtl
    /\ card.isValid => card.age < RouteTtl
    /\ quoted.isValid => quoted.age < RateTtl

Spaced(points) == \A i \in 1..Len(points) - 1 : points[i + 1] - points[i] >= PointGap

(* The points of the chart, and of its copy in storage, are never closer     *)
(* than the gap the code names, over polls of any rhythm, gaps in the        *)
(* oracle's validity, days that pass and pages opened anew.                  *)
HistorySpaced == Spaced(PriceChart) /\ Spaced(storedHistory)
=============================================================================
