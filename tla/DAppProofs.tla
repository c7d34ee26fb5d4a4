----------------------------- MODULE DAppProofs -----------------------------
(* Proofs about DApp: what its user is told of transactions and of prices,    *)
(* whose transaction keeps the button busy, and the points of the chart, for  *)
(* any accounts, transactions, requests and lengths of time.                  *)
EXTENDS DApp, FiniteSetTheorems, WellFoundedInduction, TLAPS

Places == UnderWay \cup {"idle", "success"}
Fates == {"none", "pending", "applied", "failed", "lost"}
Flow == [from : Account \cup {None}, at : Places, live : BOOLEAN, fate : Fates]

\* A success is of what was applied; an open page's transaction has an account;
\* only an open page follows what was sent.
Real(transaction) ==
    /\ transaction.at = "success" => transaction.fate = "applied"
    /\ transaction.live => transaction.from \in Account
    /\ transaction.at = "poll" => transaction.live

\* Under way for the open page.
Busy(transaction) == transaction.live /\ transaction.at \in UnderWay

\* The button is busy with one transaction, or not busy and there is none.
Button(busy, transactions) ==
    /\ busy \in BOOLEAN
    /\ ~busy => \A f \in FlowSlot : ~Busy(transactions[f])
    /\ busy => \E f \in FlowSlot : /\ Busy(transactions[f])
                                   /\ \A g \in FlowSlot : Busy(transactions[g]) => g = f

ScreenTypes ==
    /\ page \in WalletPage \cup {"markets"}
    /\ modal \in {"mint", "burn", None}
    /\ shown \in Account \cup {None}
    /\ asked \subseteq Account

FlowInv ==
    /\ SessionTypes /\ ScreenTypes
    /\ flow \in [FlowSlot -> Flow]
    /\ \A f \in FlowSlot : Real(flow[f])
    /\ Button(isProcessing, flow)

\* Points in the order of their times, a gap apart, none after today.
Spread(points, today) ==
    /\ points \in Seq(Time)
    /\ \A i \in 1..Len(points) : points[i] <= today
    /\ \A i, j \in 1..Len(points) : i < j => points[j] - points[i] >= PointGap

\* The chart, and its copy in storage.
Chart(points, today) == Spread(points, today) /\ Len(points) <= MaxPoints

Kept == {NoPrices} \cup [dated : Time, taken : Time]
Fetches == {NoFetch} \cup [since : Time, kept : Stamp]

\* The service has nothing of Next: it dates prices as they are taken.
OwnPrices ==
    /\ fetchCache = Never /\ revalidating = Never
    /\ priceCache.taken = priceCache.dated
    /\ \A h \in Handler : fetching[h].kept = Never

\* Types of the route, and the freshness of the answer on show.
RouteInv ==
    /\ clock \in Time /\ route \in {"service", "web"}
    /\ priceCache \in Kept /\ fetchCache \in Stamp /\ revalidating \in Stamp
    /\ fetching \in [Handler -> Fetches]
    /\ panel \in Prices /\ card \in Prices
    /\ route = "service" => OwnPrices
    /\ FreshUnlessMarked

RateInv == lastFetch \in Stamp /\ quoted \in Prices

ChartInv == Chart(history, clock) /\ Chart(storedHistory, clock)

PriceInv == RouteInv /\ RateInv /\ ChartInv
-----------------------------------------------------------------------------
\* Every nonempty set of naturals has a least member.
LEMMA Smallest ==
  ASSUME NEW T \in SUBSET Nat, T # {}
  PROVE  \E x \in T : \A y \in T : x <= y
<1>1. PICK x \in T : \A y \in T : ~ (<<y, x>> \in OpToRel(<, Nat))
  BY NatLessThanWellFounded, WFMin
<1>2. \A y \in T : ~(y < x)
  BY <1>1 DEF OpToRel
<1> QED
  BY <1>2

LEMMA NothingReal == NoFlow \in Flow /\ Real(NoFlow) /\ ~Busy(NoFlow)
  BY DEF NoFlow, Flow, Places, Fates, Real, Busy, UnderWay

\* How the button follows the transactions.
LEMMA NoneBusy ==
  ASSUME NEW transactions, \A f \in FlowSlot : ~Busy(transactions[f])
  PROVE  Button(FALSE, transactions)
  BY DEF Button

LEMMA AsBusy ==
  ASSUME NEW busy, NEW before, NEW after, Button(busy, before),
         \A f \in FlowSlot : Busy(after[f]) <=> Busy(before[f])
  PROVE  Button(busy, after)
<1> HIDE DEF Busy
<1>1. busy \in BOOLEAN
  BY DEF Button
<1>2. ASSUME ~busy PROVE \A f \in FlowSlot : ~Busy(after[f])
  BY <1>2 DEF Button
<1>3. ASSUME busy
      PROVE  \E f \in FlowSlot : Busy(after[f]) /\ \A g \in FlowSlot : Busy(after[g]) => g = f
  BY <1>3 DEF Button
<1> QED
  BY <1>1, <1>2, <1>3 DEF Button

LEMMA InitFlowInv == DAppInit => FlowInv
<1> SUFFICES ASSUME DAppInit PROVE FlowInv
  OBVIOUS
<1>1. SessionTypes
  BY DEF DAppInit, SessionInit, SessionTypes
<1>2. Button(isProcessing, flow)
  <2>1. isProcessing = FALSE /\ \A f \in FlowSlot : flow[f] = NoFlow
    BY DEF DAppInit
  <2> QED
    BY <2>1, NothingReal, NoneBusy
<1>3. ScreenTypes
  BY DEF DAppInit, ScreenTypes
<1> QED
  BY <1>1, <1>2, <1>3, NothingReal DEF DAppInit, FlowInv

FlowsReal == /\ flow' \in [FlowSlot -> Flow]
             /\ \A g \in FlowSlot : Real(flow'[g])
             /\ Button(isProcessing', flow')

\* A transaction goes on: the button stays as it is.
LEMMA WentOn ==
  ASSUME FlowInv, NEW f \in FlowSlot, NEW transaction \in Flow, Real(transaction),
         Busy(transaction) <=> Busy(flow[f]),
         flow' = [flow EXCEPT ![f] = transaction], UNCHANGED isProcessing
  PROVE  FlowsReal
<1>1. flow' \in [FlowSlot -> Flow] /\ \A g \in FlowSlot : Real(flow'[g])
  BY DEF FlowInv
<1>2. \A g \in FlowSlot : Busy(flow'[g]) <=> Busy(flow[g])
  BY DEF FlowInv
<1>3. Button(isProcessing', flow')
  BY <1>2, AsBusy DEF FlowInv
<1> QED
  BY <1>1, <1>3 DEF FlowsReal

\* A transaction ends: the button comes back if it was the open page's.
LEMMA Ended ==
  ASSUME FlowInv, NEW f \in FlowSlot, flow[f].at \in UnderWay,
         NEW transaction \in Flow, Real(transaction), ~Busy(transaction),
         End(f, transaction)
  PROVE  FlowsReal
<1>0. /\ flow \in [FlowSlot -> Flow] /\ flow[f].live \in BOOLEAN
      /\ Button(isProcessing, flow) /\ isProcessing \in BOOLEAN
  BY DEF FlowInv, Flow, Button
<1>1. flow' = [flow EXCEPT ![f] = transaction]
  BY DEF End
<1>2. CASE flow[f].live
  <2>1. Busy(flow[f])
    BY <1>2 DEF Busy
  <2>2. \A g \in FlowSlot : Busy(flow[g]) => g = f
    BY <1>0, <2>1 DEF Button
  <2>3. \A g \in FlowSlot : ~Busy(flow'[g])
    BY <1>0, <1>1, <2>2
  <2>4. isProcessing' = FALSE
    BY <1>2, Zenon DEF End
  <2>5. flow' \in [FlowSlot -> Flow] /\ \A g \in FlowSlot : Real(flow'[g])
    BY <1>1 DEF FlowInv
  <2> QED
    BY <2>3, <2>4, <2>5, NoneBusy DEF FlowsReal
<1>3. CASE ~flow[f].live
  <2>1. ~Busy(flow[f])
    BY <1>3 DEF Busy
  <2>2. isProcessing' = (isProcessing /\ TRUE)
    BY <1>3, Zenon DEF End
  <2>3. isProcessing' = isProcessing
    BY <1>0, <2>2
  <2> QED
    BY <1>1, <2>1, <2>3, WentOn
<1> QED
  BY <1>2, <1>3

LEMMA Moved ==
  ASSUME FlowInv, NEW f \in FlowSlot, flow[f].at \in UnderWay \ {"poll"},
         NEW place \in UnderWay \ {"poll"}, GoOn(f, place)
  PROVE  FlowsReal
<1> DEFINE moved == [flow[f] EXCEPT !.at = place]
<1>1. moved \in Flow /\ Real(moved) /\ (Busy(moved) <=> Busy(flow[f]))
  BY DEF FlowInv, Flow, Real, Busy, Places, UnderWay
<1>2. flow' = [flow EXCEPT ![f] = moved] /\ UNCHANGED isProcessing
  BY DEF GoOn
<1> HIDE DEF moved
<1> QED
  BY <1>1, <1>2, WentOn

LEMMA Failed ==
  ASSUME FlowInv, NEW f \in FlowSlot, flow[f].at \in UnderWay, Fail(f)
  PROVE  FlowsReal
  BY NothingReal, Ended DEF Fail

LEMMA Succeeded ==
  ASSUME FlowInv, NEW f \in FlowSlot, flow[f].at \in UnderWay, flow[f].fate = "applied", Succeed(f)
  PROVE  FlowsReal
<1> DEFINE told == [flow[f] EXCEPT !.at = "success"]
<1>1. told \in Flow /\ Real(told) /\ ~Busy(told)
  BY DEF FlowInv, Flow, Real, Places, Busy, UnderWay
<1>2. End(f, told)
  BY DEF Succeed
<1> HIDE DEF told
<1> QED
  BY <1>1, <1>2, Ended

LEMMA WorkReal ==
  ASSUME FlowInv, NEW f \in FlowSlot, Work(f) \/ Sign(f) \/ PollFails(f)
  PROVE  FlowsReal
<1>1. CASE CheckOracle(f) \/ Build(f) \/ Sign(f)
  <2>1. flow[f].at \in UnderWay \ {"poll"}
    BY <1>1 DEF CheckOracle, Build, Sign, At, UnderWay
  <2>2. Fail(f) \/ \E place \in {"build", "sign", "send"} : GoOn(f, place)
    BY <1>1 DEF CheckOracle, Build, Sign
  <2>3. {"build", "sign", "send"} \subseteq UnderWay \ {"poll"}
    BY DEF UnderWay
  <2> QED
    BY <2>1, <2>2, <2>3, Failed, Moved
<1>2. CASE Send(f)
  <2> DEFINE polled == [flow[f] EXCEPT !.at = "poll", !.fate = "pending"]
  <2>0. flow[f].at = "send" /\ flow[f].at \in UnderWay
    BY <1>2 DEF Send, At, UnderWay
  <2>1. CASE Fail(f)
    BY <2>0, <2>1, Failed
  <2>2. ASSUME flow[f].live, flow' = [flow EXCEPT ![f] = polled], UNCHANGED isProcessing
        PROVE  FlowsReal
    <3>1. polled \in Flow /\ Real(polled) /\ (Busy(polled) <=> Busy(flow[f]))
      BY <2>0, <2>2 DEF FlowInv, Flow, Real, Places, UnderWay, Fates, Busy
    <3> HIDE DEF polled
    <3> QED
      BY <2>2, <3>1, WentOn
  <2>3. ASSUME ~flow[f].live, flow' = [flow EXCEPT ![f] = NoFlow], UNCHANGED isProcessing
        PROVE  FlowsReal
    <3>1. ~Busy(flow[f])
      BY <2>3 DEF Busy
    <3> QED
      BY <2>3, <3>1, NothingReal, WentOn
  <2>4. \/ Fail(f)
        \/ /\ flow' = [flow EXCEPT ![f] = IF flow[f].live THEN polled ELSE NoFlow]
           /\ UNCHANGED isProcessing
    BY <1>2 DEF Send
  <2> QED
    BY <2>1, <2>2, <2>3, <2>4
<1>3. CASE Poll(f)
  BY <1>3, Failed, Succeeded DEF Poll, At, UnderWay
<1>4. CASE PollFails(f)
  BY <1>4, Failed DEF PollFails, At, UnderWay
<1>5. CASE Settle(f)
  <2>1. PICK fate \in {"applied", "failed", "lost"} : flow' = [flow EXCEPT ![f].fate = fate]
    BY <1>5 DEF Settle
  <2> DEFINE settled == [flow[f] EXCEPT !.fate = fate]
  <2>2. settled \in Flow /\ Real(settled) /\ (Busy(settled) <=> Busy(flow[f]))
    BY <1>5 DEF Settle, FlowInv, Flow, Real, Fates, Busy
  <2>3. flow' = [flow EXCEPT ![f] = settled] /\ UNCHANGED isProcessing
    BY <1>5, <2>1 DEF Settle
  <2> HIDE DEF settled
  <2> QED
    BY <2>2, <2>3, WentOn
<1> QED
  BY <1>1, <1>2, <1>3, <1>4, <1>5 DEF Work

LEMMA DismissedReal ==
  ASSUME FlowInv, flow' = Dismissed, UNCHANGED isProcessing
  PROVE  FlowsReal
<1>1. flow' \in [FlowSlot -> Flow] /\ \A g \in FlowSlot : Real(flow'[g])
  BY NothingReal DEF FlowInv, Dismissed
<1>2. \A g \in FlowSlot : Busy(flow'[g]) <=> Busy(flow[g])
  <2>1. \A g \in FlowSlot : At(g, "success") => ~Busy(flow[g])
    BY DEF At, Busy, UnderWay
  <2> QED
    BY <2>1, NothingReal DEF Dismissed
<1>3. Button(isProcessing', flow')
  BY <1>2, AsBusy DEF FlowInv
<1> QED
  BY <1>1, <1>3 DEF FlowsReal

LEMMA StartReal ==
  ASSUME FlowInv, NEW place \in {"build", "oracle"}, Start(place)
  PROVE  FlowsReal
<1> DEFINE free == {g \in FlowSlot : At(g, "idle")}
           started == [from |-> publicKey, at |-> place, fate |-> "none", live |-> TRUE]
<1>1. PICK f \in FlowSlot : flow' = [flow EXCEPT ![f] = started]
  <2>1. \E f \in free : \A g \in free : f <= g
    <3>1. free \in SUBSET Nat /\ free # {}
      BY DAppAssumption DEF Start
    <3> HIDE DEF free
    <3> QED
      BY <3>1, Smallest
  <2>2. (CHOOSE f \in free : \A g \in free : f <= g) \in FlowSlot
    BY <2>1
  <2> QED
    BY <2>2 DEF Start
<1>2. started \in Flow /\ Real(started) /\ Busy(started)
  BY DEF FlowInv, SessionTypes, Flow, Places, UnderWay, Fates, Real, Start, Busy
<1>3. ~isProcessing /\ isProcessing' = TRUE
  BY DEF Start
<1> HIDE DEF started
<1>4. flow' \in [FlowSlot -> Flow] /\ \A g \in FlowSlot : Real(flow'[g])
  BY <1>1, <1>2 DEF FlowInv
<1>5. Busy(flow'[f]) /\ \A g \in FlowSlot : Busy(flow'[g]) => g = f
  <2>1. \A g \in FlowSlot : ~Busy(flow[g])
    BY <1>3 DEF FlowInv, Button
  <2> QED
    BY <1>1, <1>2, <2>1 DEF FlowInv
<1>6. Button(isProcessing', flow')
  BY <1>3, <1>5 DEF Button
<1> QED
  BY <1>4, <1>6 DEF FlowsReal

LEMMA ScreenReal ==
  ASSUME FlowInv, Screen
  PROVE  FlowsReal
<1>1. CASE HandleSend
  BY <1>1, StartReal DEF HandleSend
<1>2. CASE HandleTrade
  BY <1>2, StartReal DEF HandleTrade
<1>3. CASE HandleCloseSuccess \/ CloseModal \/ \E kind \in {"mint", "burn"} : OpenModal(kind)
  BY <1>3, DismissedReal DEF HandleCloseSuccess, CloseModal, OpenModal
<1>4. CASE \E a \in Account : TakeBalance(a)
  BY <1>4 DEF TakeBalance, moneyVars, FlowInv, FlowsReal
<1> QED
  BY <1>1, <1>2, <1>3, <1>4 DEF Screen

LEMMA LeftReal ==
  ASSUME FlowInv, flow' = Left, isProcessing' = FALSE
  PROVE  FlowsReal
<1>1. ASSUME NEW f \in FlowSlot, flow[f].at \in UnderWay \ {"poll"}
      PROVE  /\ [flow[f] EXCEPT !.live = FALSE, !.from = None] \in Flow
             /\ Real([flow[f] EXCEPT !.live = FALSE, !.from = None])
             /\ ~Busy([flow[f] EXCEPT !.live = FALSE, !.from = None])
  BY <1>1 DEF FlowInv, Flow, Real, Busy, UnderWay
<1>2. /\ flow' \in [FlowSlot -> Flow]
      /\ \A g \in FlowSlot : Real(flow'[g]) /\ ~Busy(flow'[g])
  BY <1>1, NothingReal DEF Left
<1> QED
  BY <1>2, NoneBusy DEF FlowsReal

\* What stands on the screen besides.
LEMMA ScreenTypesKept ==
  ASSUME FlowInv, SessionTypes', [DAppNext]_vars
  PROVE  ScreenTypes'
<1> USE DEF ScreenTypes
<1>0. ScreenTypes /\ publicKey' \in Account \cup {None}
  BY DEF FlowInv, SessionTypes
<1>1. CASE SessionStep /\ FollowAccount /\ UNCHANGED moneyVars
  BY <1>0, <1>1 DEF FollowAccount, moneyVars, balanceVars
<1>2. CASE ReloadPage
  BY <1>0, <1>2 DEF ReloadPage, Leave
<1>3. CASE \E p \in WalletPage : Navigate(p)
  BY <1>0, <1>3 DEF Navigate, Leave
<1>4. CASE Screen
  BY <1>0, <1>4 DEF Screen, HandleSend, HandleCloseSuccess, CloseModal, HandleTrade, OpenModal,
                    TakeBalance, moneyVars, balanceVars
<1>5. ASSUME NEW f \in FlowSlot, Work(f) \/ Sign(f) \/ PollFails(f)
      PROVE  ScreenTypes'
  <2>1. At(f, "poll") => flow[f].from \in Account
    BY <1>5 DEF FlowInv, Real, At
  <2> QED
    BY <1>0, <1>5, <2>1
    DEF Work, CheckOracle, Build, Sign, Send, Poll, PollFails, Settle, GoOn, Fail, Succeed, End,
        balanceVars
<1>6. CASE UNCHANGED <<sessionVars, appVars>>
  BY <1>0, <1>6 DEF appVars, moneyVars, balanceVars
<1> QED
  BY <1>1, <1>2, <1>3, <1>4, <1>5, <1>6 DEF DAppNext, WalletPagesNext, vars

LEMMA SessionTypesKept ==
  ASSUME SessionTypes, SessionStep \/ Reload
  PROVE  SessionTypes'
  BY DEF SessionTypes, SessionStep, Reload, GetSupportedWallets, RestoreSession, ConnectWallet,
         ConnectButton, WalletAnswers, Disconnect, AccountMenu, SwitchAccount

LEMMA FlowStep ==
  ASSUME FlowInv, [DAppNext]_vars
  PROVE  FlowInv'
<1> SUFFICES SessionTypes' /\ FlowsReal
  BY ScreenTypesKept DEF FlowInv, FlowsReal
<1>0. SessionTypes /\ (UNCHANGED <<flow, isProcessing>> => FlowsReal) /\ (UNCHANGED sessionVars => SessionTypes')
  BY DEF FlowInv, FlowsReal, SessionTypes, sessionVars
<1>1. CASE SessionStep /\ FollowAccount /\ UNCHANGED moneyVars
  BY <1>0, <1>1, SessionTypesKept DEF moneyVars
<1>2. CASE ReloadPage
  <2>1. Reload /\ isProcessing' = FALSE /\ flow' = [f \in FlowSlot |-> NoFlow]
    BY <1>2 DEF ReloadPage, Leave
  <2>2. \A f \in FlowSlot : flow'[f] = NoFlow
    BY <2>1
  <2>3. Button(isProcessing', flow')
    BY <2>1, <2>2, NothingReal, NoneBusy
  <2> QED
    BY <1>0, <2>1, <2>3, SessionTypesKept, NothingReal DEF FlowsReal
<1>3. CASE \E p \in WalletPage : Navigate(p)
  BY <1>0, <1>3, LeftReal DEF Navigate, Leave
<1>4. CASE Screen /\ UNCHANGED sessionVars
  BY <1>0, <1>4, ScreenReal
<1>5. CASE \E f \in FlowSlot : (Work(f) \/ Sign(f) \/ PollFails(f)) /\ UNCHANGED sessionVars
  BY <1>0, <1>5, WorkReal
<1>6. CASE UNCHANGED <<sessionVars, appVars>>
  BY <1>0, <1>6 DEF appVars, moneyVars
<1> QED
  BY <1>1, <1>2, <1>3, <1>4, <1>5, <1>6 DEF DAppNext, WalletPagesNext, vars
-----------------------------------------------------------------------------
\* The numbers up to n.
LEMMA UpTo ==
  ASSUME NEW n \in Nat
  PROVE  IsFiniteSet(1..n) /\ Cardinality(1..n) = n
<1>1. 1 \in Int /\ n \in Int
  OBVIOUS
<1>2. IsFiniteSet(1..n) /\ Cardinality(1..n) = IF 1 > n THEN 0 ELSE n - 1 + 1
  BY <1>1, FS_Interval
<1> QED
  BY <1>2

\* The place of the n-th member of a set of places.
LEMMA NthPlace ==
  ASSUME NEW len \in Nat, NEW K \in SUBSET (1..len), NEW n \in 1..Cardinality(K)
  PROVE  \E i \in K : Cardinality(K \cap 1..i) = n
<1> DEFINE C(i) == Cardinality(K \cap 1..i)
           T == {i \in 0..len : C(i) >= n}
<1>1. IsFiniteSet(K)
  BY UpTo, FS_Subset
<1>2. \A i \in 0..len : C(i) \in Nat /\ IsFiniteSet(K \cap 1..i)
  BY <1>1, FS_Subset, FS_CardinalityType
<1>3. C(len) = Cardinality(K) /\ Cardinality(K) \in Nat
  <2>1. K \cap 1..len = K
    OBVIOUS
  <2> QED
    BY <1>1, <2>1, FS_CardinalityType
<1>4. PICK m \in T : \A y \in T : m <= y
  <2>1. len \in T /\ T \subseteq Nat
    BY <1>2, <1>3
  <2> HIDE DEF T
  <2> QED
    BY <2>1, Smallest
<1>5. C(0) = 0
  <2>1. K \cap 1..0 = {}
    OBVIOUS
  <2> QED
    BY <2>1, FS_EmptySet
<1>6. m \in 1..len /\ m - 1 \in 0..len /\ ~(C(m - 1) >= n) /\ C(m) >= n
  <2>1. m # 0
    BY <1>3, <1>4, <1>5
  <2> QED
    BY <2>1, <1>4
<1>7. CASE m \notin K
  <2>1. K \cap 1..m = K \cap 1..(m - 1)
    BY <1>6, <1>7
  <2> QED
    BY <2>1, <1>6
<1>8. CASE m \in K
  <2>1. K \cap 1..m = (K \cap 1..(m - 1)) \cup {m} /\ m \notin K \cap 1..(m - 1)
    BY <1>6, <1>8
  <2>2. C(m) = C(m - 1) + 1
    BY <2>1, <1>2, <1>6, FS_AddElement
  <2>3. C(m - 1) \in Nat /\ n \in Nat
    BY <1>2, <1>6
  <2> HIDE DEF C
  <2>4. C(m) = n
    BY <2>2, <2>3, <1>6
  <2> QED
    BY <2>4, <1>8 DEF C
<1> QED
  BY <1>7, <1>8

\* filter keeps the order, and no more points than there are.
LEMMA LaterSpread ==
  ASSUME NEW points, NEW today \in Nat, NEW time \in Int, Spread(points, today),
         PointGap \in Nat
  PROVE  Spread(Later(points, time), today) /\ Len(Later(points, time)) <= Len(points)
<1> DEFINE K == {i \in DOMAIN points : points[i] > time}
           size == Cardinality(K)
           C(i) == Cardinality(K \cap 1..i)
           P(n) == CHOOSE i \in K : C(i) = n
           kept == [n \in 1..size |-> points[P(n)]]
<1>1. /\ Len(points) \in Nat
      /\ DOMAIN points = 1..Len(points)
      /\ \A i \in 1..Len(points) : points[i] \in Time
  BY DEF Spread
<1>2. K \in SUBSET (1..Len(points))
  BY <1>1
<1>3. size \in Nat /\ size <= Len(points) /\ IsFiniteSet(K)
  <2>1. IsFiniteSet(1..Len(points)) /\ Cardinality(1..Len(points)) = Len(points)
    BY <1>1, UpTo
  <2> HIDE DEF K
  <2> QED
    BY <1>2, <2>1, FS_Subset, FS_CardinalityType
<1>4. Later(points, time) = kept
  BY DEF Later
<1> HIDE DEF K, size
<1>5. ASSUME NEW n \in 1..size
      PROVE  P(n) \in K /\ C(P(n)) = n
  <2>1. \E i \in K : C(i) = n
    BY <1>1, <1>2, NthPlace DEF size
  <2> QED
    BY <2>1
<1>6. ASSUME NEW i \in K, NEW j \in K, C(i) < C(j)
      PROVE  i < j
  <2>1. SUFFICES ASSUME j <= i PROVE FALSE
    BY <1>1, <1>2
  <2>2. (K \cap 1..j) \in SUBSET (K \cap 1..i) /\ IsFiniteSet(K \cap 1..i) /\ IsFiniteSet(K \cap 1..j)
    <3>1. i \in Nat /\ j \in Nat
      BY <1>1, <1>2
    <3>2. 1..j \subseteq 1..i
      BY <2>1, <3>1
    <3> QED
      BY <3>2, <1>3, FS_Subset
  <2>3. C(j) <= C(i) /\ C(i) \in Nat /\ C(j) \in Nat
    BY <2>2, FS_Subset, FS_CardinalityType
  <2> HIDE DEF C
  <2> QED
    BY <2>3, <1>6
<1> HIDE DEF C, P
<1>7. \A n \in 1..size : kept[n] = points[P(n)] /\ kept[n] \in Time /\ P(n) \in 1..Len(points)
  BY <1>1, <1>2, <1>5
<1>8. kept \in Seq(Time) /\ Len(kept) = size
  BY <1>3, <1>7
<1>9. \A n \in 1..size : kept[n] <= today
  BY <1>7 DEF Spread
<1>10. ASSUME NEW n \in 1..size, NEW o \in 1..size, n < o
       PROVE  kept[o] - kept[n] >= PointGap
  <2>1. P(n) \in K /\ P(o) \in K /\ C(P(n)) < C(P(o))
    BY <1>5, <1>10
  <2>2. P(n) < P(o)
    BY <2>1, <1>6
  <2> QED
    BY <1>7, <2>2 DEF Spread
<1> HIDE DEF kept
<1> QED
  BY <1>3, <1>4, <1>8, <1>9, <1>10 DEF Spread

\* slice(-MAX_HISTORY_POINTS) of points in order.
LEMMA LastPointsChart ==
  ASSUME NEW points, NEW today \in Nat, Spread(points, today)
  PROVE  Chart(LastPoints(points), today)
<1> DEFINE drop == Len(points) - MaxPoints
           last == SubSeq(points, drop + 1, Len(points))
<1>1. MaxPoints \in Nat \ {0} /\ Len(points) \in Nat
  BY PriceFeedAssumption DEF Spread
<1>2. CASE Len(points) <= MaxPoints
  BY <1>2 DEF LastPoints, Chart
<1>3. CASE ~(Len(points) <= MaxPoints)
  <2>1. drop \in Nat /\ drop + MaxPoints = Len(points)
    BY <1>1, <1>3
  <2>2. /\ last \in Seq(Time)
        /\ Len(last) = MaxPoints
        /\ \A i \in 1..MaxPoints : last[i] = points[drop + i]
    BY <1>1, <2>1 DEF Spread
  <2> HIDE DEF last
  <2>3. \A i \in 1..MaxPoints : last[i] = points[drop + i] /\ drop + i \in 1..Len(points)
    BY <1>1, <2>1, <2>2
  <2> HIDE DEF drop
  <2>4. Spread(last, today)
    BY <1>1, <2>1, <2>2, <2>3 DEF Spread
  <2>5. LastPoints(points) = last
    BY <1>3 DEF LastPoints, last, drop
  <2> QED
    BY <1>1, <2>2, <2>4, <2>5 DEF Chart
<1> QED
  BY <1>2, <1>3

\* A point added, or the last one replaced.
LEMMA WithPointChart ==
  ASSUME NEW points, clock \in Time, Chart(points, clock)
  PROVE  Chart(WithPoint(points), clock)
<1>1. /\ clock \in Nat /\ PointGap \in Nat \ {0} /\ MaxPoints \in Nat \ {0}
      /\ Time \subseteq Nat /\ Len(points) \in Nat /\ points \in Seq(Time)
  BY PriceFeedAssumption DEF Time, Chart, Spread
<1>a. \A i \in 1..Len(points) : points[i] \in Time
  BY <1>1
<1>b. \A i \in 1..Len(points) : points[i] \in Nat
  BY <1>1, <1>a
<1>c. \A i \in 1..Len(points) : points[i] <= clock
  BY DEF Chart, Spread
<1>d. \A i, j \in 1..Len(points) : i < j => points[j] - points[i] >= PointGap
  BY DEF Chart, Spread
<1>2. CASE points # <<>> /\ clock - Last(points) < PointGap
  <2> DEFINE n == Len(points)
             moved == Append(Front(points), clock)
  <2>1. n \in Nat \ {0} /\ n <= MaxPoints
    BY <1>1, <1>2 DEF Chart
  <2>2. /\ Front(points) \in Seq(Time) /\ Len(Front(points)) = n - 1
        /\ \A i \in 1..n - 1 : Front(points)[i] = points[i]
    <3>1. Front(points) = SubSeq(points, 1, n - 1)
      BY DEF Front
    <3>2. /\ n - 1 \in Nat /\ n - 1 <= n
          /\ \A i \in 1..n - 1 : points[i] \in Time
      BY <1>a, <2>1
    <3> DEFINE m == n - 1
               front == SubSeq(points, 1, m)
    <3>3. m \in Nat /\ m <= Len(points)
      BY <2>1
    <3> HIDE DEF m
    <3>4. front = [i \in 1..m |-> points[i]]
      BY <1>1, <3>3
    <3>5. front \in Seq(Time) /\ Len(front) = m /\ \A i \in 1..m : front[i] = points[i]
      <4>1. \A i \in 1..m : points[i] \in Time
        BY <3>2 DEF m
      <4> HIDE DEF front
      <4> QED
        BY <3>3, <3>4, <4>1
    <3> QED
      BY <3>1, <3>5 DEF m
  <2>3. /\ moved \in Seq(Time) /\ Len(moved) = n /\ moved[n] = clock
        /\ \A i \in 1..n - 1 : moved[i] = points[i]
    BY <1>1, <2>1, <2>2
  <2> HIDE DEF moved
  <2>4. /\ \A i \in 1..n : points[i] \in Nat /\ points[i] <= clock
        /\ \A i, j \in 1..n : i < j => points[j] - points[i] >= PointGap
    BY <1>b, <1>c, <1>d
  <2>5. ASSUME NEW i \in 1..n
        PROVE  moved[i] <= clock
    <3>1. CASE i = n
      BY <1>1, <2>3, <3>1
    <3>2. CASE i # n
      <4>1. i \in 1..n - 1
        BY <2>1, <2>5, <3>2
      <4> QED
        BY <2>3, <2>4, <4>1
    <3> QED
      BY <3>1, <3>2
  <2>6. ASSUME NEW i \in 1..n, NEW j \in 1..n, i < j
        PROVE  moved[j] - moved[i] >= PointGap
    <3>1. i \in 1..n - 1 /\ moved[i] = points[i]
      BY <2>1, <2>3, <2>6
    <3>2. CASE j = n
      <4>1. points[n] - points[i] >= PointGap /\ points[n] <= clock /\ points[n] \in Nat /\ points[i] \in Nat
        BY <2>1, <2>4, <2>6, <3>2
      <4> QED
        BY <1>1, <2>3, <3>1, <3>2, <4>1
    <3>3. CASE j # n
      <4>1. j \in 1..n - 1 /\ moved[j] = points[j]
        BY <2>1, <2>3, <2>6, <3>3
      <4> QED
        BY <2>4, <2>6, <3>1, <4>1
    <3> QED
      BY <3>2, <3>3
  <2>7. WithPoint(points) = moved
    BY <1>2 DEF WithPoint, moved
  <2> QED
    BY <2>1, <2>3, <2>5, <2>6, <2>7 DEF Chart, Spread
<1>3. CASE ~(points # <<>> /\ clock - Last(points) < PointGap)
  <2> DEFINE n == Len(points)
             added == Append(points, clock)
  <2>1. /\ added \in Seq(Time) /\ Len(added) = n + 1 /\ added[n + 1] = clock
        /\ \A i \in 1..n : added[i] = points[i]
    BY <1>1
  <2> HIDE DEF added
  <2>2. /\ \A i \in 1..n : points[i] \in Nat /\ points[i] <= clock
        /\ \A i, j \in 1..n : i < j => points[j] - points[i] >= PointGap
    BY <1>b, <1>c, <1>d
  <2>3. \A i \in 1..n + 1 : added[i] <= clock
    BY <1>1, <2>1, <2>2
  <2>4. ASSUME NEW i \in 1..n
        PROVE  clock - points[i] >= PointGap
    <3>1. n \in Nat \ {0} /\ points # <<>>
      BY <1>1, <2>4
    <3>2. clock - points[n] >= PointGap /\ points[n] \in Nat /\ points[i] \in Nat
      BY <1>1, <1>3, <2>2, <2>4, <3>1 DEF Last
    <3>3. points[i] <= points[n]
      <4>1. CASE i = n
        BY <3>2, <4>1
      <4>2. CASE i # n
        <5>1. points[n] - points[i] >= PointGap
          BY <2>2, <2>4, <3>1, <4>2
        <5> QED
          BY <1>1, <3>2, <5>1
      <4> QED
        BY <4>1, <4>2
    <3> QED
      BY <1>1, <3>2, <3>3
  <2>5. ASSUME NEW i \in 1..n + 1, NEW j \in 1..n + 1, i < j
        PROVE  added[j] - added[i] >= PointGap
    <3>1. i \in 1..n /\ added[i] = points[i]
      BY <1>1, <2>1, <2>5
    <3>2. CASE j = n + 1
      BY <2>1, <2>4, <3>1, <3>2
    <3>3. CASE j # n + 1
      <4>1. j \in 1..n /\ added[j] = points[j]
        BY <1>1, <2>1, <2>5, <3>3
      <4> QED
        BY <2>2, <2>5, <3>1, <4>1
    <3> QED
      BY <3>2, <3>3
  <2>6. Spread(added, clock)
    BY <1>1, <2>1, <2>3, <2>5 DEF Spread
  <2>7. WithPoint(points) = LastPoints(added)
    BY <1>3 DEF WithPoint, added
  <2> QED
    BY <1>1, <2>6, <2>7, LastPointsChart
<1> QED
  BY <1>2, <1>3

LEMMA InitPriceInv == DAppInit => PriceInv
<1> SUFFICES ASSUME PriceInit PROVE PriceInv
  BY DEF DAppInit
<1> USE PriceFeedAssumption DEF PriceInit
<1>1. RouteInv
  <2>1. Nothing \in Prices /\ ~Nothing.isValid
    BY DEF Nothing, Told, Prices
  <2>2. /\ clock \in Time /\ route \in {"service", "web"} /\ priceCache \in Kept
        /\ fetchCache \in Stamp /\ revalidating \in Stamp
        /\ fetching \in [Handler -> Fetches]
    BY DEF Never, Stamp, Time, Kept, Fetches
  <2>3. OwnPrices
    BY DEF OwnPrices, NoPrices, NoFetch
  <2> QED
    BY <2>1, <2>2, <2>3 DEF RouteInv, FreshUnlessMarked
<1>2. RateInv
  BY DEF RateInv, Stamp, Prices, Nothing, Told
<1>3. ChartInv
  BY DEF ChartInv, Chart, Spread
<1> QED
  BY <1>1, <1>2, <1>3 DEF PriceInv

LEMMA AgeTypes ==
  ASSUME NEW asked1 \in Time, NEW taken1 \in Time, NEW isValid1 \in BOOLEAN
  PROVE  Told(asked1 - taken1, isValid1) \in Prices
  BY PriceFeedAssumption DEF Told, Prices, Time

LEMMA ServeFresh ==
  ASSUME RouteInv, route' = route, NEW h, NEW asked1 \in Time, NEW taken1 \in Time,
         NEW stale1 \in BOOLEAN, route = "service" /\ ~stale1 => asked1 - taken1 < CacheTtl,
         Serve(h, asked1, taken1, stale1)
  PROVE  panel' \in Prices /\ card' \in Prices /\ FreshUnlessMarked'
<1> DEFINE age == asked1 - taken1
<1>1. Told(age, ~stale1) \in Prices /\ Told(age, TRUE) \in Prices
  BY AgeTypes
<1>2. Told(age, ~stale1).age = age /\ Told(age, ~stale1).isValid = ~stale1
  BY DEF Told
<1>3. panel' = panel \/ panel' = Told(age, ~stale1)
  BY DEF Serve
<1>4. card' = card \/ card' = Told(age, TRUE)
  BY DEF Serve, ApiPrice
<1> HIDE DEF age
<1>5. route' = "service" /\ panel'.isValid => panel'.age < CacheTtl
  <2>1. CASE panel' = panel
    BY <2>1 DEF RouteInv, FreshUnlessMarked
  <2>2. CASE panel' = Told(age, ~stale1)
    BY <1>2, <2>2 DEF age
  <2> QED
    BY <1>3, <2>1, <2>2
<1> QED
  BY <1>1, <1>3, <1>4, <1>5 DEF RouteInv, FreshUnlessMarked

\* A step that tells nobody anything, or nothing at all.
LEMMA QuietFresh ==
  ASSUME RouteInv, route' = route, panel' \in {panel, Nothing}
  PROVE  panel' \in Prices /\ FreshUnlessMarked'
<1>1. Nothing \in Prices /\ ~Nothing.isValid
  BY PriceFeedAssumption DEF Nothing, Told, Prices
<1> QED
  BY <1>1 DEF RouteInv, FreshUnlessMarked

LEMMA NothingKept ==
  ASSUME RouteInv, NEW h \in Handler
  PROVE  /\ fetching[h] # NoFetch => fetching[h].since \in Time /\ fetching[h].kept \in Stamp
         /\ priceCache # NoPrices => priceCache.dated \in Time /\ priceCache.taken \in Time
         /\ priceCache.dated # Never => priceCache # NoPrices
  BY DEF RouteInv, Fetches, Kept, NoPrices

LEMMA PriceStepFresh ==
  ASSUME RouteInv, [PriceStep]_priceVars
  PROVE  RouteInv'
<1> USE PriceFeedAssumption
<1>0. /\ clock \in Time /\ route \in {"service", "web"}
      /\ priceCache \in Kept /\ fetchCache \in Stamp /\ revalidating \in Stamp
      /\ fetching \in [Handler -> Fetches]
      /\ panel \in Prices /\ card \in Prices
      /\ route = "service" => OwnPrices
  BY DEF RouteInv
<1>a. Nothing \in Prices /\ Told(0, TRUE) \in Prices
  BY DEF Nothing, Told, Prices
<1>b. CASE UNCHANGED <<routeVars, card>> /\ panel' = panel /\ clock' \in Time
  BY <1>0, <1>b, QuietFresh DEF RouteInv, routeVars, OwnPrices
<1>1. CASE Tick \/ GetPrice \/ AddPoint \/ UNCHANGED priceVars
  <2>1. clock' \in Time
    <3>1. CASE Tick
      BY <1>0, <3>1 DEF Tick, Time
    <3>2. CASE GetPrice \/ AddPoint \/ UNCHANGED priceVars
      BY <1>0, <3>2 DEF GetPrice, AddPoint, priceVars
    <3> QED
      BY <1>1, <3>1, <3>2
  <2>2. UNCHANGED <<routeVars, card, panel>>
    BY <1>1 DEF Tick, GetPrice, AddPoint, priceVars, shownVars
  <2> QED
    BY <1>b, <2>1, <2>2
<1>3. CASE FetchPrice \/ OpenCharts
  <2>1. /\ UNCHANGED routeVars /\ clock' = clock
        /\ panel' \in {panel, Nothing} /\ card' \in {Nothing, Told(0, TRUE)}
    BY <1>3 DEF FetchPrice, OraclePrice, OpenCharts
  <2> QED
    BY <1>0, <1>a, <2>1, QuietFresh DEF RouteInv, routeVars, OwnPrices
<1>5. CASE Revalidated
  <2>1. /\ fetchCache' \in {fetchCache, revalidating} /\ revalidating' = Never
        /\ UNCHANGED <<clock, route, priceCache, fetching, panel, card>>
    BY <1>5 DEF Revalidated, shownVars
  <2>2. Never \in Stamp
    BY DEF Stamp
  <2>3. route = "service" => revalidating = Never
    BY DEF RouteInv, OwnPrices
  <2> QED
    BY <1>0, <2>1, <2>2, <2>3, QuietFresh DEF RouteInv, OwnPrices
<1>6. ASSUME NEW h \in Handler, GetExchangePrices(h)
      PROVE  RouteInv'
  <2>1. UNCHANGED <<clock, route, priceCache, fetchCache>>
    BY <1>6 DEF GetExchangePrices
  <2>2. CASE Younger(priceCache.dated, CacheTtl)
    <3>1. /\ Serve(h, clock, priceCache.taken, FALSE) /\ UNCHANGED <<fetching, revalidating>>
          /\ clock - priceCache.dated < CacheTtl /\ priceCache.taken \in Time
      BY <1>6, <2>2, NothingKept DEF GetExchangePrices, Younger
    <3>2. route = "service" => clock - priceCache.taken < CacheTtl
      BY <1>0, <3>1 DEF OwnPrices
    <3>3. panel' \in Prices /\ card' \in Prices /\ FreshUnlessMarked'
      BY <1>0, <2>1, <3>1, <3>2, ServeFresh
    <3> QED
      BY <1>0, <2>1, <3>1, <3>3 DEF RouteInv, OwnPrices
  <2>3. CASE ~Younger(priceCache.dated, CacheTtl)
    <3>1. Fetch(h) /\ UNCHANGED <<panel, card>>
      BY <1>6, <2>3 DEF GetExchangePrices, shownVars
    <3>2. /\ fetching' = [fetching EXCEPT ![h] = [since |-> clock, kept |-> fetchCache]]
          /\ revalidating' \in {clock, revalidating}
          /\ route = "service" => revalidating' = revalidating
      BY <1>0, <3>1 DEF Fetch, OwnPrices
    <3>3. fetching' \in [Handler -> Fetches] /\ revalidating' \in Stamp
      BY <1>0, <3>2 DEF Fetches, Stamp
    <3>4. route = "service" => OwnPrices'
      BY <1>0, <2>1, <3>2 DEF OwnPrices
    <3> QED
      BY <1>0, <2>1, <3>1, <3>3, <3>4, QuietFresh DEF RouteInv
  <2> QED
    BY <2>2, <2>3
<1>7. ASSUME NEW h \in Handler, ExchangesAnswer(h)
      PROVE  RouteInv'
  <2> DEFINE since == fetching[h].since
  <2>1. /\ UNCHANGED <<clock, route, revalidating>>
        /\ fetching' = [fetching EXCEPT ![h] = NoFetch]
        /\ priceCache' = [dated |-> since, taken |-> Fetched(h)]
        /\ fetchCache' \in {since, fetchCache}
        /\ route = "service" => fetchCache' = fetchCache
        /\ Serve(h, since, Fetched(h), FALSE)
    BY <1>0, <1>7 DEF ExchangesAnswer, Answered, KeepPrices, KeepAnswer
  <2>2. since \in Time /\ Fetched(h) \in Time
    BY <1>7, NothingKept DEF ExchangesAnswer, Fetched, Stamp
  <2>3. route = "service" => Fetched(h) = since
    BY <1>0 DEF Fetched, OwnPrices
  <2>4. route = "service" => since - Fetched(h) < CacheTtl
    BY <2>2, <2>3 DEF Time
  <2>5. panel' \in Prices /\ card' \in Prices /\ FreshUnlessMarked'
    <3>1. /\ route' = route /\ Serve(h, since, Fetched(h), FALSE)
          /\ route = "service" /\ ~FALSE => since - Fetched(h) < CacheTtl
      BY <2>1, <2>4
    <3> HIDE DEF since
    <3> QED
      BY <2>2, <3>1, ServeFresh
  <2>6. /\ fetching' \in [Handler -> Fetches] /\ priceCache' \in Kept /\ fetchCache' \in Stamp
    BY <1>0, <2>1, <2>2 DEF Fetches, Kept, Stamp
  <2>7. route = "service" => OwnPrices'
    <3>1. NoFetch.kept = Never
      BY DEF NoFetch
    <3> QED
      BY <1>0, <2>1, <2>3, <3>1 DEF OwnPrices
  <2> QED
    BY <1>0, <2>1, <2>5, <2>6, <2>7 DEF RouteInv
<1>8. ASSUME NEW h \in Handler, ExchangesFail(h)
      PROVE  RouteInv'
  <2>1. /\ UNCHANGED <<clock, route, revalidating, priceCache, fetchCache>>
        /\ fetching' = [fetching EXCEPT ![h] = NoFetch]
        /\ fetching[h] # NoFetch /\ ServeStale(h)
    BY <1>8 DEF ExchangesFail, Answered
  <2>2. panel' \in Prices /\ card' \in Prices /\ FreshUnlessMarked'
    <3>1. CASE priceCache # NoPrices
      BY <2>1, <3>1, NothingKept, ServeFresh DEF ServeStale
    <3>2. CASE priceCache = NoPrices
      <4>1. panel' = panel /\ card' = [card EXCEPT !.isValid = @ /\ h # Card]
        BY <2>1, <3>2 DEF ServeStale
      <4>2. card' \in Prices
        BY <1>0, <4>1 DEF Prices
      <4> QED
        BY <2>1, <4>1, <4>2, QuietFresh
    <3> QED
      BY <3>1, <3>2
  <2>3. fetching' \in [Handler -> Fetches]
    BY <1>0, <2>1 DEF Fetches
  <2>4. route = "service" => OwnPrices'
    <3>1. NoFetch.kept = Never
      BY DEF NoFetch
    <3> QED
      BY <1>0, <2>1, <3>1 DEF OwnPrices
  <2> QED
    BY <1>0, <2>1, <2>2, <2>3, <2>4 DEF RouteInv
<1> QED
  BY <1>1, <1>3, <1>5, <1>6, <1>7, <1>8 DEF PriceStep

LEMMA PriceStepRates ==
  ASSUME RouteInv, RateInv, [PriceStep]_priceVars
  PROVE  RateInv'
<1> USE DEF RateInv
<1>1. CASE GetPrice
  <2>1. lastFetch' \in {lastFetch, clock}
    BY <1>1 DEF GetPrice
  <2>2. Told(0, TRUE) \in Prices /\ Told(0, FALSE) \in Prices
    BY PriceFeedAssumption DEF Told, Prices
  <2>3. lastFetch # Never => Told(clock - lastFetch, TRUE) \in Prices
    BY AgeTypes DEF RouteInv, Stamp
  <2>4. \/ quoted' \in {Told(0, TRUE), Told(0, FALSE)}
        \/ lastFetch # Never /\ quoted' = Told(clock - lastFetch, TRUE)
    BY <1>1 DEF GetPrice, Younger
  <2> QED
    BY <2>1, <2>2, <2>3, <2>4 DEF RouteInv, Stamp
<1>2. CASE UNCHANGED rateVars
  BY <1>2 DEF rateVars
<1>3. [PriceStep]_priceVars => GetPrice \/ UNCHANGED rateVars
  BY DEF PriceStep, Tick, FetchPrice, AddPoint, OpenCharts, Revalidated, GetExchangePrices,
         ExchangesAnswer, ExchangesFail, Answered, priceVars
<1> QED
  BY <1>1, <1>2, <1>3

\* Time passes.
LEMMA ChartStays ==
  ASSUME NEW points, NEW today \in Nat, NEW tomorrow \in Nat, today <= tomorrow, Chart(points, today)
  PROVE  Chart(points, tomorrow)
<1>1. points \in Seq(Time) /\ Time \subseteq Nat
  BY PriceFeedAssumption DEF Chart, Spread, Time
<1>2. \A i \in 1..Len(points) : points[i] \in Time
  BY <1>1
<1>3. \A i \in 1..Len(points) : points[i] \in Nat /\ points[i] <= today
  BY <1>1, <1>2 DEF Chart, Spread
<1>4. \A i \in 1..Len(points) : points[i] <= tomorrow
  BY <1>3
<1> QED
  BY <1>4 DEF Chart, Spread

LEMMA RecentChart ==
  ASSUME clock \in Time, NEW points, Chart(points, clock)
  PROVE  Chart(Recent(points), clock)
<1>1. clock \in Nat /\ clock - Day \in Int /\ PointGap \in Nat /\ MaxPoints \in Nat
  BY PriceFeedAssumption DEF Time
<1>2. Spread(Recent(points), clock) /\ Len(Recent(points)) <= Len(points)
  BY <1>1, LaterSpread DEF Recent, Chart
<1>3. Len(Recent(points)) \in Nat /\ Len(points) \in Nat
  BY <1>2 DEF Chart, Spread
<1> QED
  BY <1>1, <1>2, <1>3 DEF Chart

LEMMA PriceStepCharts ==
  ASSUME RouteInv, ChartInv, [PriceStep]_priceVars
  PROVE  ChartInv'
<1>0. clock \in Time /\ clock \in Nat
  BY PriceFeedAssumption DEF RouteInv, Time
<1>1. CASE Tick
  <2>1. clock' \in Nat /\ clock <= clock' /\ UNCHANGED <<history, storedHistory>>
    BY <1>0, <1>1 DEF Tick, chartVars
  <2>2. Chart(history, clock') /\ Chart(storedHistory, clock')
    BY <1>0, <2>1, ChartStays DEF ChartInv
  <2> QED
    BY <2>1, <2>2 DEF ChartInv
<1>2. CASE AddPoint
  <2>1. /\ history' = WithPoint(history) /\ clock' = clock
        /\ storedHistory' = LastPoints(Recent(history'))
    BY <1>2 DEF AddPoint
  <2>2. Recent(history') = Recent(WithPoint(history))
    BY <2>1 DEF Recent
  <2>3. Chart(WithPoint(history), clock)
    BY <1>0, WithPointChart DEF ChartInv
  <2>4. Chart(LastPoints(Recent(WithPoint(history))), clock)
    BY <1>0, <2>3, RecentChart, LastPointsChart DEF Chart
  <2> QED
    BY <2>1, <2>2, <2>3, <2>4 DEF ChartInv
<1>3. CASE OpenCharts
  <2>1. history' = Recent(storedHistory) /\ storedHistory' = storedHistory /\ clock' = clock
    BY <1>3 DEF OpenCharts
  <2>2. Chart(Recent(storedHistory), clock)
    BY <1>0, RecentChart DEF ChartInv
  <2> QED
    BY <2>1, <2>2 DEF ChartInv
<1>4. CASE UNCHANGED <<clock, history, storedHistory>>
  BY <1>4 DEF ChartInv
<1>5. \/ Tick \/ AddPoint \/ OpenCharts
      \/ UNCHANGED <<clock, history, storedHistory>>
  BY DEF PriceStep, GetPrice, FetchPrice, Revalidated, GetExchangePrices, ExchangesAnswer,
         ExchangesFail, Answered, chartVars, priceVars
<1> QED
  BY <1>1, <1>2, <1>3, <1>4, <1>5

LEMMA PriceInvStep ==
  ASSUME PriceInv, [DAppNext]_vars
  PROVE  PriceInv'
<1>1. [PriceStep]_priceVars
  BY DEF DAppNext, MarketsNext, vars
<1> QED
  BY <1>1, PriceStepFresh, PriceStepRates, PriceStepCharts DEF PriceInv
-----------------------------------------------------------------------------
(* The strengthened invariants of the money pages and of the prices. *)
THEOREM FlowInvariant == DAppSpec => []FlowInv
  BY InitFlowInv, FlowStep, PTL DEF DAppSpec

(* Of the routes (index.ts:148-190), the rates and the chart. *)
THEOREM PriceInvariant == DAppSpec => []PriceInv
  BY InitPriceInv, PriceInvStep, PTL DEF DAppSpec

(* A transaction the user is told has succeeded was applied by the network, *)
(* whatever pages were left, sessions changed and polls failed meanwhile,   *)
(* for any accounts and number of transactions under way.                   *)
THEOREM SuccessTold == DAppSpec => []SuccessIsReal
<1>1. FlowInv => SuccessIsReal
  BY DEF FlowInv, SuccessIsReal, Real, At
<1> QED
  BY <1>1, FlowInvariant, PTL

(* An answer of the service's exchange route (index.ts:90-195) that is not   *)
(* marked as stale is younger than the cache's lifetime when it is asked    *)
(* for, for any number of requests that overlap and any lifetime.           *)
THEOREM PricesFresh == DAppSpec => []FreshUnlessMarked
<1>1. PriceInv => FreshUnlessMarked
  BY DEF PriceInv, RouteInv
<1> QED
  BY <1>1, PriceInvariant, PTL

LEMMA ChartSpaced ==
  ASSUME NEW points, NEW today, Chart(points, today)
  PROVE  Spaced(points) /\ Len(points) <= MaxPoints
  BY DEF Chart, Spread, Spaced

(* usePriceHistory: the points drawn and stored are never closer than the   *)
(* gap, for any gap, day, limit and rhythm of polls: replacing the last     *)
(* point, dropping old ones and reading the copy back keep their distance.  *)
THEOREM HistoryStaysSpaced == DAppSpec => []HistorySpaced
<1>1. PriceInv => HistorySpaced
  BY ChartSpaced DEF PriceInv, ChartInv, HistorySpaced, PriceChart
<1> QED
  BY <1>1, PriceInvariant, PTL

(* Types, and the button of useTransfer and useTreasury: it is busy exactly *)
(* while a transaction started on the open page is under way, for any       *)
(* number of transactions, of pages left and of failures.                   *)
THEOREM DAppTypeCorrect == DAppSpec => []DAppTypeOK
<1>1. PriceInv => PriceTypes
  <2> SUFFICES ASSUME PriceInv PROVE PriceTypes
    OBVIOUS
  <2>1. Len(history) <= MaxPoints /\ Len(storedHistory) <= MaxPoints
    BY ChartSpaced DEF PriceInv, ChartInv
  <2> QED
    <3>1. Kept \subseteq [dated : Stamp, taken : Stamp] /\ Fetches \subseteq [since : Stamp, kept : Stamp]
      BY DEF Kept, Fetches, NoPrices, NoFetch, Stamp
    <3>2. fetching \in [Handler -> [since : Stamp, kept : Stamp]]
      BY <3>1 DEF PriceInv, RouteInv
    <3> QED
      BY <2>1, <3>1, <3>2 DEF PriceInv, RouteInv, RateInv, PriceTypes
<1>2. FlowInv => (isProcessing = (\E f \in FlowSlot : flow[f].live /\ flow[f].at \in UnderWay))
  <2> SUFFICES ASSUME FlowInv
               PROVE  isProcessing = (\E f \in FlowSlot : flow[f].live /\ flow[f].at \in UnderWay)
    OBVIOUS
  <2>1. isProcessing \in BOOLEAN
    BY DEF FlowInv, Button
  <2>2. CASE isProcessing = TRUE
    <3>1. \E f \in FlowSlot : flow[f].live /\ flow[f].at \in UnderWay
      BY <2>2 DEF FlowInv, Button, Busy
    <3> QED
      BY <2>2, <3>1
  <2>3. CASE isProcessing = FALSE
    <3>1. ~\E f \in FlowSlot : flow[f].live /\ flow[f].at \in UnderWay
      BY <2>3 DEF FlowInv, Button, Busy
    <3> QED
      BY <2>3, <3>1
  <2> QED
    BY <2>1, <2>2, <2>3
<1>3. FlowInv /\ PriceInv => DAppTypeOK
  BY <1>1, <1>2 DEF FlowInv, ScreenTypes, DAppTypeOK, Flow, Places, Fates
<1> QED
  BY <1>3, FlowInvariant, PriceInvariant, PTL
=============================================================================
