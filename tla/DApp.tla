-------------------------------- MODULE DApp --------------------------------
(***************************************************************************)
(* The pages of the web application that move money: sending tokens         *)
(* (send-receive.tsx) and proposing to mint or burn (balance-card.tsx),     *)
(* with the hooks under them (useBalance, useTransfer, useTreasury), the    *)
(* client of the network (client.ts), the wallet session they share         *)
(* (Session) and the prices (PriceFeed).  A transaction outlives the page   *)
(* that started it.  What shows prices, on whatever page, shares nothing    *)
(* with the rest: it is gathered on the page called markets.                *)
(***************************************************************************)
EXTENDS Session, PriceFeed

CONSTANTS FlowSlot      \* the bound: transactions under way at once

ASSUME DAppAssumption == FlowSlot \subseteq Nat

VARIABLES
    page,
    modal,              \* of the balance card: "mint", "burn" or None
    isProcessing,       \* of the open page's hook
    flow,               \* transactions, from the press of the button on
    shown,              \* whose balance is on show
    asked               \* whose balance is being read

moneyVars == <<page, modal, isProcessing, flow>>
balanceVars == <<shown, asked>>
appVars == <<moneyVars, balanceVars>>
vars == <<sessionVars, priceVars, appVars>>

\* Where a transaction is on its way to the network and back.
UnderWay == {"oracle", "build", "sign", "send", "poll"}

\* A live transaction's page is still open.
NoFlow == [from |-> None, at |-> "idle", fate |-> "none", live |-> FALSE]

WalletPage == {"trade", "dashboard"}

DAppInit ==
    /\ SessionInit /\ PriceInit
    /\ page \in WalletPage \cup {"markets"}
    /\ modal = None /\ isProcessing = FALSE
    /\ flow = [f \in FlowSlot |-> NoFlow]
    /\ shown = None /\ asked = {}
-----------------------------------------------------------------------------
\* The balance is read anew when the account changes, and only then.
FollowAccount ==
    IF publicKey' = publicKey THEN UNCHANGED balanceVars
    ELSE IF publicKey' = None THEN shown' = None /\ UNCHANGED asked
    ELSE asked' = asked \cup {publicKey'} /\ UNCHANGED shown

\* The last answer to arrive is on show, whichever account it is about; a read
\* that fails answers too, with zero.
TakeBalance(a) ==
    /\ a \in asked
    /\ shown' = a
    /\ asked' = asked \ {a}
    /\ UNCHANGED moneyVars
-----------------------------------------------------------------------------
At(f, place) == flow[f].at = place

\* A success on show is taken off the page.
Dismissed == [f \in FlowSlot |-> IF At(f, "success") THEN NoFlow ELSE flow[f]]

TellingSuccess == \E f \in FlowSlot : At(f, "success")

\* A button is pressed.
Start(place) ==
    LET free == {f \in FlowSlot : At(f, "idle")} IN
    /\ publicKey # None
    /\ ~isProcessing
    /\ ~TellingSuccess
    /\ free # {}
    /\ isProcessing' = TRUE
    /\ LET f == CHOOSE g \in free : \A h \in free : g <= h IN
       flow' = [flow EXCEPT ![f] = [from |-> publicKey, at |-> place, fate |-> "none", live |-> TRUE]]

\* The form to send; without a wallet the card only offers to connect one.
SendForm == page = "trade" /\ publicKey # None

\* The amount is at most the balance on show, the address valid and another's.
HandleSend ==
    /\ SendForm
    /\ shown # None
    /\ Start("build")
    /\ UNCHANGED <<page, modal, balanceVars>>

HandleCloseSuccess ==
    /\ SendForm
    /\ TellingSuccess
    /\ flow' = Dismissed
    /\ UNCHANGED <<page, modal, isProcessing, balanceVars>>

\* The card with the balance and its two buttons.
BalanceCard == page = "dashboard" /\ publicKey # None

OpenModal(kind) ==
    /\ BalanceCard
    /\ modal = None
    /\ modal' = kind
    /\ flow' = Dismissed
    /\ UNCHANGED <<page, isProcessing, balanceVars>>

\* Also while its transaction is under way.
CloseModal ==
    /\ BalanceCard
    /\ modal # None
    /\ modal' = None
    /\ flow' = Dismissed
    /\ UNCHANGED <<page, isProcessing, balanceVars>>

\* The form of the dialog, which gives way to the news of a success.
TradeForm == BalanceCard /\ modal # None /\ ~TellingSuccess

\* A burn passes the balance check when the balance on show is zero.
HandleTrade ==
    /\ TradeForm
    /\ Start("oracle")
    /\ UNCHANGED <<page, modal, balanceVars>>
-----------------------------------------------------------------------------
GoOn(f, place) ==
    /\ flow' = [flow EXCEPT ![f].at = place]
    /\ UNCHANGED <<page, modal, isProcessing, balanceVars>>

\* Slip: the transaction of a page left behind frees the button of another.
EndAnyhow(f, transaction) ==
    /\ flow' = [flow EXCEPT ![f] = transaction]
    /\ isProcessing' = FALSE
    /\ UNCHANGED <<page, modal, shown>>

\* The end, which frees the button of the page that started it if still open.
End(f, transaction) ==
    /\ flow' = [flow EXCEPT ![f] = transaction]
    /\ isProcessing' = (isProcessing /\ ~flow[f].live)
    /\ UNCHANGED <<page, modal, shown>>

\* Told in passing.
Fail(f) == End(f, NoFlow) /\ UNCHANGED asked

\* Told until dismissed; the balance read anew is that of the account the
\* transaction was started with.
Succeed(f) ==
    /\ End(f, [flow[f] EXCEPT !.at = "success"])
    /\ asked' = asked \cup {flow[f].from}

\* Slip: a stale price is told without resetting the hook.
CheckOracleEarlyReturn(f) ==
    /\ At(f, "oracle")
    /\ \/ GoOn(f, "build")
       \/ /\ flow' = [flow EXCEPT ![f] = NoFlow]
          /\ UNCHANGED <<page, modal, isProcessing, balanceVars>>

CheckOracle(f) ==
    /\ At(f, "oracle")
    /\ GoOn(f, "build") \/ Fail(f)

\* Account, simulation: what the contract would refuse ends here.
Build(f) ==
    /\ At(f, "build")
    /\ GoOn(f, "sign") \/ Fail(f)

\* The user signs or declines, in time or not.
Sign(f) ==
    /\ At(f, "sign")
    /\ GoOn(f, "send") \/ Fail(f)

\* Accepted; refused (the wrong account's signature, too late); or no answer.
\* The polls of a page left behind change nothing, and are not followed.
Send(f) ==
    /\ At(f, "send")
    /\ \/ /\ flow' = [flow EXCEPT ![f] = IF @.live THEN [@ EXCEPT !.at = "poll", !.fate = "pending"]
                                        ELSE NoFlow]
          /\ UNCHANGED <<page, modal, isProcessing, balanceVars>>
       \/ Fail(f)

\* Slip: a transaction that is found has succeeded.
PollFound(f) ==
    /\ At(f, "poll")
    /\ flow[f].fate \in {"applied", "failed"} /\ Succeed(f)

\* Once a second, without end while the transaction is not found.
Poll(f) ==
    /\ At(f, "poll")
    /\ \/ flow[f].fate = "applied" /\ Succeed(f)
       \/ flow[f].fate = "failed" /\ Fail(f)

\* A poll that is not answered is told as a failure, whatever becomes of the
\* transaction.
PollFails(f) == At(f, "poll") /\ Fail(f)

\* The network: a transaction it has not included in time is never found.
Settle(f) ==
    /\ flow[f].fate = "pending"
    /\ \E fate \in {"applied", "failed", "lost"} : flow' = [flow EXCEPT ![f].fate = fate]
    /\ UNCHANGED <<page, modal, isProcessing, balanceVars>>
-----------------------------------------------------------------------------
\* A page that is left, or loaded anew, forgets what it was doing.
Leave(next, transactions) ==
    /\ page' = next
    /\ modal' = None
    /\ isProcessing' = FALSE
    /\ flow' = transactions
    /\ shown' = None
    /\ asked' = {publicKey'} \ {None}

\* What is not yet handed to the network goes on, with nobody to tell.
Left ==
    [f \in FlowSlot |-> IF flow[f].at \in UnderWay \ {"poll"}
                        THEN [flow[f] EXCEPT !.live = FALSE, !.from = None] ELSE NoFlow]

Navigate(p) ==
    /\ page # p
    /\ UNCHANGED sessionVars
    /\ Leave(p, Left)

\* Transactions not yet handed to the network are gone for good.
ReloadPage ==
    /\ Reload
    /\ Leave(page, [f \in FlowSlot |-> NoFlow])

Screen ==
    \/ HandleSend \/ HandleCloseSuccess \/ CloseModal \/ HandleTrade
    \/ \E kind \in {"mint", "burn"} : OpenModal(kind)
    \/ \E a \in Account : TakeBalance(a)

Work(f) == CheckOracle(f) \/ Build(f) \/ Send(f) \/ Poll(f) \/ Settle(f)

WalletPagesNext ==
    \/ SessionStep /\ FollowAccount /\ UNCHANGED moneyVars
    \/ ReloadPage
    \/ \E p \in WalletPage : Navigate(p)
    \/ Screen /\ UNCHANGED sessionVars
    \/ \E f \in FlowSlot : (Work(f) \/ Sign(f) \/ PollFails(f)) /\ UNCHANGED sessionVars

MarketsNext == page = "markets" /\ PriceStep

DAppNext ==
    \/ page \in WalletPage /\ WalletPagesNext /\ UNCHANGED priceVars
    \/ MarketsNext /\ UNCHANGED <<sessionVars, appVars>>

\* Calls of the network are answered or fail, and the network settles what it
\* has accepted; the user, and the wallet, may never do anything.
DAppFairness ==
    \A f \in FlowSlot : WF_vars(Work(f) /\ UNCHANGED <<sessionVars, priceVars>>)

DAppSpec == DAppInit /\ [][DAppNext]_vars /\ DAppFairness
-----------------------------------------------------------------------------
(* The types, and: the button of the open page is busy exactly while a       *)
(* transaction this page has started is under way, over pages left and       *)
(* entered, failures, and transactions of pages left behind.                 *)
DAppTypeOK ==
    /\ SessionTypes /\ PriceTypes
    /\ page \in WalletPage \cup {"markets"}
    /\ modal \in {"mint", "burn", None}
    /\ flow \in [FlowSlot -> [from : Account \cup {None},
                              at : UnderWay \cup {"idle", "success"}, live : BOOLEAN,
                              fate : {"none", "pending", "applied", "failed", "lost"}]]
    /\ isProcessing = (\E f \in FlowSlot : flow[f].live /\ flow[f].at \in UnderWay)
    /\ shown \in Account \cup {None}
    /\ asked \subseteq Account

(* A transaction the user is told has succeeded was applied by the network.  *)
(* (One that he is told has failed may still be: an answer that is lost.)    *)
SuccessIsReal ==
    \A f \in FlowSlot : At(f, "success") => flow[f].fate = "applied"

(* The button of a page comes back, whatever fails on the way, unless the    *)
(* user leaves the wallet's question open or the network never includes the  *)
(* transaction: nothing ends the polling of one that is not found.           *)
ButtonComesBack ==
    []<>(\/ ~isProcessing
         \/ \E f \in FlowSlot : flow[f].live /\ (At(f, "sign") \/ flow[f].fate = "lost"))
=============================================================================
