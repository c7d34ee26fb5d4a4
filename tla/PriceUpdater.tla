---------------------------- MODULE PriceUpdater ----------------------------
(***************************************************************************)
(* The price updater (services/price-updater) against the oracle.  A run    *)
(* is one invocation of the script: it asks whether it is an operator,      *)
(* fetches three exchanges, posts one batch and polls for its confirmation. *)
(* Runs of one key may overlap: a scheduled one, one started by hand, and   *)
(* what the network still holds of one that was killed.  An action is what  *)
(* the script does from one await to the next.                              *)
(***************************************************************************)
EXTENDS Oracle

CONSTANTS
    Run,
    Operator,           \* the account whose key the script signs with
    TIMEOUT_SECONDS, MAX_ATTEMPTS, MIN_EXCHANGES,
    LowestPrice, HighestPrice,
    \* What the outside world answers:
    Answers,            \* the answers of the exchanges, in one fetch
    ClockLead           \* how far a clock is ahead of the last closed ledger

\* A failed request and a malformed answer have a zero somewhere.
Answer == [ask : Nat, bid : Nat, time : Nat]

ASSUME UpdaterAssumption ==
    /\ Operator \in Address \ OracleAccount
    /\ {TIMEOUT_SECONDS, MAX_ATTEMPTS, MIN_EXCHANGES, LowestPrice, HighestPrice} \subseteq Nat
    /\ MIN_EXCHANGES > 0 /\ LowestPrice > 0
    /\ Answers \subseteq [Exchange -> Answer]
    /\ ClockLead \subseteq Nat

VARIABLES
    stage,              \* what each run is waiting for: idle, authorizing, fetching, loading,
                        \* simulating, sending, polling, ended
    fetched,            \* the exchanges' answers it kept, until it builds the batch
    batch,              \* the transaction it built
    polls, report,      \* the polls made, and what it says at its end
    tx,                 \* what the network makes of its transaction
    account_sequence    \* the operator's, on the chain

script      == <<stage, fetched, batch, polls, report>>
chain       == <<tx, account_sequence>>
updaterVars == <<script, chain, oracleVars, now>>

Nothing   == [ask |-> 0, bid |-> 0, time |-> 0]
NoAnswers == [e \in Exchange |-> Nothing]

NoBatch == [quotes |-> [e \in Exchange |-> [ask |-> 0, bid |-> 0]],
            timestamp |-> 0, sequence |-> 0, until |-> 0]

UpdaterInit ==
    /\ OracleInit
    /\ stage = [r \in Run |-> "idle"]
    /\ fetched = [r \in Run |-> NoAnswers]
    /\ batch = [r \in Run |-> NoBatch]
    /\ polls = [r \in Run |-> 0]
    /\ report = [r \in Run |-> "none"]
    /\ tx = [r \in Run |-> "none"]
    /\ account_sequence = 0
-----------------------------------------------------------------------------
GoesOn(r, from, to) == /\ stage[r] = from
                       /\ stage' = [stage EXCEPT ![r] = to]

Ends(r, from, said) == /\ GoesOn(r, from, "ended")
                       /\ report' = [report EXCEPT ![r] = said]

Start(r) == /\ GoesOn(r, "idle", "authorizing")
            /\ UNCHANGED <<fetched, batch, polls, report, chain>>

\* The simulated is_operator does not count the admin.  It may also fail.
CheckOperatorStatus(r) ==
    /\ \/ Operator \in operators /\ GoesOn(r, "authorizing", "fetching") /\ UNCHANGED report
       \/ Ends(r, "authorizing", "failed")
    /\ UNCHANGED <<fetched, batch, polls, chain>>

\* Slip: ask and bid are not compared.
AnyPricesInRange(a) ==
    /\ a.ask # 0 /\ a.bid # 0 /\ a.time # 0
    /\ a.ask \in LowestPrice..HighestPrice /\ a.bid \in LowestPrice..HighestPrice

\* fetchExchangePrice keeps an answer that is complete, in range and uncrossed.
Sane(a) ==
    /\ a.ask # 0 /\ a.bid # 0 /\ a.time # 0
    /\ a.ask \in LowestPrice..HighestPrice /\ a.bid \in LowestPrice..HighestPrice
    /\ a.ask >= a.bid

FetchAllPrices(r) ==
    \E answers \in Answers :
        LET kept == [e \in Exchange |-> IF Sane(answers[e]) THEN answers[e] ELSE Nothing]
            enough == Cardinality({e \in Exchange : kept[e] # Nothing}) >= MIN_EXCHANGES IN
        /\ \/ /\ enough
              /\ GoesOn(r, "fetching", "loading")
              /\ fetched' = [fetched EXCEPT ![r] = kept]
              /\ UNCHANGED report
           \/ ~enough /\ Ends(r, "fetching", "failed") /\ UNCHANGED fetched
        /\ UNCHANGED <<batch, polls, chain>>

LatestTime(kept) ==
    CHOOSE t \in {kept[e].time : e \in Exchange} : \A e \in Exchange : kept[e].time <= t

\* Slip: the batch has the date of its latest quote.
DateOfQuotes(kept, clock) == LatestTime(kept)

\* One date for the whole batch: the script's clock, or a quote ahead of it.
DateOfBatch(kept, clock) ==
    IF LatestTime(kept) > clock THEN LatestTime(kept) ELSE clock

\* getAccount fails, or the batch is built on the sequence number it answers.
BuildBatch(r) ==
    \/ Ends(r, "loading", "failed") /\ UNCHANGED <<fetched, batch, polls, chain>>
    \/ \E lead \in ClockLead :
        /\ GoesOn(r, "loading", "simulating")
        /\ batch' = [batch EXCEPT ![r] =
                [quotes    |-> [e \in Exchange |-> [ask |-> fetched[r][e].ask,
                                                    bid |-> fetched[r][e].bid]],
                 timestamp |-> DateOfBatch(fetched[r], now + lead),
                 sequence  |-> account_sequence + 1,
                 until     |-> now + lead + TIMEOUT_SECONDS]]
        /\ fetched' = [fetched EXCEPT ![r] = NoAnswers]
        /\ UNCHANGED <<polls, report, chain>>

\* The oracle refuses others than operators and traps on a date ahead of its
\* ledger; nothing else stops a batch, which holds a positive quote at least.
Accepted(b, time) == IsOperator(Operator) /\ b.timestamp <= time

\* The RPC simulates at its own clock.
Simulate(r) ==
    /\ \/ /\ \E lead \in ClockLead : Accepted(batch[r], now + lead)
          /\ GoesOn(r, "simulating", "sending")
          /\ UNCHANGED report
       \/ Ends(r, "simulating", "failed")
    /\ UNCHANGED <<fetched, batch, polls, chain>>

\* Only an ERROR answer counts as refused, TRY_AGAIN_LATER does not.  When the
\* answer is lost the network may hold the transaction all the same.
SendTransaction(r) ==
    /\ \/ /\ batch[r].sequence = account_sequence + 1 /\ now <= batch[r].until
          /\ tx' = [tx EXCEPT ![r] = "held"]
       \/ UNCHANGED tx
    /\ \/ GoesOn(r, "sending", "polling") /\ UNCHANGED report
       \/ Ends(r, "sending", "failed")
    /\ UNCHANGED <<fetched, batch, polls, account_sequence>>

\* Not found, or an error that is none of the parser's.
PollAgain(r) ==
    /\ stage[r] = "polling" /\ polls[r] < MAX_ATTEMPTS
    /\ polls' = [polls EXCEPT ![r] = @ + 1]
    /\ UNCHANGED <<stage, fetched, batch, report, chain>>

\* An answer the SDK cannot parse is taken for a success, a refusal included.
PollSettled(r) ==
    /\ polls[r] < MAX_ATTEMPTS
    /\ \/ tx[r] \in {"stored", "refused"} /\ Ends(r, "polling", "success")
       \/ tx[r] = "refused" /\ Ends(r, "polling", "failed")
    /\ UNCHANGED <<fetched, batch, polls, chain>>

\* Out of polls it says the same, whatever becomes of the transaction.
GiveUpPolling(r) ==
    /\ polls[r] = MAX_ATTEMPTS
    /\ Ends(r, "polling", "success")
    /\ UNCHANGED <<fetched, batch, polls, chain>>

\* The job's time is up, or somebody stops the script.
Kill(r) == /\ stage[r] \notin {"idle", "ended"}
           /\ Ends(r, stage[r], "none")
           /\ UNCHANGED <<fetched, batch, polls, chain>>
-----------------------------------------------------------------------------
\* A transaction is applied on the account's next sequence number, in time.
Apply(r) ==
    /\ tx[r] = "held"
    /\ batch[r].sequence = account_sequence + 1
    /\ now <= batch[r].until
    /\ account_sequence' = account_sequence + 1
    /\ \/ /\ UpdatePricesBatch(Operator, batch[r].quotes, batch[r].timestamp)
          /\ tx' = [tx EXCEPT ![r] = "stored"]
       \/ /\ ~Accepted(batch[r], now)
          /\ tx' = [tx EXCEPT ![r] = "refused"]
          /\ UNCHANGED oracleVars

\* Somebody sets the oracle up, with the operator in it or without.
SetUp == \E a \in OracleAccount, initial \in SUBSET {Operator} : InitializeOracle(a, initial)

\* The admin gives or takes the operator's right.
Govern == \E a \in OracleAccount : AddOperator(a, Operator) \/ RemoveOperator(a, Operator)

RunStep(r) ==
    /\ \/ CheckOperatorStatus(r) \/ FetchAllPrices(r) \/ BuildBatch(r) \/ Simulate(r)
       \/ SendTransaction(r) \/ PollAgain(r) \/ PollSettled(r) \/ GiveUpPolling(r)
    /\ UNCHANGED <<oracleVars, now>>

UpdaterNext ==
    \/ \E r \in Run : \/ RunStep(r)
                      \/ (Start(r) \/ Kill(r)) /\ UNCHANGED <<oracleVars, now>>
                      \/ Apply(r) /\ UNCHANGED <<script, now>>
    \/ (SetUp \/ Govern) /\ UNCHANGED <<script, chain, now>>
    \/ PassTime /\ UNCHANGED <<script, chain, oracleVars>>

UpdaterSpec == UpdaterInit /\ [][UpdaterNext]_updaterVars
-----------------------------------------------------------------------------
(* While the updater is the only one to post, an average is uncrossed and   *)
(* in the range the script believes in (criptoya.ts:87), though the oracle  *)
(* checks neither of a batch and mixes sources of several runs.             *)
AverageSane ==
    aggregated # NoAggregate =>
        /\ LowestPrice <= aggregated.bid
        /\ aggregated.bid <= aggregated.ask
        /\ aggregated.ask <= HighestPrice

(* The oracle compares no dates (lib.rs:192), and overlapping runs may be   *)
(* applied in either order or late.  No price is replaced by one dated      *)
(* earlier all the same: of two batches built on one sequence number only   *)
(* one is applied, and a batch built after another was applied is dated no  *)
(* earlier, because a batch dated ahead of the ledger traps.                *)
DatesForward ==
    [][\A e \in Exchange : exchange_price'[e].timestamp >= exchange_price[e].timestamp]_updaterVars

(* A batch enters the oracle within the transaction's timeout of its date,  *)
(* or never: whatever its run reported, and whether it still runs, was      *)
(* killed or has given up polling with "success" (stellar.ts:74-79, 108,    *)
(* 168).  No stored date comes from a clock that has moved on further.      *)
PricesArriveInTime ==
    [][\A e \in Exchange : exchange_price'[e] # exchange_price[e] =>
           now <= exchange_price'[e].timestamp + TIMEOUT_SECONDS]_updaterVars
=============================================================================
