# BOBT in TLA+

A verification development kept beside the BOBT stablecoin: TLA+ modules of its
contracts, of the services around them, of the script that deploys them and of the
web application in front of them; TLC configurations that check the modules on small
instances; and proofs checked by TLAPS for every instance.

## 1. The system

BOBT is a token on Stellar (Soroban) meant to be worth one boliviano. Its parts:

| Part | Source | State | Operations | Who it talks to |
|---|---|---|---|---|
| Token | `contracts/bobt_token` | balances, supply, allowances, roles, frozen accounts, pause, audit trail of mints and burns | SEP-41 transfers and allowances; `admin_mint`, `mint`, `burn`, `burn_from`, `admin_burn`; `pause`, `freeze`, clawback; roles, ownership | called by holders, the treasury and the ramp service |
| Treasury | `contracts/treasury` | signers, threshold, proposals, approvals, daily counters, oracle address | `propose_*`, `approve`, `cancel`, `execute`, queries that reset the counters | calls token and oracle inside `execute`, oracle inside `propose_mint_from_usdt` |
| Oracle | `contracts/oracle` | admin, operators, last price of three exchanges, last average | `update_price`, `update_prices_batch`, operators, conversions | called by the updater and the treasury |
| Upgrader | `contracts/upgrader` | none | upgrade and migrate in one transaction | calls the token |
| Ramp service | `services/ramp-service` | requests in memory, simulated deposits, two price caches | create, cancel, verify (operator, simulator, bank), process (mint), full flow; quotes and prices | the bank's API, exchanges, the Stellar RPC, token and oracle |
| Price updater | `services/price-updater` | none | fetch three exchanges, post one batch | CriptoYa, the oracle |
| Deployment | `scripts/deploy` | a JSON file saved after every step; keys on the machine | deploy, initialize, propose, approve and execute the oracle's address, grant | all contracts, through the CLI |
| Client library | `packages/stellar` | React state, browser storage | wallet session, balances, transfers, mint and burn proposals, prices, ramp requests | wallet extension, Stellar RPC, ramp service |
| Web | `apps/app` | React state | buy/sell card, send, mint and burn dialogs, wallet button, price pages, API routes | client library, ramp service |
| Landing site, UI kit, scripts | `apps/web`, `packages/ui`, `scripts` | none | presentation; driving a test network | |

What makes each part correct, and what is hard about it:

* **Token.** The supply is the sum of the balances, under the cap, and explained by the
  audit trail; freezing, pausing and allowances stop what they promise to stop. Hard: seven
  paths change balances, three of them outside the common helper's checks; two mint entry
  points share one trail; a freeze or a pause may come between an approval and its use.
* **Treasury.** One decision per proposal, on a quorum of distinct approvers, within daily
  limits. Hard: signers, threshold and oracle change by proposals that are pending at the
  same time as the proposals they affect; expiry and the daily window depend on the ledger.
* **Oracle.** A served average is fresh, rests on enough sources, and cannot be exploited
  by converting back and forth. Hard: integer division, unsigned ages, sources of different
  age.
* **Composition.** The treasury's proposals and the token's trail agree, deposits are paid
  at the price of the moment, and what a day can mint is bounded. Hard: state of two
  contracts changes in one call, and other calls fall between proposal and execution.
* **Ramp service.** One mint per request, finished requests stay finished, every mint call
  returns. Hard: handlers interleave at every `await`, answers get lost, polls run out, and
  the process forgets everything when it restarts.
* **Price updater.** Dates on record never run backward, averages stay sane, a batch
  reaches the oracle in time or never. Hard: runs overlap, answers get lost, and a
  transaction outlives its run, which may have reported success by then.
* **Deployment.** The file says only what is so, whatever was killed and resumed, and what
  it has recorded stays. Hard: every command may fail, or take effect and fail to say so;
  the last steps swallow their errors; the file travels and the keys do not.
* **Buy/sell card.** What it tells the user of a request is true, and it notices the end.
  Hard: polls, creations, cancellations, reloads of the list and simulated mints are in
  flight together, across changes of account and restarts of the service.
* **Money pages.** A told success is real, and a button comes back. Hard: a transaction
  outlives the page and the session that started it; nothing limits the polling.
* **Prices.** What is not marked stale is fresh; the chart's points are spaced. Hard: cached
  answers overtaken by slower ones, caches on top of caches, failing exchanges, a history
  that outlives the page.

## 2. Modules

```
Accounts   Tally      StellarNetwork              shared ground
   |         |           |
StablecoinLedger      Multisig      RampRequests  abstract specifications
   |  refined by          |  refined by   |  refined by RampService
BOBTToken             Treasury    Oracle  |       the contracts
   \______________________|_________/ |   |
                      BOBTSystem      |   |       their composition
                                PriceUpdater      the updater, around the oracle
Deployment                                |       the script, with the contracts it leaves
                                       RampApp    a tab, around what the service promises
Session   PriceFeed
   \_________/
      DApp                                        the other pages of the web application
```

| Module | Models |
|---|---|
| `Accounts`, `StellarNetwork`, `Tally` | the finite set of addresses; external references and the ledger number; the sum of a function of naturals, defined without recursion so that sums can be proved about |
| `StablecoinLedger` | what a capped, fully accounted token promises: issue, retire, move |
| `BOBTToken` | every entry point of the token contract that changes state (`rescue_tokens`, `upgrade` and `migrate` excepted) |
| `Multisig` | what an M-of-N treasury promises: open, vote, withdraw, decide once on enough votes; a lapsed motion can only be withdrawn; nothing but a decision changes members or quorum |
| `Treasury` | every entry point of the treasury; `execute` is one action per type of proposal |
| `Oracle` | every entry point of the oracle |
| `BOBTSystem` | the three contracts, each call between contracts being the conjunction of both contracts' actions |
| `PriceUpdater` | overlapping runs of the updater, the network between them and the oracle |
| `RampRequests` | what the ramp service promises of a request: its one way from payment or cancellation to a single mint, and what a restart forgets |
| `RampService` | the ramp service with the bank and the network around it |
| `RampApp` | a browser tab with the buy/sell card, its hook and its HTTP client, in front of `RampRequests` |
| `Deployment` | the deployment script, the file, the machine and the contracts on chain |
| `Session` | the wallet session the pages share, with the wallet extension and the browser's storage |
| `PriceFeed` | the exchange route of the ramp service and of the web application, with the cache both have and the fetch cache of Next under the second; the rate service and its cache; the exchange panel, the price card and the chart |
| `DApp` | the pages that send, mint and burn, composed with `Session` and `PriceFeed` |
| `MC*` | values for TLC |
| `BOBTTokenProofs`, `TreasuryProofs`, `PriceProofs` (oracle and updater), `BOBTSystemProofs`, `DeploymentProofs`, `RampServiceProofs`, `RampAppProofs`, `DAppProofs` | theorems and lemmas of those modules (section 4) |

How state and actions correspond to the code:

**Contracts.** Names are the source's wherever TLA+ allows it. A Soroban call runs alone and
is rolled back whole when it returns an error or panics, also when the error comes from a
contract it calls; so an entry point is one action, each early return is a conjunct of its
guard, a trap (an unsigned subtraction below zero; `overflow-checks = true` in the
contracts' `Cargo.toml`) is a conjunct too, and a rejected call is no step. `require_auth`
makes the caller a parameter of the action. Storage entries are variables; an absent entry
is a null value (`NoAllowance`, `NoPrice`, `NoOracle`). Sets replace the code's maps of
requests (records carry their id) and roles; the signer list, whose order nothing reads, is
a multiset, because it can hold an address twice.

**JavaScript.** An action is what runs between two `await`s, in Node and in the browser.
In `RampService`, `status` is the request's status in the store; `verifying` holds the
auto-verify handlers waiting for the bank; `mint` and `attempts` follow each `mintBOBT` call
through submission and polling; `tx` is what the network makes of the transaction, `bank`
what the bank has credited. A submission's answer may be lost after the network took the
transaction, the network may include, refuse or drop it, and `Restart` empties everything
but the outside world. The statuses `payment_received` and `pending_verification` are set
and left inside one step; `pending_approval`, `failed` and `refunded` are set by no handler.

In `RampApp`, `calls` holds the HTTP calls in flight, each first on its way to the service,
then on its way back with the answer; `Answer*` is the service's side, `Take*` what the
handler does with the answer, `Lost` a call or an answer that does not arrive. Other tabs,
operators, bank and chain are `RampRequests`' own steps: the service is replaced by its
abstract specification, which `RampService` is proved to implement. Calls have slots, and
polls slots of their own, because the timer asks again while earlier polls are unanswered.
`isSimulating` is the slot of the simulation the payment view on show has begun: a view
mounted later has its own state, and the end of an earlier view's simulation is nothing to
it.

In `DApp`, `flow` holds transactions from the press of the button on: the oracle's check,
building, the wallet's signature, sending, polling. `live` tells whether the page that
started one is still open; leaving the page takes the state of its hooks away, not the code
that awaits. `fate` is the network's. `shown` and `asked` are whose balance is on show and
whose is being read.

In `PriceFeed` prices are the time they were taken at; what a page shows (`panel`, `card`)
or a quote is made with (`quoted`) is their age when asked for and whether they are held for
valid. `route` is the route that is asked, which does not change in a behaviour: the ramp
service's, or the web application's. `priceCache` keeps how the prices are dated apart from
when they were taken, because in the web application the two differ: Next (external to the
repository, modelled by what `next: { revalidate }` asks of it) answers the route's fetch
with what it keeps (`fetchCache`), of any age, and fetches anew in the background
(`revalidating`). One server instance is assumed, which is one `priceCache`; more of them
have one each.

**Deployment.** `saved` is the file, `config` what the running script knows, `pc` where
`main` is; `written` says whether the step's save has happened. `keys` are the identities
of the machine, `instances` the contracts on chain, forgotten ones included. Every command
may fail, or take effect with its answer lost; `Killed` ends the script anywhere.
`GrantAnswers` is what the token may answer to the role the script asks for: as that is
`"MINTER"`, which the token does not know, nothing but a refusal, so that the branches of
`deploy.ts:392-402` that set the minter's flag are not taken. The one for a role that was
granted already (`:398`) could not be with a known name either: granting twice is no error
of the token's.

**Price updater.** `report` is what a run says at its end: success when its transaction is
stored, when the SDK cannot parse the answer (also to a refused one), and when its polls
run out (`stellar.ts:168`); nothing when it is killed.

**Abstractions.** Events, TTL extension and state archival, timestamps of audit records,
`created_at`, mid price and spread (read by no contract) are left out. Amounts are small
integers: the code's additions use checked arithmetic and cannot wrap. The branches of
`execute` for `Unpause`, `FreezeAccount`, `UnfreezeAccount` and `UpdateRateLimits` are left
out: no `propose_*` creates such a proposal. A quote of the ramp service is only there or not:
no request reads its figures after its creation. In the web application the wording of
errors, the countdown of the payment view and the session's `isLoading` are left out; the
polls of a page left behind, which change nothing, are not followed. What shows prices
shares no state with the rest, so it is gathered on one page, `markets`, which is neither
left nor entered.

**Slips.** An operator commented `Slip:` is a plausible bug of the operator after it. No
action uses it. `PROJECT.json` ("mutants") pairs each checked property with the slip that,
put in the place of the real definition, breaks it: the evidence that the property
constrains the code.

## 3. Runs

`tlc -workers 2 -config X.cfg M` in this directory. Some `MC*` modules hold several small
instances of one module, each the least with which some of the properties could fail: the
variable `instance` says which one a behaviour is of, and never changes. All properties of
a run are checked of all its instances. Properties that hold:

| Run | Instances | Shows |
|---|---|---|
| `token_holders` | cap 2, 2 references, amounts -1, 1 and 2. `funds`: 3 accounts, any mix of admin roles, no allowances; `expiry`: 2 holders with allowances over 3 ledgers; `guarded`: 2 holders with allowances, an administrator who pauses, freezes and claws back | supply backed, capped and audited; freeze and pause effective; allowances pay for what they are used for; the token implements `StablecoinLedger` |
| `treasury_proposals` | 3 addresses, initial lists with none, two, and a doubled signer, 2 proposals of any type, 3 ledgers | approvals counted, threshold positive, limits kept; the treasury implements `Multisig`, expiry included |
| `oracle_prices` | admin and operator, 3 exchanges, prices 0, 9, 10 and three batches, 3 time points | ages and divisions of what is stored are defined; no gain from a round trip |
| `updater_batches` | 2 overlapping runs, 4 sets of answers, clocks 0 or 1 ahead, 4 time points | stored dates go forward, averages stay sane, a batch is stored within its timeout or never |
| `system_deployed` | one signer, limit 2, a day of 2 ledgers. `day`: 3 orders of 2 units, 4 ledgers; `priced`: 2 orders, two prices, oracle replaceable, a pause, legacy mints | at most twice the daily limit in any day-long stretch; trail and proposals agree; deposits paid at the price of execution |
| `ramp_requests` | one purchase, one sale, 2 polls | a mint has its request to itself, completed requests were sent, the service implements `RampRequests`, every mint call returns |
| `ramp_app` | one account with requests, a second one to switch to. `tab`: a purchase and a sale, one call besides one poll in flight; `polls`: a purchase, two polls besides one call; `simulations`: a purchase, two calls, no polls | what the tab tells as completed or cancelled is so; it learns the end; a simulation's button is freed by no other simulation |
| `deployment` | 5 contract instances, 2 proposals, 2 machines | the file is true, its records stay, the keys named are held, what is called complete is wired |
| `dapp` | `pages`: 2 accounts, 2 transactions under way; `route`: 3 overlapping requests, the panel's and the card's among them, both routes, 5 time points; `chart`: 5 time points, a day of 3, 2 points of history, the rate service beside it | told successes are real, buttons belong to their transactions and come back; unmarked prices of the service's route are fresh; points spaced |

Properties the code's own words state and the code does not keep, each with a
counterexample:

| Run | Says | Shows |
|---|---|---|
| `treasury_wellformed` | `contracts/treasury/src/errors.rs:72,76,80` and `storage.rs:26` | two `RemoveSigner` proposals pending together leave no signer and threshold 0: nothing can be proposed or executed again; an address can be added twice |
| `deployment_minter` | `deploy.ts:10,541`, `docs/DEPLOYMENT.md:68`: the script grants the treasury the minter role | `grant_role` is asked for a role name the token does not know (`deploy.ts:392`), the refusal is swallowed, and "DEPLOYMENT COMPLETE" is printed |
| `price_valid` | `docs/ESTADO-PROYECTO.md:84`, prices in real time; `app/api/prices/exchanges/route.ts:10`, a cache of 60 seconds | the panel holds prices of any age for valid: Next answers with what it keeps, and the route dates it with now (`route.ts:30,86-101`) |

`ValidIsFresh` says the same of the price card and of the rate the ramp service quotes with,
and holds of neither (section 5); TLC stops at the panel.

**Bounds, and why they are enough.** The three accounts of `funds` are the least
with which sender, receiver and administrator differ; amounts 1 and 2 under a cap of 2 reach
the cap, exhaust balances and overshoot both; two references let one be retried. The three
ledgers of `expiry` are before, at and after an expiration; in `guarded` a freeze or a pause
falls between an approval and its use. The latter two have one mint each, since what they
add is who moves it. Two proposals are the least with which one changes what the other
relies on; expiration after 1 ledger and a day of 2 put both deadlines inside the three
ledgers; a limit of 1 makes the second mint of a window fail. A signer removed, added again and
approving anew takes three proposals: that case of `ApprovalsCounted` is covered by its theorem
alone. In the composition a replacement oracle never answers, in the
theorems as in `system_deployed`: no deposit is settled with it, and another contract's price
is none of this project's. (Of the treasury alone any answer is considered.) Three price
sources are the code's number; the age limit of one time unit within three makes sources and average stale
at different moments; `ONE_UNIT = 3` with prices around it makes every division round.
The instance `day` reaches two full windows inside one sliding day, the worst case. In
`priced` the price may change, go stale, or the oracle be replaced between proposal
and execution. Two polls tell "polls left" from "out of polls". `MaxProposals`, `MaxLedger`,
`MaxInstances`, `MaxMachines` and `MaxNow` bound otherwise unbounded counters; `Elapsed`,
`Amount` and the other sets of arguments stand for what callers may pass. `SYMMETRY` is used
only where the checked properties are invariants and action properties, over accounts,
references and runs that no constant tells apart.

`oracle_prices` posts no crossed batch: `update_prices_batch`, unlike `update_price`, does
not compare ask and bid, and relies on the updater's filter. `NoRoundTripGain` is a statement
about the two together; `updater_batches`, with the filter modelled and crossed answers among
its inputs, supplies the premise (`AverageSane`). There the admin only gives and takes the
operator's right, so that the updater is the only one to post. Two runs are the least that
overlap; one poll tells "polls left" from "out of polls"; a clock is never behind the last
closed ledger (`ClockLead`, naturals): ledgers close in the past.

`ramp_app` has one owner of both requests and a second account, so that the wallet can be
switched away from a request and back; a purchase and a sale are the two payment views. A
poll and another call are the least that overtake each other, two polls the least that
overtake polls, two calls the least with which a view is shown anew while the simulation of
the one before is under way; `TruthTold` and `ButtonKeptBusy` (section 4) hold for any number.
`deployment` lets two of the three contracts be deployed once more than recorded, one oracle
proposal be forgotten, and the file be taken to one other machine. In `dapp` two transactions
are the least with which one is left behind while another is started, and two accounts the
least to switch. Prices and money pages share no state, and
neither do the routes and the chart with the rate service, but for the clock: so they are
instances of their own. The clocks pass the cache's lifetime, the
gap between points, the history's day and its limit; three requests are the panel's, the card's
and one more to overtake them. The panel is opened anew only between its own answers, and the
wallet is asked for one connection at a time.

`CHECK_DEADLOCK FALSE` where the system may really stop: a contract nobody calls, a counter
at its bound, a service and a tab all of whose requests are spent. `deployment` is checked
for deadlock: the script can always be run again.

**Fairness.** Nothing is assumed of users, wallets, operators, the bank or other tabs, which
may never do anything.

* `RampService`: weak fairness of each request's `MintStep`. It is the event loop's promise
  that an `await` that settles is resumed, with HTTP calls that answer or fail and timers that
  fire. The chain may never settle: `MintCallsReturn` needs no more.
* `RampApp`: the interval timer ticks while the card is mounted, each poll is answered and its
  answer handed on. Only polls are fair: any other call may hang for ever. `TabLearnsTheEnd`
  is about a request the tab shows under way that has ended; it is the instances `tab` and
  `polls` that check it, as `simulations` has no polls.
* `DApp`, in the run `dapp`: network calls are answered or fail, and the network settles a
  transaction it has taken as applied, failed or lost. `ButtonComesBack` excepts what the code
  leaves open: a wallet's question the user does not answer, and a transaction the network lost, which is
  polled for ever (`client.ts:335`).

The contracts have no liveness of their own: all their steps are callers' choices.

## 4. Proofs

`tlapm X.tla`. Every safety invariant and every action property of a passing run is proved,
for all values of the constants that satisfy the named assumptions (`AccountsAssumption`:
finitely many addresses; `LedgerAssumption`, `NetworkAssumption`, `TokenAssumption`,
`TreasuryAssumption`, `OracleAssumption`, `UpdaterAssumption`, `DeploymentAssumption`,
`RampAssumption`, `RampAppAssumption`, `SessionAssumption`, `PriceFeedAssumption`,
`DAppAssumption`: constants have their types, null values are no addresses, a day and a unit
are not zero; `SystemAssumption`: the treasury signs no call as an account and is not the
token). One theorem has a premise besides, `BatchesUncrossed`, and says so.

The bounds of the runs (`MaxProposals`, `MaxLedger`, `MaxInstances` and their like) are
constants of the theorems too: whatever number they are, so every finite behaviour of the
code falls under some instance.

**Token** (`BOBTTokenProofs`).
* Sums: what changing one point of a function, or moving between two, does to its sum. `Total`
  is the cardinality of a set of unit tokens, so this is finite-set reasoning, not induction.
* `LedgerConserves`: the abstract ledger stays backed and capped. `LedgerInv` (types, backed,
  capped) is inductive.
* `TokenInv` (types and `LedgerInv`) is inductive; every token step is a ledger step or a
  stutter under it (`StepRefines`): the amount of a step lies in `1..MAX_SUPPLY` because it is
  positive and either fits under the cap or is covered by a balance, itself at most the supply.
  Hence `TokenTypeCorrect`, `TokenImplementsLedger` and by refinement `TokenSupplyBacked`.
* `FundsStep`: a step that moves funds is a mint, a burn, a transfer or a clawback, each with the
  pause, the freezes and the allowance it was checked against. `TokenFrozenFundsStay`,
  `TokenPauseStopsFunds` and `TokenAllowanceHonoured` read off it; the last needs that an
  allowance spent exactly to zero is removed and counts as zero (`SpendExact`).
* `TokenSupplyAudited`: inductive with the trails' finiteness. A record is new because its
  reference is, so it adds its amount exactly once.
* The step lemmas are stated for `TokenStep`: the contract's own callers, or another contract
  that mints, burns or pauses in its own name (`FromContract`). So they serve the composition.

**Treasury** (`TreasuryProofs`).
* `TreasuryInv` is inductive. `ApprovalsCounted` is part of it as it stands.
  `ThresholdPositive` is not inductive alone: executing an old `UpdateThreshold` proposal could
  set zero, so `ThresholdsProposed` (a proposed threshold is at least one) is carried along; and
  adding or removing a signer needs the sum lemmas. `PaymentsNamed` is there for the
  composition. Hence `TreasuryTypeCorrect`, `TreasuryApprovalsCounted`,
  `TreasuryThresholdPositive`.
* `TreasuryLimitsKept` needs `BurnsCounted`: the burn counter is at most the sum over the executed
  burns, which a burn raises by its amount and nothing lowers.
* `TreasuryImplementsMultisig`: from `TreasuryInv`, an execution finds its approvers to be a
  quorum because the stored count is their number. A proposal whose last ledger is over is
  a lapsed motion, which is neither voted on nor decided; the passing of a ledger is a step
  of the council's (`Lapse`), and as the ledger only grows no motion comes back.
* The step lemmas are stated for `TreasuryStep`: the oracle may answer any natural number.

**Oracle and updater** (`PriceProofs`).
* `OracleInv` is inductive: a stored price is dated no later than now; an average is zero on
  both sides or, because each source is at least one and there are at least as many as the
  divisor counts, positive. Hence `OracleTypeCorrect`, `OraclePricesComputable`.
* `OracleNoRoundTripGain`, if `BatchesUncrossed`: an average of bids is at most the average of
  asks (`AverageMonotone`), and two divisions rounded down undo nothing (`RoundTrip`). Without
  the premise it does not hold: the contract compares no ask with its bid in a batch.
* `UpdaterAverageSane`, `UpdaterNoRoundTripGain`, `UpdaterDatesForward`,
  `UpdaterPricesArriveInTime`: the invariant says of every batch in flight what the updater's
  filter ensured, which discharges the premise; that a batch the account's sequence number still
  lets through is dated no earlier than any price it could replace (`SequenceOK`); and that it
  must be applied within its timeout of that date. The last says what is left of a transaction
  whose run has given up and reported success: not that it was stored, which nobody can say, but that it does not surface later.

**Composition** (`BOBTSystemProofs`).
* `SystemStep`: every step of the three keeps the treasury's and the oracle's invariants, and pays
  nothing, or pays one mint, or pays one burn (`StepKind`), with all that step does to trail,
  proposals and window.
* `SystemDepositPaidAtPrice`: from the one kind of step that settles a deposit, and the bounds of
  a quotient.
* `SystemTrailMatches`: records and executed orders correspond one to one (`OneToOne`), a relation
  a paying step extends by one pair on both sides; the counts follow by a bijection.
* `SystemTwiceTheLimit`: `Windows` says that what was paid since the last reset is what the window
  counted, and that any day-long stretch before it held at most two windows, since resets are a
  day apart.
* What each contract promises alone holds of the three together: `TokenPart`, `TreasuryPart` and
  `OraclePart` show a step of the system to be a step of each contract as its own lemmas know
  it. The token sees the treasury as `FromContract`: target and amount have their types, and the
  reference is one by `PaymentsNamed`. Hence `SystemImplementsLedger`, `SystemSupplyAudited`,
  `SystemFrozenFundsStay`, `SystemPauseStopsFunds`, `SystemAllowanceHonoured`,
  `SystemImplementsMultisig`, `SystemLimitsKept`, `SystemKeepsOracle` (a refinement, so the
  oracle's theorems hold) and `SystemNoRoundTripGain`.
* These theorems are about `SystemSpec`, from contracts not yet initialized. The run
  `system_deployed` starts later, at `Deployed`, where the contracts are
  initialized and the proposal that set the oracle is left out to save room.

**Deployment** (`DeploymentProofs`). The inductive invariant joins to the types: `IsTrue`, the
checked `FileIsTrue`; `KeysTrue`, keys on record are complete and on the first machine those at
hand; `ScriptAhead`, what the running script knows includes the file, and by stage how much more
is sure; `InitializedOnce`, only a recorded contract was ever initialized, and with the recorded
keys; `LinkedByVote`, an oracle on chain was voted for. None is inductive alone: that a recorded
contract is the one initialized needs that nothing is initialized before everything is recorded.
Hence `DeployTypeCorrect`, `DeployFileIsTrue`, `DeployRecordStays`, `DeployKeysStillTheirs`,
`DeployCompleteIsWired`.

**Ramp service** (`RampServiceProofs`). `RampInv` joins the types, `MintOwnsRequest` and
`CompletedWasSent` to `Bookkeeping`, without which they are not inductive: what has a status or a
transaction was issued, a mint that is being sent has no transaction yet and one that polls has.
Under it every step is a step of `RampRequests` or leaves its variables alone: the bank's, the
network's settling and the polling before the end are stutters. Hence `RampTypeCorrect`,
`RampMintOwnsRequest`, `RampCompletedWasSent`, `RampImplementsRequests`.

**Buy/sell card** (`RampAppProofs`). `TabTellsTheTruth` says nothing of answers in flight, so the
invariant of `TruthTold` says of every answer, on show or on its way, that it is still true
(`StillTrue`): completed means sent, cancelled means issued and never sent (`Gone`). The heart is
`TruthStays`: both are stable under every step of the service, restarts included, because an id
is never issued again. Then an answer may arrive as late as it likes. `RampAppTypeCorrect` adds
that a simulation the view holds is under way, and only while that view is open; from it
`ButtonKeptBusy`: the slot of the simulation is not taken by another call before it is answered.

**Money pages and prices** (`DAppProofs`).
* `FlowInv`: the button is busy exactly when one transaction of an open page is under way
  (`Button`), and a told success was applied (`Real`). Hence `DAppTypeCorrect`, whose type
  invariant holds the button's condition, and `SuccessTold`.
* `PriceInv`: the service's route never takes prices from Next (`Fetches`), so that what it keeps
  is dated when it was asked for (`OwnPrices`), and what the panel holds for valid is fresh;
  the chart's points are pairwise a gap apart and none after now (`Spread`). Hence `PricesFresh`,
  which is about the service's route alone, and `HistoryStaysSpaced`. Dropping old
  points keeps the others' distance because the place of the n-th point kept grows with n
  (`NthPlace`), an induction done with the least member of a set of counterexamples.
* The prover knows nothing of the library's `SelectSeq`, so the model tells the filter of
  `usePriceHistory.ts` by the places it keeps (`Later`). `MCDApp` has TLC compare the two on all
  sequences of up to four times (`LaterIsFilter`).

Only model-checked: liveness (`MintCallsReturn`, `TabLearnsTheEnd`, `ButtonComesBack`), out of the
prover's reach because it rests on fairness and `ENABLED`.

## 5. Disagreements noted without a run of their own

Contracts:

* `treasury/src/lib.rs:11-13`, M-of-N signer approvals: `execute` compares the stored
  `approval_count` with the threshold, and the approval of a signer removed since counts.
* `SECURITY_ANALYSIS.md:22`, no move above 10% per update: a new ask is compared with the
  stored average, which may be stale, and the new average may rest on other sources
  (`oracle/src/lib.rs:151`); it can move further. `update_prices_batch` checks neither spread
  nor deviation.
* `SECURITY_ANALYSIS.md:23,24,70-71`: prices older than 15 minutes are rejected, two exchanges
  are required, operations stop when all prices are stale. An average is dated when it is
  computed, whatever the age of its sources (`oracle/src/storage.rs:240`), and `get_price` looks
  at that date alone: it is served up to 30 minutes after its oldest source, also with fewer
  than two sources still fresh.
* `SECURITY_ANALYSIS.md:37`, a daily limit: the window is fixed, so a sliding day can hold
  twice that (`TwiceTheLimitADay` is the bound that holds).
* `STABLECOIN-ARCHITECTURE.md:102`, a pause stops operations: the clawback works while paused.
* `contract.rs:202`, the initial owner "will have all admin roles": it gets `owner` only.
* `RemoveSigner` lowers the stored threshold and leaves the configuration's copy
  (`lib.rs:684`). The treasury can pause the token and has no proposal to unpause it
  (`lib.rs:705`). `mint` asks for no authorisation.

Services (`index.ts`, `types.ts`, `price-service.ts` and `bnb-client.ts` are the ramp service's,
`stellar.ts` the updater's) and deployment:

* `index.ts:646-647`, "Revert to verified status on failure": nothing reverts it; a request
  whose mint fails stays in processing for ever.
* `STABLECOIN-ARCHITECTURE.md:218`: in a sale the customer burns; `POST /api/test/process` asks
  for no type, and processing a verified sale mints to the seller (`index.ts:640`).
  `bnb-client.ts:144` verifies a sale, which has no reference, by any credit of its amount.
* `types.ts:13` calls "completed" successful; after 30 polls without an answer the request is
  completed whatever the transaction did (`CompletedWasSent` states what does hold).
  `types.ts:42` `expiresAt` is stored and never enforced. The ramp service mints with the
  operator's key, not through a treasury proposal.
* `price-service.ts:84` looks for exchanges under keys the API does not use (`index.ts:131`),
  so its fallback finds nothing. `:32` and `:128`: the cache is returned if fresh, and stale
  only as a last resort, not valid. `:72`: when the oracle cannot be read again, the price read
  last is told as valid for ever, before the exchanges are asked; the last resort is reached
  only without a price (`ValidIsFresh`).
* `index.ts:159-163`: the cache is dated with the time the request came in, and an older,
  slower request overwrites the prices of a newer one.
* `SECURITY_ANALYSIS.md:23`: prices older than 15 minutes are rejected; the updater dates a
  batch with its own clock (`stellar.ts:76`), so the age of a quote is lost before the oracle
  sees it. The updater prints SUCCESS when its polls run out, or when the
  answer cannot be parsed (`stellar.ts:168`): it cannot know, and nothing promises it does.
* `update-prices.yml`: "Price may become stale" is to be warned of on `failure()`, which
  `continue-on-error` on the updating step keeps from ever being true.
* Nobody is granted `pauser` or `blklst` by the deployment.

Web application:

* `client.ts:335`: a transaction that is not found is polled for ever; an exception after
  submission is told as a failure of what may yet apply. "Mint exitoso" means that a proposal
  was made.
* `balance-card.tsx:101`: the dialog switched in mid-transaction tells "Burn Exitoso" of a
  mint; `:118` skips the check of a burn against a balance of zero; `:80` shows an estimate
  for another amount than the one typed since. `useBalance.ts:33`: a late answer about the
  old account overwrites the new one's balance.
* `wallet-provider.tsx:69-72`: a wallet list that cannot be read leaves the session loading
  for ever; `:85-100`: the restored session's answer, coming after the user has connected,
  replaces the account or clears its storage.
* `payment-qr.tsx:157`: a simulated payment mints beside the store, which knows nothing of it:
  the request can be paid again. About `:233` "Has recibido" shows the amount before the fee;
  `off-ramp-status.tsx`, about `:158`, tells bolivianos were sent where the service minted.
  `payment-qr.tsx:68,449` have no view for `verified`. The expired view and the service
  disagree, the service never reading the date.
* `admin/page.tsx` lists the requests in `pending_verification` (`store.ts:59`), a status no
  request is left in: the list is always empty.
* `bolivia-ramp.tsx:213,263`: late polls set what is shown; a list that fails to load hides
  the request under way. `useRamp.ts` has one loading flag for all its calls.
* `price-card.tsx:42`, "Active" or "Stale": the card takes the route's answer without its mark
  (`useOraclePrice.ts:39`) and holds whatever it gets for valid (`:104-120`), so prices the route
  marks as stale are active (`ValidIsFresh`).
* `useCryptoYaPrices.ts:99-105`: prices the route marks as stale are shown with the time of the
  showing. `usePriceHistory.ts:23`, "5-minute intervals": polls every 30
  seconds keep moving the last point.
* `useTransactionHistory.ts:93,115`: loading more appends the first page again.
* `reserves/page.tsx`: the reserves shown are made up, equal to the supply ("For demo purposes").

## 6. Not modelled

* Upgrader: two calls in one transaction, no state. `rescue_tokens`, `upgrade`, `migrate` of
  the token: another token's balances, the code itself. State archival: needs extending a
  TTL that no operation reads.
* Of the ramp service: statistics, listings and the operator's balance (they change nothing),
  `setProposalId` and `markFailed` (nothing calls them), the arithmetic of a quote.
* Of the client library: read-only views (`useOnChainStats`, `useTransactionHistory`), and what
  no page uses (`useWallet`, `useWalletKit`, `useBoliviaRamp`, `payments.ts`, `trade-widget`).
* Of the web application: the admin page, whose buttons call the service's handlers that `RampService`
  models (`AdminVerify`, `SimulateDeposit`, the automatic check, `Process`) for the requests of
  a list that is always empty; history, settings, reserves and help, which show what others
  keep. Landing site, UI
  kit, end-to-end scripts: no program logic of their own.

## 7. What is left

1. A bound on the age of what an average rests on: at most twice the age limit. It takes a
   record of the sources an average was made from.
2. Proofs that join services: the tab's theorem is about `RampRequests`, the service's that it
   implements it; the two are not yet one statement about the tab in front of `RampService`.
3. Three proposals in a run of the treasury, for the one case of `ApprovalsCounted` covered by
   its theorem only.

What some properties do not say: `LimitsKept` bounds the burn counter from above only;
`AllowanceHonoured` speaks of an allowance that is used and not of a debit without one;
`FrozenFundsStay` speaks of the frozen account's own funds and not of a frozen spender;
`KeysStillTheirs` holds on the first machine, and resumed on another one keys and file do part;
`ButtonComesBack` excepts the endless polling of a lost transaction (`client.ts:335`).
