----------------------------- MODULE BOBTToken -----------------------------
(***************************************************************************)
(* The BOBT token contract (contracts/bobt_token).  One action per entry    *)
(* point that changes state.  A Soroban invocation that returns an error or *)
(* panics is rolled back whole, so every early return of the code is a      *)
(* conjunct of the action's guard, and a rejected call is no step at all.   *)
(* The address a call authenticates with require_auth is the action's       *)
(* parameter.  The balances and the supply are those of StablecoinLedger,    *)
(* which this module refines (ImplementsLedger).                            *)
(***************************************************************************)
EXTENDS Integers, StellarNetwork, StablecoinLedger

CONSTANTS
    TokenContract,  \* the token's own address
    Caller,         \* the accounts that sign calls; a contract signs none here
    Party,          \* the other accounts that calls name
    NoOwner,        \* the owner before initialize
    MIN_TRANSFER,
    Amount,         \* the amounts callers pass, negative ones included
    Expiration,     \* the expiration ledgers callers of approve pass
    RoleGrant       \* the <<role, account>> pairs the owner passes

Role == {"minter", "pauser", "blklst", "rescuer", "owner"}

ASSUME TokenAssumption ==
    /\ TokenContract \in Address
    /\ Caller \cup Party \subseteq Address
    /\ NoOwner \notin Address
    /\ MIN_TRANSFER \in Nat
    /\ Amount \subseteq Int
    /\ Expiration \subseteq Nat
    /\ RoleGrant \subseteq Role \X Address

VARIABLES
    initialized, owner, paused,
    allowances,      \* <<from, spender>> -> amount and expiration
    roles,           \* the <<role, account>> pairs granted
    frozen,
    mint_requests,   \* audit trail of mints
    burn_requests    \* audit trail of admin burns

funds     == <<total_supply, balances>>
control   == <<initialized, owner, roles>>
requests  == <<mint_requests, burn_requests>>
tokenVars == <<funds, control, requests, paused, allowances, frozen, sequence>>

\* A temporary entry that is absent reads as no allowance at all.
NoAllowance == [amount |-> 0, expiration_ledger |-> 0]

MintRequest == [to : Address, amount : Nat, ledger : Nat, minter : Address,
                external_ref : RequestId]
BurnRequest == [from : Address, amount : Nat, ledger : Nat, operator : Address,
                external_ref : RequestId]

TokenInit ==
    /\ initialized = FALSE
    /\ owner = NoOwner
    /\ paused = FALSE
    /\ total_supply = 0
    /\ balances = [a \in Address |-> 0]
    /\ allowances = [p \in Address \X Address |-> NoAllowance]
    /\ roles = {}
    /\ frozen = {}
    /\ mint_requests = {}
    /\ burn_requests = {}
    /\ sequence = 0
-----------------------------------------------------------------------------
HasRole(role, account) == <<role, account>> \in roles

IsOwner(caller) == initialized /\ caller = owner

\* Slip: any amount but zero.
NonZeroAmount(amount) == amount # 0

ValidAmount(amount) == amount > 0 /\ amount >= MIN_TRANSFER

ValidMintSupply(amount) == total_supply + amount <= MAX_SUPPLY

MintInternal(to, amount) ==
    /\ ValidAmount(amount)
    /\ ValidMintSupply(amount)
    /\ balances' = [balances EXCEPT ![to] = @ + amount]
    /\ total_supply' = total_supply + amount

\* Slip: the supply is not reduced.
BurnBalanceOnly(from, amount) ==
    /\ ValidAmount(amount)
    /\ balances[from] >= amount
    /\ balances' = [balances EXCEPT ![from] = @ - amount]
    /\ UNCHANGED total_supply

BurnInternal(from, amount) ==
    /\ ValidAmount(amount)
    /\ balances[from] >= amount
    /\ balances' = [balances EXCEPT ![from] = @ - amount]
    /\ total_supply' = total_supply - amount

\* Slip: both balances read first, and sender and receiver may be the same.
TransferStaleReads(from, to, amount) ==
    /\ ValidAmount(amount)
    /\ balances[from] >= amount
    /\ balances' = [[balances EXCEPT ![from] = @ - amount]
                              EXCEPT ![to] = balances[to] + amount]
    /\ UNCHANGED total_supply

TransferInternal(from, to, amount) ==
    /\ ValidAmount(amount)
    /\ from # to
    /\ balances[from] >= amount
    /\ balances' = [balances EXCEPT ![from] = @ - amount, ![to] = @ + amount]
    /\ UNCHANGED total_supply

\* Slip: the other trail is looked up.
OtherTrailHas(id) == \E r \in burn_requests : r.external_ref = id

MintRequestExists(id) == \E r \in mint_requests : r.external_ref = id

BurnRequestExists(id) == \E r \in burn_requests : r.external_ref = id

\* Slip: the expiration is not looked at.
SpendExpired(from, spender, amount) ==
    LET data == allowances[<<from, spender>>] IN
    /\ data # NoAllowance
    /\ data.amount >= amount
    /\ allowances' = [allowances EXCEPT ![<<from, spender>>] =
            IF data.amount - amount > 0 THEN [data EXCEPT !.amount = data.amount - amount]
                                        ELSE NoAllowance]

\* An unexpired entry covers the amount; what is left is kept only if positive.
SpendAllowance(from, spender, amount) ==
    LET data == allowances[<<from, spender>>] IN
    /\ data # NoAllowance
    /\ data.expiration_ledger >= sequence
    /\ data.amount >= amount
    /\ allowances' = [allowances EXCEPT ![<<from, spender>>] =
            IF data.amount - amount > 0 THEN [data EXCEPT !.amount = data.amount - amount]
                                        ELSE NoAllowance]
-----------------------------------------------------------------------------
Initialize(newOwner) ==
    /\ ~initialized
    /\ initialized' = TRUE
    /\ owner' = newOwner
    /\ roles' = roles \cup {<<"owner", newOwner>>}
    /\ paused' = FALSE
    /\ UNCHANGED <<funds, allowances, frozen, requests, sequence>>

Approve(from, spender, amount, expiration) ==
    /\ ~paused
    /\ from \notin frozen
    /\ allowances' = [allowances EXCEPT ![<<from, spender>>] =
            IF amount > 0 /\ expiration > sequence
            THEN [amount |-> amount, expiration_ledger |-> expiration]
            ELSE NoAllowance]
    /\ UNCHANGED <<funds, control, requests, paused, frozen, sequence>>

\* Slip: only the sender is checked.
TransferToFrozen(from, to, amount) ==
    /\ ~paused
    /\ from \notin frozen
    /\ TransferInternal(from, to, amount)
    /\ UNCHANGED <<control, requests, paused, allowances, frozen, sequence>>

Transfer(from, to, amount) ==
    /\ ~paused
    /\ from \notin frozen
    /\ to \notin frozen
    /\ TransferInternal(from, to, amount)
    /\ UNCHANGED <<control, requests, paused, allowances, frozen, sequence>>

TransferFrom(spender, from, to, amount) ==
    /\ ~paused
    /\ {from, to, spender} \cap frozen = {}
    /\ SpendAllowance(from, spender, amount)
    /\ TransferInternal(from, to, amount)
    /\ UNCHANGED <<control, requests, paused, frozen, sequence>>

\* The checks, the mint and the audit record that admin_mint and the legacy
\* entry point mint have in common.
RecordedMint(minter, to, amount, id) ==
    /\ ~paused
    /\ to \notin frozen
    /\ ~MintRequestExists(id)
    /\ MintInternal(to, amount)
    /\ mint_requests' = mint_requests \cup
         {[to |-> to, amount |-> amount, ledger |-> sequence, minter |-> minter,
           external_ref |-> id]}
    /\ UNCHANGED <<control, burn_requests, paused, allowances, frozen, sequence>>

AdminMint(minter, to, amount, id) ==
    /\ HasRole("minter", minter)
    /\ RecordedMint(minter, to, amount, id)

\* mint asks for no authorisation and records the contract as the minter.
LegacyMint(to, amount, id) == RecordedMint(TokenContract, to, amount, id)

\* Slip: no look at the pause.
BurnWhilePaused(from, amount) ==
    /\ BurnInternal(from, amount)
    /\ UNCHANGED <<control, requests, paused, allowances, frozen, sequence>>

Burn(from, amount) ==
    /\ ~paused
    /\ BurnInternal(from, amount)
    /\ UNCHANGED <<control, requests, paused, allowances, frozen, sequence>>

BurnFrom(spender, from, amount) ==
    /\ ~paused
    /\ SpendAllowance(from, spender, amount)
    /\ BurnInternal(from, amount)
    /\ UNCHANGED <<control, requests, paused, frozen, sequence>>

AdminBurn(operator, from, amount, id) ==
    /\ HasRole("minter", operator)
    /\ ~paused
    /\ ~BurnRequestExists(id)
    /\ BurnInternal(from, amount)
    /\ burn_requests' = burn_requests \cup
         {[from |-> from, amount |-> amount, ledger |-> sequence,
           operator |-> operator, external_ref |-> id]}
    /\ UNCHANGED <<control, mint_requests, paused, allowances, frozen, sequence>>
-----------------------------------------------------------------------------
Pause(pauser) ==
    /\ HasRole("pauser", pauser)
    /\ ~paused
    /\ paused' = TRUE
    /\ UNCHANGED <<funds, control, requests, allowances, frozen, sequence>>

Unpause(pauser) ==
    /\ HasRole("pauser", pauser)
    /\ paused
    /\ paused' = FALSE
    /\ UNCHANGED <<funds, control, requests, allowances, frozen, sequence>>

Freeze(blacklister, account) ==
    /\ HasRole("blklst", blacklister)
    /\ account \notin frozen
    /\ frozen' = frozen \cup {account}
    /\ UNCHANGED <<funds, control, requests, paused, allowances, sequence>>

Unfreeze(blacklister, account) ==
    /\ HasRole("blklst", blacklister)
    /\ account \in frozen
    /\ frozen' = frozen \ {account}
    /\ UNCHANGED <<funds, control, requests, paused, allowances, sequence>>

\* Slip: the supply is not reduced.
DestroyBalanceOnly(blacklister, account) ==
    /\ HasRole("blklst", blacklister)
    /\ account \in frozen
    /\ balances[account] > 0
    /\ balances' = [balances EXCEPT ![account] = 0]
    /\ UNCHANGED <<total_supply, control, requests, paused, allowances, frozen, sequence>>

\* The clawback asks neither for an unpaused contract nor for a valid amount.
DestroyFrozenFunds(blacklister, account) ==
    /\ HasRole("blklst", blacklister)
    /\ account \in frozen
    /\ balances[account] > 0
    /\ balances' = [balances EXCEPT ![account] = 0]
    /\ total_supply' = total_supply - balances[account]
    /\ UNCHANGED <<control, requests, paused, allowances, frozen, sequence>>

GrantRole(admin, role, account) ==
    /\ IsOwner(admin)
    /\ roles' = roles \cup {<<role, account>>}
    /\ UNCHANGED <<funds, initialized, owner, requests, paused, allowances,
                   frozen, sequence>>

RevokeRole(admin, role, account) ==
    /\ IsOwner(admin)
    /\ roles' = roles \ {<<role, account>>}
    /\ UNCHANGED <<funds, initialized, owner, requests, paused, allowances,
                   frozen, sequence>>

TransferOwnership(current, new) ==
    /\ IsOwner(current)
    /\ roles' = (roles \ {<<"owner", current>>}) \cup {<<"owner", new>>}
    /\ owner' = new
    /\ UNCHANGED <<funds, initialized, requests, paused, allowances, frozen,
                   sequence>>

TokenCloseLedger ==
    /\ CloseLedger
    /\ UNCHANGED <<funds, control, requests, paused, allowances, frozen>>
-----------------------------------------------------------------------------
\* What an account may do with funds, in its own name.
MoveFunds(caller) ==
    \E a \in Party, amount \in Amount :
        \/ Transfer(caller, a, amount)
        \/ \E b \in Party : TransferFrom(caller, a, b, amount)
        \/ \E expiration \in Expiration : Approve(caller, a, amount, expiration)
        \/ Burn(caller, amount)
        \/ BurnFrom(caller, a, amount)
        \/ \E id \in RequestId : \/ AdminMint(caller, a, amount, id)
                                \/ AdminBurn(caller, a, amount, id)

Administer(caller) ==
    \/ Pause(caller)
    \/ Unpause(caller)
    \/ \E a \in Party : \/ Freeze(caller, a)
                          \/ Unfreeze(caller, a)
                          \/ DestroyFrozenFunds(caller, a)
                          \/ TransferOwnership(caller, a)
    \/ \E g \in RoleGrant : \/ GrantRole(caller, g[1], g[2])
                            \/ RevokeRole(caller, g[1], g[2])

\* The entry points that ask for no signature.
Unsigned ==
    \E a \in Party :
        \/ Initialize(a)
        \/ \E amount \in Amount, id \in RequestId : LegacyMint(a, amount, id)

TokenCall == Unsigned \/ \E caller \in Caller : MoveFunds(caller) \/ Administer(caller)

TokenNext == TokenCall \/ TokenCloseLedger

TokenSpec == TokenInit /\ [][TokenNext]_tokenVars
-----------------------------------------------------------------------------
TokenTypeOK ==
    /\ initialized \in BOOLEAN
    /\ owner \in Address \cup {NoOwner}
    /\ paused \in BOOLEAN
    /\ total_supply \in Nat
    /\ balances \in [Address -> Nat]
    /\ allowances \in
         [Address \X Address -> [amount : Nat, expiration_ledger : Nat]]
    /\ roles \subseteq Role \X Address
    /\ frozen \subseteq Address
    /\ mint_requests \subseteq MintRequest
    /\ burn_requests \subseteq BurnRequest
    /\ sequence \in Nat

(* Every entry point of the contract, clawback and legacy mint included, is *)
(* an issue, a retirement or a move of the abstract ledger, or leaves the   *)
(* funds alone: no path touches a balance and forgets total_supply.         *)
ImplementsLedger == LedgerSpec

(* The audit trail explains the supply: what circulates and what was        *)
(* redeemed through recorded burns was all minted under recorded requests.  *)
SupplyAudited ==
    total_supply + Total([r \in burn_requests |-> r.amount])
        <= Total([r \in mint_requests |-> r.amount])

(* A frozen account never receives units, and the units it loses are        *)
(* destroyed, never handed to someone else ("Frozen accounts cannot send or *)
(* receive tokens", contract.rs:616).                                       *)
FrozenFundsStay ==
    [][\A a \in frozen :
          /\ balances'[a] <= balances[a]
          /\ balances'[a] < balances[a] =>
               total_supply - total_supply' = balances[a] - balances'[a]
      ]_tokenVars

(* While the contract stays paused no account gains units, and only frozen  *)
(* accounts lose any (the clawback keeps working).                          *)
PauseStopsFunds ==
    [][paused => \A a \in Address :
          /\ balances'[a] <= balances[a]
          /\ a \notin frozen => balances'[a] = balances[a]
      ]_tokenVars

(* An allowance used for a debit pays for all of it, from the account that  *)
(* granted it and before it expires; a debit touches one allowance at most. *)
AllowanceHonoured ==
    [][\A from, spender \in Address :
          LET data == allowances[<<from, spender>>]
              left == allowances'[<<from, spender>>] IN
          left # data /\ balances' # balances =>
              /\ sequence <= data.expiration_ledger
              /\ balances[from] - balances'[from] = data.amount - left.amount
              /\ \A p \in Address \X Address :
                    p # <<from, spender>> => allowances'[p] = allowances[p]
      ]_tokenVars
=============================================================================
