-------------------------- MODULE StablecoinLedger --------------------------
(***************************************************************************)
(* What a capped, fully accounted token promises, whatever its roles, its   *)
(* pause switch, its blacklist and its allowances: units are issued to one  *)
(* holder, destroyed at one holder, or moved between two holders, and the   *)
(* published supply moves with the first two only.                          *)
(***************************************************************************)
EXTENDS Naturals, Accounts, Tally

CONSTANT MAX_SUPPLY     \* cap on the number of units outstanding

ASSUME LedgerAssumption == MAX_SUPPLY \in Nat

VARIABLES balances, total_supply

ledgerVars == <<balances, total_supply>>

LedgerInit == /\ balances = [a \in Address |-> 0]
              /\ total_supply = 0

Issue(a, n) == /\ total_supply + n <= MAX_SUPPLY
               /\ balances' = [balances EXCEPT ![a] = @ + n]
               /\ total_supply' = total_supply + n

Retire(a, n) == /\ n <= balances[a]
                /\ balances' = [balances EXCEPT ![a] = @ - n]
                /\ total_supply' = total_supply - n

Move(a, b, n) == /\ a # b
                 /\ n <= balances[a]
                 /\ balances' = [balances EXCEPT ![a] = @ - n, ![b] = @ + n]
                 /\ UNCHANGED total_supply

LedgerNext == \E n \in 1..MAX_SUPPLY, a \in Address :
                 \/ Issue(a, n)
                 \/ Retire(a, n)
                 \/ \E b \in Address : Move(a, b, n)

LedgerSpec == LedgerInit /\ [][LedgerNext]_ledgerVars
-----------------------------------------------------------------------------
(* The published supply is exactly what the holders own together, and it    *)
(* stays under the cap.                                                     *)
SupplyBacked == Total(balances) = total_supply
SupplyCapped == total_supply <= MAX_SUPPLY
=============================================================================
