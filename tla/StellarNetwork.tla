--------------------------- MODULE StellarNetwork ---------------------------
(***************************************************************************)
(* What the contracts share by running on one Stellar network: the external *)
(* references that identify a deposit or a redemption, and the number of    *)
(* the current ledger, which the contracts use as their clock.              *)
(***************************************************************************)
EXTENDS Naturals

CONSTANTS RequestId,    \* external references of mints and burns
          MaxLedger     \* bound: the last ledger of a checked behaviour

ASSUME NetworkAssumption == MaxLedger \in Nat

VARIABLE sequence       \* the network's ledger number

\* The network closes a ledger.
CloseLedger == /\ sequence < MaxLedger
               /\ sequence' = sequence + 1
=============================================================================
