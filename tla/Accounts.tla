------------------------------ MODULE Accounts ------------------------------
(* The addresses that hold balances, sign calls and are named in proposals. *)
EXTENDS FiniteSets

CONSTANT Address

ASSUME AccountsAssumption == IsFiniteSet(Address)
=============================================================================
