----------------------------- MODULE MCTreasury -----------------------------
(* Small instances of Treasury for TLC. *)
EXTENDS Treasury

CONSTANTS ana, beto, caro, r1

\* Initial lists: how many entries each of the three holds.
List(a, b, c) == [p \in Address |->
    CASE p = ana -> a [] p = beto -> b [] p = caro -> c [] OTHER -> 0]

TwoSigners == {List(1, 1, 0)}

\* None, two, and one of them twice: initialize takes the list as it comes.
AnyList == {List(0, 0, 0), List(1, 1, 0), List(2, 1, 0)}

\* Callers may pass any i128.
SignedAmounts == {-1, 1, 2}
=============================================================================
