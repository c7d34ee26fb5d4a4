--------------------------- MODULE MCPriceUpdater ---------------------------
(* A small instance of PriceUpdater for TLC. *)
EXTENDS PriceUpdater, TLC

CONSTANTS admin, bot, r1, r2

A(ask, bid, time) == [ask |-> ask, bid |-> bid, time |-> time]

\* All well; one source crossed and one out of reach; one ahead of the ledger
\* and out of the others' line; and all of them useless.
SomeAnswers ==
    LET well == [e \in Exchange |-> A(9, 8, 1)] IN
    {well,
     [well EXCEPT !["BYBIT"] = A(6, 9, 1), !["BINANCE"] = A(0, 0, 0)],
     [well EXCEPT !["BITGET"] = A(10, 10, 2)],
     [e \in Exchange |-> A(16, 9, 1)]}

RunSymmetry == Permutations({r1, r2})
=============================================================================
