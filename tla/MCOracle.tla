------------------------------ MODULE MCOracle ------------------------------
(* Small instances of Oracle for TLC. *)
EXTENDS Oracle

CONSTANTS admin, bot

Q(ask, bid) == [ask |-> ask, bid |-> bid]
All(q) == [e \in Exchange |-> q]

\* The sources agree, one is missing, or one has a malformed bid.  None is
\* crossed: the price updater drops such a source (criptoya.ts).
SomeBatches ==
    {All(Q(9, 8)),
     [All(Q(9, 9)) EXCEPT !["BITGET"] = Q(0, 0)],
     [All(Q(10, 9)) EXCEPT !["BINANCE"] = Q(8, -1)]}
=============================================================================
