------------------------------- MODULE MCDApp -------------------------------
(* Small instances of DApp for TLC: "pages", the pages that move money, on    *)
(* which prices play no part; "route", the exchange route with the panel and *)
(* the card; and "chart", the chart and the rate, which share nothing with   *)
(* the route but the clock.                                                  *)
EXTENDS DApp

CONSTANTS ana, beto

VARIABLE instance

\* The session plays no part on the markets page: one will do.
Starts ==
    /\ DAppInit
    /\ instance \in IF page = "markets" THEN {"route", "chart"} ELSE {"pages"}
    /\ page = "markets" => active = ana /\ stored = None
    /\ instance # "route" => route = "service"

WithinInstance ==
    /\ instance = "route" => UNCHANGED <<rateVars, chartVars>>
    /\ instance = "chart" => UNCHANGED <<routeVars, shownVars>>

InstancesSpec ==
    /\ Starts
    /\ [][DAppNext /\ WithinInstance /\ UNCHANGED instance]_<<vars, instance>>
    /\ DAppFairness

\* The route of the web application alone.
WebStarts == Starts /\ instance = "route" /\ route = "web"

WebSpec ==
    /\ WebStarts
    /\ [][DAppNext /\ WithinInstance /\ UNCHANGED instance]_<<vars, instance>>

\* The filter of the chart is SelectSeq, on all short sequences of times.
ASSUME LaterIsFilter ==
  \A points \in BoundedSeq(0..3, 4), time \in -1..3 :
      Later(points, time) = SelectSeq(points, LAMBDA p : p > time)
=============================================================================
