------------------------------- MODULE MCRamp -------------------------------
(* Small instances of RampService for TLC. *)
EXTENDS RampService

CONSTANTS buy, sell

\* A purchase and a sale of the same amount.
AKind    == [r \in Request |-> IF r = sell THEN "off_ramp" ELSE "on_ramp"]
AnAmount == [r \in Request |-> 1]
=============================================================================
