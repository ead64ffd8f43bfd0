--------------------------- MODULE MCCommandLine ---------------------------
(* One process that runs command after command, and an agent with a property that *)
(* Start sets to a value and one that it sets to the unknown value.               *)
EXTENDS CommandLine

CONSTANTS trust, config, yes, no, k1

TwoProps == {trust, config}
TwoOrder == <<config, trust>>
TwoValues == {yes, no}
TwoInitial == [p \in TwoProps |-> IF p = trust THEN no ELSE Unknown]

OneCaller == {k1}
=============================================================================
