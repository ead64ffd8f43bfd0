--------------------------- MODULE MCStatusClient ---------------------------
(* One subscriber, and an agent with a property that Start sets to a value and one *)
(* that it sets to the unknown value, as TrustedNetwork and Config; no callers.     *)
EXTENDS StatusClient

CONSTANTS trust, config, no

TwoProps == {trust, config}
TwoOrder == <<config, trust>>
OneValue == {no}
TwoInitial == [p \in TwoProps |-> IF p = trust THEN no ELSE Unknown]

NoCallers == {}
=============================================================================
