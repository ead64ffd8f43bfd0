----------------------------- MODULE BusStatus -----------------------------
(***************************************************************************)
(* What a reader of the bus sees of LoginStatus: the two properties change *)
(* one after the other.  A loss of trust is seen before the logout that it *)
(* brings; until that has ended no trust is gained and no login begins.    *)
(* An agent that stops leaves at any time, with its trust first.           *)
(***************************************************************************)

CONSTANT Unknown

VARIABLES
    trust,      \* the property TrustedNetwork
    state       \* the property LoginState

busStatusVars == <<trust, state>>

Init ==
    /\ trust = "NotTrusted"
    /\ state = "LoggedOut"

GainTrust ==
    /\ trust = "NotTrusted" /\ state = "LoggedOut"
    /\ trust' = "Trusted"
    /\ UNCHANGED state

LoseTrust ==
    /\ trust = "Trusted" /\ state # "LoggingOut"
    /\ trust' = "NotTrusted"
    /\ UNCHANGED state

BeginLogin ==
    /\ trust = "Trusted" /\ state \in {"LoggedOut", "LoggedIn"}
    /\ state' = "LoggingIn"
    /\ UNCHANGED trust

EndLogin ==
    /\ trust = "Trusted" /\ state = "LoggingIn"
    /\ state' \in {"LoggedIn", "LoggedOut"}
    /\ UNCHANGED trust

BeginLogout ==
    /\ trust # Unknown /\ state # "LoggingOut"
    /\ state' = "LoggingOut"
    /\ UNCHANGED trust

EndLogout ==
    /\ trust # Unknown /\ state = "LoggingOut"
    /\ state' = "LoggedOut"
    /\ UNCHANGED trust

Leave ==
    \/ /\ trust # Unknown
       /\ trust' = Unknown /\ UNCHANGED state
    \/ /\ trust = Unknown
       /\ state' = Unknown /\ UNCHANGED trust

Next ==
    \/ GainTrust
    \/ LoseTrust
    \/ BeginLogin
    \/ EndLogin
    \/ BeginLogout
    \/ EndLogout
    \/ Leave

Spec == Init /\ [][Next]_busStatusVars

=============================================================================
