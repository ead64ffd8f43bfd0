---------------------------- MODULE LoginStatus ----------------------------
(***************************************************************************)
(* What the agent promises the user about the status it shows (the D-Bus   *)
(* properties TrustedNetwork and LoginState and the desktop notifications): *)
(* the login state moves through logging in and logging out only in the    *)
(* order that pkg/status/status.go names, a login is only ever tried, shown *)
(* as succeeded or as failed in a trusted network, and a loss of trust      *)
(* leaves at most a logout, which comes to an end.                          *)
(***************************************************************************)

VARIABLES
    trusted,    \* the trusted network status is "trusted"
    state       \* the login state

statusVars == <<trusted, state>>

TypeOK ==
    /\ trusted \in BOOLEAN
    /\ state \in {"LoggedOut", "LoggingIn", "LoggedIn", "LoggingOut"}

Init ==
    /\ trusted = FALSE
    /\ state = "LoggedOut"

GainTrust ==
    /\ ~trusted /\ state = "LoggedOut"
    /\ trusted' = TRUE
    /\ UNCHANGED state

\* With the trust goes the login: what is left is the logout of a client that
\* may not even have begun to log in.
LoseTrust ==
    /\ trusted /\ state # "LoggingOut"
    /\ trusted' = FALSE
    /\ \/ state' = "LoggingOut"
       \/ state = "LoggedOut" /\ UNCHANGED state

BeginLogin ==
    /\ trusted /\ state \in {"LoggedOut", "LoggedIn"}
    /\ state' = "LoggingIn"
    /\ UNCHANGED trusted

EndLogin ==
    /\ trusted /\ state = "LoggingIn"
    /\ state' \in {"LoggedIn", "LoggedOut"}
    /\ UNCHANGED trusted

BeginLogout ==
    /\ trusted /\ state # "LoggingOut"
    /\ state' = "LoggingOut"
    /\ UNCHANGED trusted

EndLogout ==
    /\ state = "LoggingOut"
    /\ state' = "LoggedOut"
    /\ UNCHANGED trusted

Next ==
    \/ GainTrust
    \/ LoseTrust
    \/ BeginLogin
    \/ EndLogin
    \/ BeginLogout
    \/ EndLogout

Safe == Init /\ [][Next]_statusVars

Spec == Safe /\ WF_statusVars(EndLogout)

=============================================================================
