-------------------------- MODULE MCIdentityClient --------------------------
(* One client object that is started again and again, on its own. *)
EXTENDS IdentityClient

CONSTANTS c1, good, bad, conf

MCClients == {c1}
MCCCaches == {good, bad}
MCKrb5Confs == {conf}
MCUsable == {good}

\* The service serves no valid keep-alive (0, -1), one that is not the default, and
\* some that overflow: to a negative duration (9 minutes) and to one that is shorter
\* (18 minutes).
MCServed == {-1, 0, 3, 9, 18}
=============================================================================
