----------------------------- MODULE MCAgentBus -----------------------------
(* The agent with its service and an open notifier: one client object, one ccache *)
(* with good tickets, one ReLogin call at a time, and a host that stays in a       *)
(* trusted network: it loses the trust when it goes to sleep.                      *)
EXTENDS AgentBus, TLC

CONSTANTS c1, new, conf, k1, t1

OneClient == {c1}
OneCCache == {new}
OneTGT == (new :> t1)
OneTime == {t1}
OneConf == {conf}
OneCaller == {k1}
OneServed == {5}
TrustedOnly == {TRUE}
=============================================================================
