------------------------------- MODULE MCAgent -------------------------------
(* The agent with two client objects (one may be closing while another starts). *)
EXTENDS Agent, TLC

CONSTANTS c1, c2, old, same, new, alien, conf1, conf2, k1, t1, t2

TwoClients == {c1, c2}

\* For liveness one object, started again and again, will do.
OneClient == {c1}

\* Four ccaches: one whose tickets the service does not accept any more, one with
\* the times of its TGT, a renewed one, and one without a TGT of the realm.
AllCCaches == {old, same, new, alien}
AllTGT == (old :> t1) @@ (same :> t1) @@ (new :> t2) @@ (alien :> NoTGT)
AllTimes == {t1, t2}
AllUsable == {same, new}
TwoConfs == {conf1, conf2}

\* A single ccache, which is good.
OneCCache == {new}
OneTGT == (new :> t2)
OneUsable == {new}
OneConf == {conf1}

OneCaller == {k1}
NoCallers == {}

OneServed == {3}

AnyNetwork == BOOLEAN

Symmetric == Permutations(TwoClients)
=============================================================================
