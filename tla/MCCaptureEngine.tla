-------------------------- MODULE MCCaptureEngine --------------------------
(* Two flows of each protocol's kind, one unit between polls or two when   *)
(* one is late, TTLs of three and two units; the .cfg names the flows.     *)
EXTENDS CaptureEngine

CONSTANTS t, u

TheTcp == {t}
TheUdp == {u}

R(i, a) == [id |-> i, connected |-> TRUE, activity |-> a]
Listener(i) == [id |-> i, connected |-> FALSE, activity |-> 1]

(* No row, one row, both, a listener beside a row, and a duplicated row.   *)
TheReading ==
  { <<>>, <<R(t, 1)>>, <<R(t, 2)>>, <<R(u, 1)>>, <<R(t, 1), R(u, 1)>>,
    <<R(t, 2), R(u, 1)>>, <<Listener(t), R(u, 1)>>, <<R(t, 1), R(t, 2)>> }

TheTraffic == UNION {[S -> 1..MaxActivity] : S \in SUBSET Id}
=============================================================================
