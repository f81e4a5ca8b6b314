----------------------------- MODULE MCHubAgent -----------------------------
(* Two connectors of one route: two starts of one machine's connector that  *)
(* its lock did not keep apart, or two machines with one copied identity.   *)
EXTENDS HubAgent, TLC

CONSTANT MaxFaults  \* bound: faults of a run

VARIABLE faults

MCRouteOf == [a \in Agents |-> CHOOSE r \in Routes : TRUE]

MCInit == Init /\ faults = 0

MCNext ==
  \/ /\ \/ \E a \in Agents : Starts(a) \/ Connector(a)
        \/ \E k \in Conns : Hub(k)
        \/ \E r \in Routes : Ask(r)
     /\ UNCHANGED faults
  \/ faults < MaxFaults /\ Fault /\ faults' = faults + 1

MCSpec == MCInit /\ [][MCNext]_<<vars, faults>>

MCFairSpec == MCSpec /\ Fairness
=============================================================================
