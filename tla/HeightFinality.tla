--------------------------- MODULE HeightFinality ---------------------------
(* What finality promises at one height, whatever the committee does: each  *)
(* honest node finalizes at most one transition, never revises it, and no   *)
(* two of them finalize different transitions.                              *)
CONSTANTS Nodes, Values, None

VARIABLE final      \* final[n]: the transition n finalized, or None

FinalityInit == final = [n \in Nodes |-> None]

Decide(n, v) ==
    /\ final[n] = None
    /\ \A m \in Nodes : final[m] \in {None, v}
    /\ final' = [final EXCEPT ![n] = v]

FinalityNext == \E n \in Nodes, v \in Values : Decide(n, v)

FinalitySpec == FinalityInit /\ [][FinalityNext]_final
=============================================================================
