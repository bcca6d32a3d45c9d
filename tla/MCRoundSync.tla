---------------------------- MODULE MCRoundSync ----------------------------
(* Committees for RoundSync.                                                *)
EXTENDS RoundSync

CONSTANTS n1, n2, n3, n4

Four == {n1, n2, n3, n4}
Three == {n1, n2, n3}
Two == {n1, n2}
LastFaulty == {n4}
NoFaults == {}
Rotation == [r \in 0 .. MaxRound |-> <<n1, n2, n3>>[(r % 3) + 1]]
Alternate == [r \in 0 .. MaxRound |-> <<n1, n2>>[(r % 2) + 1]]

\* Every connection stays up, nodes restart.  (MCPeers explores the outages.)
ConnectedNext ==
    \E p \in Running :
        \/ TimeoutVote(p)
        \/ \E q \in Members, r \in Rounds : Receive(p, q, r)
        \/ \E r \in Rounds, pol \in BOOLEAN : HandlePropose(p, r, pol)
        \/ Restart(p)

ConnectedSpec == Init /\ [][ConnectedNext]_vars /\ Fairness
=============================================================================
