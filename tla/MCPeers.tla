-------------------------------- MODULE MCPeers --------------------------------
(* Instances of the components that hold a node's talk with its peers: the      *)
(* rounds under floods of timeout votes, the connections and the                *)
(* synchronisation of finalized blocks.  They do not interact in these          *)
(* instances, so each behaviour follows one of them and the others keep their   *)
(* initial state.                                                               *)
EXTENDS MCRoundSync, PeerSessions, FinalizedSync

VARIABLE part         \* the component the behaviour follows

PeersInit ==
    /\ Init /\ PSInit /\ SyInit
    /\ part \in {"rounds", "sessions", "sync"}
    /\ part = "sessions" \/ rules["listener"] = 1

PeersNext ==
    \/ part = "rounds" /\ Next /\ UNCHANGED <<psVars, syVars, part>>
    \/ part = "sessions" /\ PSNext /\ UNCHANGED <<vars, syVars, part>>
    \/ part = "sync" /\ SyNext /\ UNCHANGED <<vars, psVars, part>>

\* The fairness of FinalizedSync, of the behaviours that follow it.
Following(A) == part = "sync" /\ A /\ UNCHANGED <<vars, psVars, part>>

SyncFairness ==
    /\ WF_syVars(Following(StartRunning)) /\ WF_syVars(Following(Lag))
    /\ \A p \in HonestPeers :
        /\ WF_syVars(Following(on_finalized_tip(p))) /\ WF_syVars(Following(PeerReturns(p)))
        /\ WF_syVars(Following(RetryDue(finalized_height + 1, p)))
    /\ SF_syVars(Following(\E p \in HonestPeers : Answer(p, finalized_height + 1)))

\* The fairness of PeerSessions: every thread runs on.
Connected(A) == part = "sessions" /\ A /\ UNCHANGED <<vars, syVars, part>>

SessionFairness ==
    /\ \A i \in Conns : WF_psVars(Connected(Accept(i)))
    /\ \A i \in Conns, e \in Ends :
        /\ WF_psVars(Connected(StarterStep(i, e))) /\ WF_psVars(Connected(WriterStep(i, e)))
        /\ WF_psVars(Connected(ReaderStep(i, e)))
    /\ \A e \in Ends : WF_psVars(Connected(Broadcast(e)))

PeersSpec ==
    PeersInit /\ [][PeersNext]_<<vars, psVars, syVars, part>> /\ SyncFairness /\ SessionFairness

\* CatchesUp, for the behaviours that follow the synchronisation: the node reaches the tip
\* whatever the faulty peers claim and send.
SyncCatchesUp == part = "sync" => CatchesUp

\* SessionsSettle, for the behaviours that follow the connections: no order of the threads and
\* no full queue leaves a connection half open or a node waiting for itself.
ConnectionsSettle == part = "sessions" => SessionsSettle
================================================================================
