------------------------------ MODULE PeerSessions ------------------------------
(* Connections between two nodes (p2p/peer_manager.cpp and the peer events,     *)
(* VERSION and VERACK of node/node_network.cpp).  Each end of a connection has  *)
(* three threads: the one that dialed or accepted it, a reader that handles     *)
(* what arrives, and a writer that empties the queue of frames; the event loop  *)
(* of the node broadcasts beside them and holds the mutex of the node meanwhile.*)
(* Payloads, rate limits and scores are left out: a frame is VERSION, VERACK,   *)
(* "sync" (is_bootstrap_sync_msg) or "gossip" (any other), and both nodes are   *)
(* correct, of the same network, with the same or with other consensus rules.   *)
EXTENDS Naturals, Sequences, FiniteSets

CONSTANTS
    Dials,            \* bound: connections the dialer opens, one after the other
    QueueFrames,      \* max_outbound_queue_msgs
    Extras            \* bound: what the event loops send, connections that break and read timeouts

ASSUME PeerSessionsAssumption == {Dials, QueueFrames, Extras} \subseteq Nat

VARIABLES
    ends,             \* connection -> end -> what that node keeps of it
    pipe,             \* connection -> end -> frames on the way to it
    shut,             \* connection -> ends that have shut their socket
    mutex,            \* node -> mu_: "free", "held" by its event loop, or "stuck" in a thread that takes it twice
    points,           \* node -> reasons it has scored the other one for
    rules,            \* node -> its consensus_rules_fingerprint
    spent             \* [dials, extras] so far

psVars == <<ends, pipe, shut, mutex, points, rules, spent>>

Ends == {"dialer", "listener"}
Conns == 1..Dials
Peer(e) == CHOOSE f \in Ends : f # e
Handshake == {"version_tx", "version_rx", "verack_tx", "verack_rx"}

\* PeerConn and its threads; a frame is sent and only then marked as sent.
NoConn == [info |-> {}, outq |-> <<>>, closing |-> FALSE, asked |-> FALSE,
           starter |-> "none", reader |-> "none", writer |-> "none"]
Started == [NoConn EXCEPT !.starter = "connected", !.reader = "read", !.writer = "run"]

Listed(c) == c.reader \notin {"none", "gone"}
established(c) == c.info = Handshake

\* Slip: the receiver's state of the handshake is not looked at.
AnySendable(c, m) == TRUE

\* A frame that a peer in its handshake would score is not sent.
Sendable(c, m) ==
    \/ established(c) \/ m \in {"VERSION", "VERACK"}
    \/ m = "sync" /\ {"version_rx", "version_tx", "verack_tx"} \subseteq c.info

request_close(c, drain) == [c EXCEPT !.closing = TRUE, !.outq = IF drain THEN @ ELSE <<>>]

\* send_to: whether the frame was taken, and the connection after it.  A full queue drops a frame
\* of low priority and closes the connection for any other.
Takes(c, m) == Listed(c) /\ Sendable(c, m) /\ ~c.closing
send_to(c, m, low) ==
    IF ~Takes(c, m) THEN c
    ELSE IF Len(c.outq) < QueueFrames THEN [c EXCEPT !.outq = Append(@, m)]
    ELSE IF low THEN c ELSE request_close(c, FALSE)
Sent(c, m) == Takes(c, m) /\ Len(c.outq) < QueueFrames

Set(i, e, c) == ends' = [ends EXCEPT ![i][e] = c]
Lock(e) == mutex[e] = "free"

-------------------------------------------------------------------------------
\* connect_to: the dialer has no connection to the other node.
Dial ==
    /\ spent.dials < Dials
    /\ \A i \in Conns : ~Listed(ends[i]["dialer"])
    /\ spent' = [spent EXCEPT !.dials = @ + 1]
    /\ Set(spent.dials + 1, "dialer", Started)
    /\ UNCHANGED <<pipe, shut, mutex, points, rules>>

\* accept_loop: the connection is taken, or refused at the limit of inbound connections.
Accept(i) ==
    /\ i <= spent.dials /\ ends[i]["listener"].reader = "none" /\ "listener" \notin shut[i]
    /\ \/ Set(i, "listener", Started) /\ UNCHANGED shut
       \/ shut' = [shut EXCEPT ![i] = @ \cup {"listener"}] /\ UNCHANGED ends
    /\ UNCHANGED <<pipe, mutex, points, rules, spent>>

\* on_peer_event(CONNECTED), in the thread of start_peer: VERSION goes out unless the reader has
\* sent it already.
StarterStep(i, e) ==
    LET c == ends[i][e] IN
    /\ \/ /\ c.starter = "connected" /\ Lock(e)
          /\ Set(i, e, [c EXCEPT !.starter = IF "version_tx" \in c.info THEN "done" ELSE "send"])
       \/ /\ c.starter = "send" /\ Lock(e)
          /\ Set(i, e, [send_to(c, "VERSION", FALSE) EXCEPT
                           !.starter = IF Sent(c, "VERSION") THEN "mark" ELSE "done"])
       \/ /\ c.starter = "mark"
          /\ Set(i, e, [c EXCEPT !.starter = "done", !.info = IF Listed(c) THEN @ \cup {"version_tx"} ELSE @])
    /\ UNCHANGED <<pipe, shut, mutex, points, rules, spent>>

\* write_loop: a queued frame goes out, or the write fails; a closing connection is left when its
\* queue is empty, or when the time to drain it is over.
WriterStep(i, e) ==
    LET c == ends[i][e]
        Stop(d) == /\ Set(i, e, [d EXCEPT !.writer = "done"])
                   /\ shut' = [shut EXCEPT ![i] = @ \cup {e}] /\ UNCHANGED pipe IN
    /\ c.writer = "run"
    /\ \/ c.closing /\ Stop(c)
       \/ /\ c.outq # <<>>
          /\ Set(i, e, [c EXCEPT !.outq = Tail(@)])
          /\ pipe' = IF shut[i] # {} THEN pipe ELSE [pipe EXCEPT ![i][Peer(e)] = Append(@, Head(c.outq))]
          /\ UNCHANGED shut
       \/ c.outq # <<>> /\ Peer(e) \in shut[i] /\ Stop(request_close(c, FALSE))
    /\ UNCHANGED <<mutex, points, rules, spent>>

\* handle_message up to the handlers: a frame before the handshake is scored and dropped.
PreHandshake(c, m) ==
    /\ ~established(c)
    /\ ~(m = "sync" /\ {"version_rx", "version_tx", "verack_tx"} \subseteq c.info)

\* on_version rejects other consensus rules and closes once its queue is empty; otherwise the
\* reader answers with VERSION, if none went out, and VERACK.
on_version(i, e, c) ==
    IF rules[Peer(e)] # rules[e] THEN Set(i, e, request_close(c, TRUE))
    ELSE Set(i, e, [c EXCEPT !.info = @ \cup {"version_rx"},
                             !.reader = IF "version_tx" \in c.info THEN "verack" ELSE "version"])

\* on_verack: addresses are asked for once, the tip is sent each time.
on_verack(i, e, c) ==
    LET d == [c EXCEPT !.info = @ \cup {"verack_rx"}, !.asked = TRUE]
        asked == IF c.asked THEN d ELSE send_to(d, "gossip", TRUE)
    IN Set(i, e, send_to(asked, "sync", FALSE))

\* read_loop with a frame to read.
ReadFrame(i, e) ==
    LET c == ends[i][e]
        m == Head(pipe[i][e]) IN
    /\ c.reader = "read" /\ pipe[i][e] # <<>> /\ Lock(e) /\ ~(c.closing /\ c.outq = <<>>)
    /\ pipe' = [pipe EXCEPT ![i][e] = Tail(@)]
    /\ CASE m = "VERSION" -> on_version(i, e, c)
         [] m = "VERACK"  -> on_verack(i, e, c)
         [] OTHER         -> UNCHANGED ends
    /\ points' = IF m \in {"sync", "gossip"} /\ PreHandshake(c, m)
                 THEN [points EXCEPT ![e] = @ \cup {"PRE_HANDSHAKE_CONSENSUS"}] ELSE points
    /\ UNCHANGED <<shut, mutex, rules, spent>>

\* The rest of on_version in the reader: send, then mark.
AnswerVersion(i, e) ==
    LET c == ends[i][e]
        After(m, flag, next) ==
            \/ /\ c.reader = m /\ Lock(e)
               /\ Set(i, e, [send_to(c, IF m = "version" THEN "VERSION" ELSE "VERACK", FALSE) EXCEPT
                                !.reader = IF Sent(c, IF m = "version" THEN "VERSION" ELSE "VERACK")
                                           THEN flag ELSE next])
            \/ c.reader = flag /\ Set(i, e, [c EXCEPT !.info = @ \cup {flag}, !.reader = next])
    IN /\ After("version", "version_tx", "verack") \/ After("verack", "verack_tx", "read")
       /\ UNCHANGED <<pipe, shut, mutex, points, rules, spent>>

\* read_loop without one: the connection is closing here, was shut by the other end, or nothing
\* came in time.  Only a timeout in the handshake is scored.
ReadEnds(i, e) ==
    LET c == ends[i][e]
        Leave == Set(i, e, [request_close(c, FALSE) EXCEPT !.reader = "join"]) IN
    /\ c.reader = "read"
    /\ \/ c.closing /\ c.outq = <<>> /\ Leave /\ UNCHANGED <<points, spent>>
       \/ pipe[i][e] = <<>> /\ shut[i] # {} /\ Leave /\ UNCHANGED <<points, spent>>
       \/ /\ pipe[i][e] = <<>> /\ spent.extras < Extras /\ ~c.closing /\ Leave
          /\ spent' = [spent EXCEPT !.extras = @ + 1]
          /\ IF established(c) THEN UNCHANGED points
             ELSE Lock(e) /\ points' = [points EXCEPT ![e] = @ \cup {"HANDSHAKE_TIMEOUT"}]
    /\ UNCHANGED <<pipe, shut, mutex, rules>>

\* The end of read_loop: the writer is joined, the socket closed, the peer taken off the list, and
\* on_peer_event(DISCONNECTED) drops what the node keeps of it.
ReaderLeaves(i, e) ==
    LET c == ends[i][e] IN
    /\ c.reader = "join" /\ c.writer = "done" /\ Lock(e)
    /\ Set(i, e, [c EXCEPT !.reader = "gone", !.info = {}])
    /\ UNCHANGED <<pipe, shut, mutex, points, rules, spent>>

\* A connection breaks: what is on the way is lost.
Break(i) ==
    /\ spent.extras < Extras /\ spent' = [spent EXCEPT !.extras = @ + 1]
    /\ i <= spent.dials /\ shut' = [shut EXCEPT ![i] = Ends]
    /\ pipe' = [pipe EXCEPT ![i] = [e \in Ends |-> <<>>]]
    /\ UNCHANGED <<ends, mutex, points, rules>>

\* The event loop asks a peer for its tip (send_to decides whether the frame goes out).
RequestTip(i, e) ==
    /\ spent.extras < Extras /\ Lock(e) /\ Listed(ends[i][e])
    /\ spent' = [spent EXCEPT !.extras = @ + 1]
    /\ Set(i, e, send_to(ends[i][e], "sync", TRUE))
    /\ UNCHANGED <<pipe, shut, mutex, points, rules>>

\* Slip: the peer is scored, which takes the mutex a second time.
ScoreOverflow(overflow) == IF overflow THEN "stuck" ELSE "free"

\* on_peer_event(QUEUE_OVERFLOW) runs in the thread that broadcasts and takes no mutex: the
\* event loop then releases its own.
AfterOverflow(overflow) == "free"

\* The event loop broadcasts a ticket it has found: it holds the mutex of the node while the
\* frame is queued at every established peer.
StartBroadcast(e) ==
    /\ spent.extras < Extras /\ Lock(e)
    /\ spent' = [spent EXCEPT !.extras = @ + 1]
    /\ mutex' = [mutex EXCEPT ![e] = "held"]
    /\ UNCHANGED <<ends, pipe, shut, points, rules>>
Broadcast(e) ==
    LET Overflow(c) == established(c) /\ Takes(c, "gossip") /\ ~Sent(c, "gossip") IN
    /\ mutex[e] = "held"
    /\ mutex' = [mutex EXCEPT ![e] = AfterOverflow(\E i \in Conns : Overflow(ends[i][e]))]
    /\ ends' = [i \in Conns |-> [ends[i] EXCEPT ![e] =
                   IF established(ends[i][e]) THEN send_to(@, "gossip", FALSE) ELSE @]]
    /\ UNCHANGED <<pipe, shut, points, rules, spent>>

-------------------------------------------------------------------------------
PSInit ==
    /\ ends = [i \in Conns |-> [e \in Ends |-> NoConn]]
    /\ pipe = [i \in Conns |-> [e \in Ends |-> <<>>]]
    /\ shut = [i \in Conns |-> {}]
    /\ mutex = [e \in Ends |-> "free"]
    /\ points = [e \in Ends |-> {}]
    /\ rules \in {r \in [Ends -> {1, 2}] : r["dialer"] = 1}
    /\ spent = [dials |-> 0, extras |-> 0]

ReaderStep(i, e) == ReadFrame(i, e) \/ AnswerVersion(i, e) \/ ReadEnds(i, e) \/ ReaderLeaves(i, e)
PSNext ==
    \/ Dial
    \/ \E i \in Conns : Accept(i) \/ Break(i)
    \/ \E i \in Conns, e \in Ends : StarterStep(i, e) \/ WriterStep(i, e) \/ ReaderStep(i, e) \/ RequestTip(i, e)
    \/ \E e \in Ends : StartBroadcast(e) \/ Broadcast(e)
PSFairness ==
    /\ \A i \in Conns : WF_psVars(Accept(i))
    /\ \A i \in Conns, e \in Ends :
        WF_psVars(StarterStep(i, e)) /\ WF_psVars(WriterStep(i, e)) /\ WF_psVars(ReaderStep(i, e))
    /\ \A e \in Ends : WF_psVars(Broadcast(e))
PSSpec == PSInit /\ [][PSNext]_psVars /\ PSFairness

-------------------------------------------------------------------------------
\* Two nodes with the same rules never score each other for what they send, whichever thread
\* sends VERSION, however slow the writers and however early the event loop sends.
HandshakeHarmless ==
    rules["dialer"] = rules["listener"] => \A e \in Ends : points[e] \subseteq {"HANDSHAKE_TIMEOUT"}

\* Every connection ends up established at both ends, or gone from both, and no node keeps its
\* own mutex from itself.
SessionsSettle ==
    \A i \in Conns :
        i <= spent.dials ~> /\ \A e \in Ends : mutex[e] = "free"
                            /\ \/ \A e \in Ends : established(ends[i][e])
                               \/ /\ ends[i]["dialer"].reader = "gone"
                                  /\ ends[i]["listener"].reader \in {"none", "gone"}
===============================================================================
