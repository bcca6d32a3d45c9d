----------------------------- MODULE FinalizedSync -----------------------------
(***************************************************************************)
(* A node that catches up with the finalized chain from its peers: the     *)
(* requests by height, the buffer of transitions that arrive early, and    *)
(* their application (node_network.cpp and node_consensus.cpp).  A faulty  *)
(* peer sends what it likes with a certificate of a committee of its own,  *)
(* which the check before the lock accepts, or the real transition without *)
(* the certificates of its lane records.                                   *)
(***************************************************************************)
EXTENDS Naturals, FiniteSets, Sequences

CONSTANTS
    HonestPeers, FaultyPeers,   \* peers, numbers because the order of ids matters
    Validating,       \* the peers known as active validators
    Tip,              \* height of the finalized chain
    Ahead,            \* kMaxBufferedSyncAhead
    PerHeight,        \* kMaxBufferedSyncCandidatesPerHeight
    Capacity,         \* kMaxBufferedSyncBytes
    SyncWindow,       \* kForwardSyncWindow
    StrictPeers,      \* kMinStrictValidatorPeers
    MaxOutages        \* bound: restarts and disconnections

Peers == HonestPeers \cup FaultyPeers
SyncHeights == 1..Tip

ASSUME FinalizedSyncAssumption ==
    /\ IsFiniteSet(Peers) /\ Peers \subseteq Nat /\ HonestPeers \cap FaultyPeers = {} /\ HonestPeers # {}
    /\ Validating \subseteq Peers
    /\ {Tip, Ahead, PerHeight, Capacity, SyncWindow, StrictPeers} \subseteq Nat \ {0} /\ MaxOutages \in Nat

VARIABLES
    running,          \* running_
    finalized_height,
    buffered,         \* buffered_sync_frontiers_: height -> candidates
    buffered_bytes,   \* buffered_sync_bytes_
    requested,        \* requested_sync_height_peers_ within its retry time
    cursor,           \* sync_height_rr_cursor_
    connected,        \* established peers
    heard,            \* peers with a fresh entry in peer_finalized_tips_ (all claim the tip)
    lagging,          \* high_lag_mode: far behind, or long without progress
    scored,           \* peers with misbehaviour points
    outages

syVars == <<running, finalized_height, buffered, buffered_bytes, requested, cursor, connected,
            heard, lagging, scored, outages>>

-------------------------------------------------------------------------------
\* What arrives: the finalized transition or another one, its lane certificates complete
\* or not.  Other transitions are larger.
SyncTransitions ==
    [height: SyncHeights, id: {"final"}, lanes: BOOLEAN] \cup [height: SyncHeights, id: {"forged"}, lanes: {TRUE}]
FinalTransition(h) == [height |-> h, id |-> "final", lanes |-> TRUE]
Bytes(t) == IF t.id = "forged" THEN 2 ELSE 1

NoCandidates == [h \in SyncHeights |-> <<>>]

\* handle_frontier_block_locked at the next height: the lane records, the committee of
\* the certificate and the derived state are checked, and the parent is the tip.
Verifies(t) == t.id = "final" /\ t.lanes

-------------------------------------------------------------------------------
\* The peers asked: validators alone, unless there are few of them and the node is
\* lagging; else anybody (peers with old tips come after the fresh ones; not modelled).
sync_sources(recent, lag) ==
    LET validators == recent \cap Validating
    IN  IF validators # {} /\ (~lag \/ Cardinality(validators) >= StrictPeers) THEN validators ELSE recent

\* The order of the sources: the preferred peer (just heard of), validators, the least id.
SyncOrder(sources, preferred) ==
    LET Weight(p) == (IF p = preferred THEN 0 ELSE 2) + (IF p \in Validating THEN 0 ELSE 1)
        Before(p, q) == Weight(p) < Weight(q) \/ (Weight(p) = Weight(q) /\ p < q)
    IN  [i \in 1..Cardinality(sources) |-> CHOOSE p \in sources : Cardinality({q \in sources : Before(q, p)}) = i - 1]

\* Slip: the node asks one peer at a time however long nothing has come.
Fanout_slip(lag) == 1

\* Late requests go to more than one peer (to a third one when very far behind).
Fanout(lag) == IF lag THEN 2 ELSE 1

\* Each height of the window is asked of the first peers from the cursor on that have no
\* request outstanding for it (the rate budget only delays requests).
maybe_request_forward_sync_block(preferred, recent, lag, height, asked) ==
    LET sources == sync_sources(recent, lag)
        order == SyncOrder(sources, preferred)
        n == Len(order)
        last == IF Tip < height + SyncWindow THEN Tip ELSE height + SyncWindow
        At(h, step) == order[1 + ((cursor[h] + step) % n)]
        Free(h) == {step \in 0..(n - 1) : <<h, At(h, step)>> \notin asked}
        Sent(h) == {s \in Free(h) : Cardinality({t \in Free(h) : t < s}) < Fanout(lag)}
        Moved(h) == IF Sent(h) = {} THEN 1 ELSE Cardinality(Sent(h))
        window == (height + 1)..last
    IN  IF sources = {} THEN requested' = asked /\ UNCHANGED cursor
        ELSE /\ requested' = asked \cup UNION {{<<h, At(h, s)>> : s \in Sent(h)} : h \in window}
             /\ cursor' = [h \in SyncHeights |-> CASE h <= height -> 0 [] h \in window -> (cursor[h] + Moved(h)) % n [] OTHER -> cursor[h]]

-------------------------------------------------------------------------------
\* Slip: whoever repeats the only candidate answers for it.
Repeated_slip(candidates, t, p) ==
    IF Len(candidates) = 1 THEN <<[candidates[1] EXCEPT !.from = p]>> ELSE candidates

\* A candidate that is there already keeps its content and the peer it came from.
Repeated(candidates, t, p) == candidates

\* insert_buffered_sync_frontier_locked: the candidates of the height afterwards.  The id
\* of a transition does not cover its lane certificates.
insert_buffered_sync_frontier(t, p) ==
    LET candidates == buffered[t.height]
    IN  IF t.height > finalized_height + Ahead THEN candidates
        ELSE IF \E i \in 1..Len(candidates) : candidates[i].t.id = t.id THEN Repeated(candidates, t, p)
        ELSE IF \/ \E i \in 1..Len(candidates) : candidates[i].from = p
                \/ Len(candidates) >= PerHeight
                \/ buffered_bytes + Bytes(t) > Capacity
          THEN candidates
        ELSE Append(candidates, [t |-> t, from |-> p])

Total(buffer) ==
    LET held == {x \in SyncHeights \X (1..PerHeight) : x[2] <= Len(buffer[x[1]])}
    IN  Cardinality(held) + Cardinality({x \in held : buffer[x[1]][x[2]].t.id = "forged"})

bytes_after_drop(buffer, bytes, dropped) ==
    bytes - Total([h \in SyncHeights |-> IF h \in dropped THEN buffer[h] ELSE <<>>])

\* maybe_apply_buffered_sync_frontiers_locked after the node has reached height `from`
\* with this buffer: it applies heights while one of their candidates verifies, scores
\* the peers of the candidates that were tried in vain, and drops all it looked at.
ApplyBuffered(from, buffer, bytes, p) ==
    LET Good(h) == {i \in 1..Len(buffer[h]) : Verifies(buffer[h][i].t)}
        reached == CHOOSE k \in from..Tip :
                     /\ \A h \in (from + 1)..k : Good(h) # {}
                     /\ k + 1 \in SyncHeights => Good(k + 1) = {}
        Vain(h) == {i \in 1..Len(buffer[h]) : \A g \in Good(h) : i < g}
        looked == {h \in SyncHeights : h <= reached + 1}
        tried == {x \in SyncHeights \X (1..PerHeight) : x[1] > from /\ x[1] <= reached + 1 /\ x[2] \in Vain(x[1])}
    IN  /\ finalized_height' = reached
        /\ buffered' = [h \in SyncHeights |-> IF h \in looked THEN <<>> ELSE buffer[h]]
        /\ buffered_bytes' = bytes_after_drop(buffer, bytes, looked)
        /\ scored' = scored \cup {buffer[x[1]][x[2]].from : x \in tried}
        /\ lagging' = (lagging /\ reached = finalized_height)
        /\ LET asked == {r \in requested : r[1] > reached}
           IN  IF reached > finalized_height
               THEN maybe_request_forward_sync_block(p, heard, lagging', reached, asked)
               ELSE requested' = asked /\ UNCHANGED cursor

\* on_transition with a certificate.
on_transition(p, t) ==
    /\ UNCHANGED <<running, connected, heard, outages>>
    /\ LET buffer == [buffered EXCEPT ![t.height] = insert_buffered_sync_frontier(t, p)]
           bytes == buffered_bytes + Total(buffer) - Total(buffered)
           accepted == \E i \in 1..Len(buffer[t.height]) : buffer[t.height][i].t.id = t.id
       IN  \/ ~running /\ t.height > finalized_height
              /\ buffered' = buffer /\ buffered_bytes' = bytes
              /\ UNCHANGED <<finalized_height, requested, cursor, lagging, scored>>
           \/ running /\ t.height > finalized_height + 1
              /\ IF accepted THEN ApplyBuffered(finalized_height, buffer, bytes, p)
                 ELSE UNCHANGED <<buffered, buffered_bytes, finalized_height, requested, cursor, lagging, scored>>
           \/ running /\ t.height = finalized_height + 1 /\ Verifies(t)
              /\ ApplyBuffered(t.height, buffered, buffered_bytes, p)

-------------------------------------------------------------------------------
SyInit ==
    /\ running = FALSE
    /\ finalized_height = 0
    /\ buffered = NoCandidates /\ buffered_bytes = 0
    /\ requested = {} /\ cursor = [h \in SyncHeights |-> 0]
    /\ connected = Peers /\ heard = {}
    /\ lagging = FALSE /\ scored = {} /\ outages = 0

\* The node enters its event loop.
StartRunning ==
    /\ ~running /\ running' = TRUE
    /\ UNCHANGED <<finalized_height, buffered, buffered_bytes, requested, cursor, connected, heard,
                   lagging, scored, outages>>

\* on_finalized_tip; a faulty peer claims the tip as well, and need not have it.
on_finalized_tip(p) ==
    /\ p \in connected
    /\ heard' = heard \cup {p}
    /\ UNCHANGED <<running, finalized_height, buffered, buffered_bytes, connected, lagging, scored, outages>>
    /\ maybe_request_forward_sync_block(p, heard', lagging, finalized_height, requested)

\* on_get_transition_by_height at an honest peer, and its answer here.
Answer(p, h) ==
    /\ p \in HonestPeers \cap connected /\ <<h, p>> \in requested
    /\ on_transition(p, FinalTransition(h))

\* A faulty peer sends anything at any time.
Forge(p, t) ==
    /\ p \in FaultyPeers \cap connected
    /\ t # FinalTransition(t.height)
    /\ on_transition(p, t)

\* The retry time of a request is over: it, or its answer, was lost.
RetryDue(h, p) ==
    /\ <<h, p>> \in requested
    /\ requested' = requested \ {<<h, p>>}
    /\ UNCHANGED <<running, finalized_height, buffered, buffered_bytes, cursor, connected, heard,
                   lagging, scored, outages>>

\* Time without progress.
Lag ==
    /\ running /\ ~lagging /\ finalized_height < Tip
    /\ lagging' = TRUE
    /\ UNCHANGED <<running, finalized_height, buffered, buffered_bytes, requested, cursor, connected, heard,
                   scored, outages>>

\* The next transition is finalized by the votes this node received itself.
FinalizeByVotes ==
    /\ running /\ finalized_height < Tip
    /\ finalized_height' = finalized_height + 1
    /\ requested' = {r \in requested : r[1] # finalized_height + 1}
    /\ lagging' = FALSE
    /\ UNCHANGED <<running, buffered, buffered_bytes, cursor, connected, heard, scored, outages>>

\* on_peer_event(DISCONNECTED), a ban included, and the reconnection of an honest peer.
Disconnect(p) ==
    /\ p \in connected
    /\ p \in scored \/ outages < MaxOutages
    /\ outages' = IF p \in scored THEN outages ELSE outages + 1
    /\ connected' = connected \ {p}
    /\ heard' = heard \ {p}
    /\ requested' = {r \in requested : r[2] # p}
    /\ UNCHANGED <<running, finalized_height, buffered, buffered_bytes, cursor, lagging, scored>>

PeerReturns(p) ==
    /\ p \in Peers \ connected /\ p \notin scored
    /\ connected' = connected \cup {p}
    /\ UNCHANGED <<running, finalized_height, buffered, buffered_bytes, requested, cursor, heard,
                   lagging, scored, outages>>

\* A crash: the finalized state is durable, the buffer and the requests are not.
RestartNode ==
    /\ outages < MaxOutages /\ outages' = outages + 1
    /\ running' = FALSE
    /\ buffered' = NoCandidates /\ buffered_bytes' = 0
    /\ requested' = {} /\ cursor' = [h \in SyncHeights |-> 0]
    /\ heard' = {} /\ lagging' = FALSE
    /\ UNCHANGED <<finalized_height, connected, scored>>

SyNext ==
    \/ StartRunning \/ Lag \/ FinalizeByVotes \/ RestartNode
    \/ \E p \in Peers : on_finalized_tip(p) \/ Disconnect(p) \/ PeerReturns(p)
    \/ \E p \in Peers, h \in SyncHeights : Answer(p, h) \/ RetryDue(h, p)
    \/ \E p \in FaultyPeers, t \in SyncTransitions : Forge(p, t)

\* Tips are exchanged with every keepalive, the event loop and the retry timers run, and
\* an honest peer that is asked again and again answers.
SyFairness ==
    /\ WF_syVars(StartRunning) /\ WF_syVars(Lag)
    /\ \A p \in HonestPeers : WF_syVars(on_finalized_tip(p)) /\ WF_syVars(PeerReturns(p))
    /\ \A p \in HonestPeers : WF_syVars(RetryDue(finalized_height + 1, p))
    /\ SF_syVars(\E p \in HonestPeers : Answer(p, finalized_height + 1))

SySpec == SyInit /\ [][SyNext]_syVars /\ SyFairness

-------------------------------------------------------------------------------
\* "A finalized transition that fails full validation at its own height was forged": an
\* honest peer never gets misbehaviour points for what others sent under the same id.
HonestNotScored == scored \cap HonestPeers = {}

\* The node reaches the tip, whatever the faulty peers claim and send.
CatchesUp == <>(finalized_height >= Tip)
================================================================================
