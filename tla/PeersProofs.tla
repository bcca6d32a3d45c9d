------------------------------ MODULE PeersProofs ------------------------------
(* What holds of a node's talk with its peers for any number of peers, heights,  *)
(* connections and frames: FinalizedSync and PeerSessions.                       *)
EXTENDS FinalizedSync, PeerSessions, TLAPS

-------------------------------------------------------------------------------
(* Finalized sync: nobody answers for what somebody else sent.                   *)

Candidates == [t : SyncTransitions, from : Peers]

\* Whatever a buffer holds of an honest peer is the finalized transition, lanes and all.
HonestInBuffer(buffer) ==
    \A h \in SyncHeights : \A i \in 1..Len(buffer[h]) :
        buffer[h][i].from \in HonestPeers => Verifies(buffer[h][i].t)

BufferInv ==
    /\ buffered \in [SyncHeights -> Seq(Candidates)]
    /\ HonestInBuffer(buffered)
    /\ HonestNotScored

LEMMA NoCandidatesFit == NoCandidates \in [SyncHeights -> Seq(Candidates)] /\ HonestInBuffer(NoCandidates)
<1>1. <<>> \in Seq(Candidates) /\ Len(<<>>) = 0
  OBVIOUS
<1> QED
  BY <1>1 DEF NoCandidates, HonestInBuffer

\* A new candidate is the peer's own; one that is there already stays whose it was.
LEMMA InsertFits ==
    ASSUME BufferInv, NEW t \in SyncTransitions, NEW p \in Peers, p \in HonestPeers => Verifies(t),
           NEW buffer, buffer = [buffered EXCEPT ![t.height] = insert_buffered_sync_frontier(t, p)]
    PROVE  buffer \in [SyncHeights -> Seq(Candidates)] /\ HonestInBuffer(buffer)
<1> DEFINE old == buffered[t.height]
           new == insert_buffered_sync_frontier(t, p)
           c == [t |-> t, from |-> p]
<1>1. t.height \in SyncHeights /\ c \in Candidates
  BY DEF SyncTransitions, Candidates
<1>2. old \in Seq(Candidates)
  BY <1>1 DEF BufferInv
<1>3. new \in {old, Append(old, c)}
  BY DEF insert_buffered_sync_frontier, Repeated
<1>b. buffer = [buffered EXCEPT ![t.height] = new]
  OBVIOUS
<1> HIDE DEF new, c
<1>4. new \in Seq(Candidates)
  BY <1>1, <1>2, <1>3
<1>5. buffer \in [SyncHeights -> Seq(Candidates)]
  BY <1>1, <1>4, <1>b DEF BufferInv
<1>6. c.from = p /\ c.t = t
  BY DEF c
<1>7. ASSUME NEW h \in SyncHeights, NEW i \in 1..Len(buffer[h]), buffer[h][i].from \in HonestPeers
      PROVE  Verifies(buffer[h][i].t)
  <2>1. CASE h # t.height \/ new = old
    <3>1. buffer[h] = buffered[h]
      BY <1>1, <1>b, <2>1 DEF BufferInv
    <3> QED
      BY <1>7, <3>1 DEF BufferInv, HonestInBuffer
  <2>2. CASE h = t.height /\ new = Append(old, c)
    <3>1. buffer[h] = Append(old, c)
      BY <1>1, <1>b, <2>2 DEF BufferInv
    <3>2. CASE i = Len(old) + 1
      <4>1. buffer[h][i] = c
        BY <1>2, <3>1, <3>2
      <4> QED
        BY <1>6, <1>7, <4>1
    <3>3. CASE i # Len(old) + 1
      <4>1. i \in 1..Len(old) /\ buffer[h][i] = old[i]
        BY <1>2, <3>1, <3>3
      <4> QED
        BY <1>1, <1>7, <4>1, <2>2 DEF BufferInv, HonestInBuffer
    <3> QED
      BY <3>2, <3>3
  <2> QED
    BY <1>3, <2>1, <2>2
<1> QED
  BY <1>5, <1>7 DEF HonestInBuffer

\* Who is scored sent a candidate that did not verify.
LEMMA ApplyFits ==
    ASSUME HonestNotScored, NEW buffer \in [SyncHeights -> Seq(Candidates)], HonestInBuffer(buffer),
           NEW from, NEW bytes, NEW p, ApplyBuffered(from, buffer, bytes, p)
    PROVE  BufferInv'
<1> DEFINE Good(h) == {i \in 1..Len(buffer[h]) : Verifies(buffer[h][i].t)}
           Vain(h) == {i \in 1..Len(buffer[h]) : \A g \in Good(h) : i < g}
<1>1. PICK looked, tried :
        /\ buffered' = [h \in SyncHeights |-> IF h \in looked THEN <<>> ELSE buffer[h]]
        /\ tried \subseteq SyncHeights \X (1..PerHeight)
        /\ \A x \in tried : x[2] \in Vain(x[1])
        /\ scored' = scored \cup {buffer[x[1]][x[2]].from : x \in tried}
  <2> DEFINE R == CHOOSE k \in from..Tip :
                     /\ \A h \in (from + 1)..k : Good(h) # {}
                     /\ k + 1 \in SyncHeights => Good(k + 1) = {}
             L == {h \in SyncHeights : h <= R + 1}
             T == {x \in SyncHeights \X (1..PerHeight) : x[1] > from /\ x[1] <= R + 1 /\ x[2] \in Vain(x[1])}
  <2>1. /\ buffered' = [h \in SyncHeights |-> IF h \in L THEN <<>> ELSE buffer[h]]
        /\ scored' = scored \cup {buffer[x[1]][x[2]].from : x \in T}
    BY DEF ApplyBuffered
  <2>2. T \subseteq SyncHeights \X (1..PerHeight) /\ \A x \in T : x[2] \in Vain(x[1])
    OBVIOUS
  <2> HIDE DEF R, L, T
  <2> QED
    BY <2>1, <2>2
<1>2. <<>> \in Seq(Candidates) /\ Len(<<>>) = 0
  OBVIOUS
<1>3. buffered' \in [SyncHeights -> Seq(Candidates)]
  BY <1>1, <1>2
<1>4. HonestInBuffer(buffered')
  BY <1>1, <1>2 DEF HonestInBuffer
<1>5. ASSUME NEW x \in tried, buffer[x[1]][x[2]].from \in HonestPeers
      PROVE  FALSE
  <2>1. x[1] \in SyncHeights /\ x[2] \in 1..Len(buffer[x[1]]) /\ \A g \in Good(x[1]) : x[2] < g
    BY <1>1
  <2>2. Verifies(buffer[x[1]][x[2]].t)
    BY <1>5, <2>1 DEF HonestInBuffer
  <2>3. x[2] < x[2] /\ x[2] \in Nat
    BY <2>1, <2>2
  <2> QED
    BY <2>3
<1>6. HonestNotScored'
  BY <1>1, <1>5 DEF HonestNotScored
<1> QED
  BY <1>3, <1>4, <1>6 DEF BufferInv, HonestInBuffer

LEMMA TransitionFits ==
    ASSUME BufferInv, NEW t \in SyncTransitions, NEW p \in Peers, p \in HonestPeers => Verifies(t),
           on_transition(p, t)
    PROVE  BufferInv'
<1>1. PICK buffer : buffer = [buffered EXCEPT ![t.height] = insert_buffered_sync_frontier(t, p)]
  OBVIOUS
<1>2. buffer \in [SyncHeights -> Seq(Candidates)] /\ HonestInBuffer(buffer)
  BY <1>1, InsertFits
<1>3. \/ buffered' = buffer /\ UNCHANGED scored
      \/ \E bytes : ApplyBuffered(finalized_height, buffer, bytes, p)
      \/ UNCHANGED <<buffered, scored>>
      \/ ApplyBuffered(t.height, buffered, buffered_bytes, p)
  BY <1>1 DEF on_transition
<1>4. HonestNotScored /\ buffered \in [SyncHeights -> Seq(Candidates)] /\ HonestInBuffer(buffered)
  BY DEF BufferInv
<1>5. CASE buffered' = buffer /\ UNCHANGED scored
  BY <1>2, <1>4, <1>5 DEF BufferInv, HonestInBuffer, HonestNotScored
<1>6. CASE UNCHANGED <<buffered, scored>>
  BY <1>4, <1>6 DEF BufferInv, HonestInBuffer, HonestNotScored
<1> QED
  BY <1>2, <1>3, <1>4, <1>5, <1>6, ApplyFits

\* An honest peer never gets misbehaviour points, whatever the faulty ones send before, after or
\* under the same id as its answers, and through restarts, lost requests and disconnections.
THEOREM HonestPeersKept == SySpec => []HonestNotScored
<1>1. SyInit => BufferInv
  BY NoCandidatesFit DEF SyInit, BufferInv, HonestNotScored
<1>2. BufferInv /\ [SyNext]_syVars => BufferInv'
  <2> SUFFICES ASSUME BufferInv, [SyNext]_syVars
               PROVE  BufferInv'
    OBVIOUS
  <2>1. ASSUME UNCHANGED <<buffered, scored>>
        PROVE  BufferInv'
    BY <2>1 DEF BufferInv, HonestInBuffer, HonestNotScored
  <2>2. CASE UNCHANGED syVars
    BY <2>1, <2>2 DEF syVars
  <2>3. CASE StartRunning \/ Lag \/ FinalizeByVotes
    BY <2>1, <2>3 DEF StartRunning, Lag, FinalizeByVotes
  <2>4. CASE RestartNode
    BY <2>4, NoCandidatesFit DEF RestartNode, BufferInv, HonestInBuffer, HonestNotScored
  <2>5. CASE \E p \in Peers : on_finalized_tip(p) \/ Disconnect(p) \/ PeerReturns(p)
    BY <2>1, <2>5 DEF on_finalized_tip, Disconnect, PeerReturns
  <2>6. CASE \E p \in Peers, h \in SyncHeights : Answer(p, h)
    <3>1. PICK p \in Peers, h \in SyncHeights : Answer(p, h)
      BY <2>6
    <3>2. FinalTransition(h) \in SyncTransitions /\ Verifies(FinalTransition(h))
      BY DEF FinalTransition, SyncTransitions, Verifies
    <3> QED
      BY <3>1, <3>2, TransitionFits DEF Answer
  <2>7. CASE \E p \in Peers, h \in SyncHeights : RetryDue(h, p)
    BY <2>1, <2>7 DEF RetryDue
  <2>8. CASE \E p \in FaultyPeers, t \in SyncTransitions : Forge(p, t)
    <3>1. PICK p \in FaultyPeers, t \in SyncTransitions : Forge(p, t)
      BY <2>8
    <3>2. p \in Peers /\ p \notin HonestPeers
      BY FinalizedSyncAssumption DEF Peers
    <3> QED
      BY <3>1, <3>2, TransitionFits DEF Forge
  <2> QED
    BY <2>2, <2>3, <2>4, <2>5, <2>6, <2>7, <2>8 DEF SyNext
<1>3. BufferInv => HonestNotScored
  BY DEF BufferInv
<1> QED
  BY <1>1, <1>2, <1>3, PTL DEF SySpec
-------------------------------------------------------------------------------
(* Peer sessions: nothing arrives that its receiver would score.                 *)

Frames == {"VERSION", "VERACK", "sync", "gossip"}
Readers == {"none", "read", "version", "version_tx", "verack", "verack_tx", "join", "gone"}
Ending == [info : SUBSET Handshake, outq : Seq(Frames), closing : BOOLEAN, asked : BOOLEAN,
           starter : {"none", "connected", "send", "mark", "done"}, reader : Readers,
           writer : {"none", "run", "done"}]

In(m, s) == \E k \in 1..Len(s) : s[k] = m
Before(m, s, k) == \E j \in 1..Len(s) : j < k /\ s[j] = m

\* Its VERSION and its VERACK have gone out.
Answered(c) ==
    {"version_rx", "version_tx"} \subseteq c.info /\ ("verack_tx" \in c.info \/ c.reader = "verack_tx")

\* One end: the reader reads on only after both frames of the handshake went out, and a
\* connection that closes has nothing left to send.
EndOK(c) ==
    /\ c.reader \in {"version", "version_tx", "verack", "verack_tx"} => "version_rx" \in c.info
    /\ c.reader = "verack" => c.closing \/ "version_tx" \in c.info
    /\ c.reader = "verack_tx" => "version_tx" \in c.info
    /\ c.reader = "read" /\ "version_rx" \in c.info => c.closing \/ "verack_tx" \in c.info
    /\ "verack_tx" \in c.info => {"version_rx", "version_tx"} \subseteq c.info
    /\ c.closing => c.outq = <<>>
    /\ c.reader = "none" => c.info = {} /\ c.outq = <<>> /\ ~c.closing /\ c.starter = "none"
    /\ c.reader \in {"join", "gone"} => c.closing

\* Frames other than those of the handshake follow them, on the way to end c.
PipeOrdered(c, q) ==
    \A k \in 1..Len(q) :
        /\ q[k] \in {"sync", "gossip"} => "version_rx" \in c.info \/ Before("VERSION", q, k)
        /\ q[k] = "gossip" => "verack_rx" \in c.info \/ Before("VERACK", q, k)

\* The same for what is queued at the other end behind it, while nothing is lost.
QueueOrdered(c, q, outq) ==
    \A k \in 1..Len(outq) :
        /\ outq[k] \in {"sync", "gossip"} =>
              "version_rx" \in c.info \/ In("VERSION", q) \/ Before("VERSION", outq, k)
        /\ outq[k] = "gossip" =>
              "verack_rx" \in c.info \/ In("VERACK", q) \/ Before("VERACK", outq, k)

\* What end d has sent and may have marked as sent is on its way, or has been read.
VersionOut(d) == "version_tx" \in d.info \/ d.reader = "version_tx" \/ d.starter = "mark"
VerackOut(d) == "verack_tx" \in d.info \/ d.reader = "verack_tx"
OnItsWay(c, d, q) ==
    /\ VersionOut(d) => "version_rx" \in c.info \/ In("VERSION", q) \/ In("VERSION", d.outq)
    /\ VerackOut(d) => "verack_rx" \in c.info \/ In("VERACK", q) \/ In("VERACK", d.outq)

\* From end d to end c, with q on the way: the ends in sh have shut their sockets.
LinkOK(c, d, q, sh) ==
    /\ c.reader # "gone" =>
        /\ PipeOrdered(c, q)
        /\ In("gossip", q) \/ In("gossip", d.outq) => Answered(c)
        /\ sh = {} => QueueOrdered(c, q, d.outq) /\ (d.closing \/ OnItsWay(c, d, q))
    /\ d.reader # "gone" =>
        ("verack_rx" \in c.info \/ In("VERACK", q) \/ In("VERACK", d.outq) => Answered(d))

SessionTypes ==
    /\ ends \in [Conns -> [Ends -> Ending]]
    /\ pipe \in [Conns -> [Ends -> Seq(Frames)]]
    /\ shut \in [Conns -> SUBSET Ends]
    /\ points \in [Ends -> SUBSET {"PRE_HANDSHAKE_CONSENSUS", "HANDSHAKE_TIMEOUT"}]
    /\ spent \in [dials : Nat, extras : Nat]
    /\ \A i \in Conns : i > spent.dials => \A e \in Ends : ends[i][e] = NoConn

Linked(i, e) == LinkOK(ends[i][e], ends[i][Peer(e)], pipe[i][e], shut[i])

SessionInv ==
    /\ SessionTypes
    /\ rules["dialer"] = rules["listener"] =>
        /\ \A i \in Conns, e \in Ends : EndOK(ends[i][e]) /\ Linked(i, e)
        /\ HandshakeHarmless
LEMMA PeerIsOther ==
    /\ Peer("dialer") = "listener" /\ Peer("listener") = "dialer"
    /\ \A e \in Ends : Peer(e) \in Ends /\ Peer(e) # e /\ Peer(Peer(e)) = e
    /\ \A e \in Ends, f \in Ends : f # e => f = Peer(e)
<1>1. \E f \in Ends : f # "dialer"
  BY DEF Ends
<1>2. \E f \in Ends : f # "listener"
  BY DEF Ends
<1>3. Peer("dialer") = "listener"
  BY <1>1 DEF Peer, Ends
<1>4. Peer("listener") = "dialer"
  BY <1>2 DEF Peer, Ends
<1> QED
  BY <1>3, <1>4 DEF Ends

-------------------------------------------------------------------------------
(* What the operations of a connection return.                                  *)

SameButQueue(d, c) ==
    /\ d \in Ending
    /\ d.info = c.info /\ d.reader = c.reader /\ d.starter = c.starter

LEMMA CloseFacts ==
    ASSUME NEW c \in Ending, NEW d, d = request_close(c, FALSE)
    PROVE  SameButQueue(d, c) /\ d.closing /\ d.outq = <<>>
<1>1. PICK b \in BOOLEAN : b = TRUE
  OBVIOUS
<1>2. d = [c EXCEPT !.closing = b, !.outq = <<>>]
  BY <1>1, Zenon DEF request_close
<1>3. <<>> \in Seq(Frames)
  OBVIOUS
<1>4. /\ d \in Ending /\ d.closing = b /\ d.outq = <<>>
      /\ d.info = c.info /\ d.reader = c.reader /\ d.starter = c.starter
  BY <1>2, <1>3 DEF Ending
<1> QED
  BY <1>1, <1>4 DEF SameButQueue

LEMMA DrainTyped ==
    ASSUME NEW c \in Ending
    PROVE  request_close(c, TRUE) \in Ending
<1>1. PICK b \in BOOLEAN : b = TRUE
  OBVIOUS
<1>2. request_close(c, TRUE) = [c EXCEPT !.closing = b, !.outq = c.outq]
  BY <1>1, Zenon DEF request_close
<1>3. [c EXCEPT !.closing = b, !.outq = c.outq] \in Ending
  BY DEF Ending
<1> QED
  BY <1>2, <1>3

\* A frame is dropped, queued, or one too many.
LEMMA SendFacts ==
    ASSUME NEW c \in Ending, NEW m \in Frames, NEW low \in BOOLEAN, NEW d, d = send_to(c, m, low)
    PROVE  /\ SameButQueue(d, c)
           /\ \/ d = c /\ ~Sent(c, m)
              \/ d.outq = Append(c.outq, m) /\ ~d.closing /\ ~c.closing /\ Sent(c, m)
              \/ d.outq = <<>> /\ d.closing /\ ~Sent(c, m) /\ Listed(c)
           /\ Sent(c, m) => Listed(c) /\ Sendable(c, m) /\ ~c.closing
           /\ Sent(c, m) => d.outq = Append(c.outq, m) /\ ~d.closing
           /\ Listed(c) /\ Sendable(c, m) /\ ~low /\ ~Sent(c, m) => d.closing
<1>1. PICK a : a = [c EXCEPT !.outq = Append(c.outq, m)]
  OBVIOUS
<1>2. a \in Ending /\ a.outq = Append(c.outq, m) /\ a.closing = c.closing
      /\ a.info = c.info /\ a.reader = c.reader /\ a.starter = c.starter
  BY <1>1 DEF Ending
<1>3. PICK z : z = request_close(c, FALSE)
  OBVIOUS
<1>4. SameButQueue(z, c) /\ z.closing /\ z.outq = <<>>
  BY <1>3, CloseFacts
<1>5. CASE Sent(c, m)
  <2>1. Takes(c, m) /\ Len(c.outq) < QueueFrames
    BY <1>5 DEF Sent
  <2>2. d = a
    BY <1>1, <2>1 DEF send_to
  <2> QED
    BY <1>2, <1>5, <2>1, <2>2 DEF Takes, SameButQueue
<1>6. CASE ~Sent(c, m) /\ ~Takes(c, m)
  <2>1. d = c
    BY <1>6 DEF send_to
  <2> QED
    BY <1>6, <2>1 DEF Takes, SameButQueue
<1>7. CASE ~Sent(c, m) /\ Takes(c, m)
  <2>1. d = IF low THEN c ELSE z
    BY <1>3, <1>7 DEF send_to, Sent
  <2> QED
    BY <1>4, <1>7, <2>1 DEF SameButQueue, Takes
<1> QED
  BY <1>5, <1>6, <1>7

-------------------------------------------------------------------------------
(* Frames of a sequence.                                                        *)

LEMMA InAppend ==
    ASSUME NEW s \in Seq(Frames), NEW m \in Frames
    PROVE  \A x : In(x, Append(s, m)) <=> In(x, s) \/ x = m
<1> DEFINE t == Append(s, m)
<1>1. /\ Len(t) = Len(s) + 1 /\ Len(s) \in Nat /\ t[Len(s) + 1] = m
      /\ \A k \in 1..Len(s) : t[k] = s[k]
  OBVIOUS
<1>2. ASSUME NEW x, In(x, t)
      PROVE  In(x, s) \/ x = m
  <2>1. PICK k \in 1..Len(t) : t[k] = x
    BY <1>2 DEF In
  <2>2. CASE k = Len(s) + 1
    BY <1>1, <2>1, <2>2
  <2>3. CASE k # Len(s) + 1
    <3>1. k \in 1..Len(s)
      BY <1>1, <2>1, <2>3
    <3> QED
      BY <1>1, <2>1, <3>1 DEF In
  <2> QED
    BY <2>2, <2>3
<1>3. ASSUME NEW x, In(x, s) \/ x = m
      PROVE  In(x, t)
  <2>1. CASE x = m
    <3>1. Len(s) + 1 \in 1..Len(t) /\ t[Len(s) + 1] = x
      BY <1>1, <2>1
    <3> QED
      BY <3>1 DEF In
  <2>2. CASE In(x, s)
    <3>1. PICK k \in 1..Len(s) : s[k] = x
      BY <2>2 DEF In
    <3>2. k \in 1..Len(t) /\ t[k] = x
      BY <1>1, <3>1
    <3> QED
      BY <3>2 DEF In
  <2> QED
    BY <1>3, <2>1, <2>2
<1> QED
  BY <1>2, <1>3

LEMMA TailFacts ==
    ASSUME NEW s \in Seq(Frames), s # <<>>
    PROVE  /\ Tail(s) \in Seq(Frames) /\ Head(s) \in Frames /\ Head(s) = s[1]
           /\ Len(s) \in Nat /\ Len(s) >= 1 /\ Len(Tail(s)) = Len(s) - 1
           /\ \A k \in 1..Len(Tail(s)) : k + 1 \in 1..Len(s) /\ Tail(s)[k] = s[k + 1]
           /\ \A x : In(x, s) <=> x = Head(s) \/ In(x, Tail(s))
           /\ \A x : \A k \in 1..Len(Tail(s)) : Before(x, s, k + 1) <=> x = Head(s) \/ Before(x, Tail(s), k)
<1> DEFINE t == Tail(s)
<1>1. /\ t \in Seq(Frames) /\ Head(s) = s[1] /\ Head(s) \in Frames
      /\ Len(s) \in Nat /\ Len(s) >= 1 /\ Len(t) = Len(s) - 1 /\ Len(t) \in Nat
  OBVIOUS
<1>2. \A k \in 1..Len(t) : k + 1 \in 1..Len(s) /\ t[k] = s[k + 1]
  BY <1>1
<1>3. \A j \in 1..Len(s) : j = 1 \/ (j - 1 \in 1..Len(t) /\ t[j - 1] = s[j])
  BY <1>1
<1> HIDE DEF t
<1>4. ASSUME NEW x
      PROVE  In(x, s) <=> x = Head(s) \/ In(x, t)
  <2>1. ASSUME In(x, s), x # Head(s)
        PROVE  In(x, t)
    <3>1. PICK j \in 1..Len(s) : s[j] = x
      BY <2>1 DEF In
    <3>2. j - 1 \in 1..Len(t) /\ t[j - 1] = x
      BY <1>1, <1>3, <2>1, <3>1
    <3> QED
      BY <3>2 DEF In
  <2>2. ASSUME x = Head(s)
        PROVE  In(x, s)
    <3>1. 1 \in 1..Len(s)
      BY <1>1
    <3> QED
      BY <1>1, <2>2, <3>1 DEF In
  <2>3. ASSUME In(x, t)
        PROVE  In(x, s)
    <3>1. PICK k \in 1..Len(t) : t[k] = x
      BY <2>3 DEF In
    <3>2. k + 1 \in 1..Len(s) /\ s[k + 1] = x
      BY <1>2, <3>1
    <3> QED
      BY <3>2 DEF In
  <2> QED
    BY <2>1, <2>2, <2>3
<1>5. ASSUME NEW x, NEW k \in 1..Len(t)
      PROVE  Before(x, s, k + 1) <=> x = Head(s) \/ Before(x, t, k)
  <2>1. ASSUME Before(x, s, k + 1), x # Head(s)
        PROVE  Before(x, t, k)
    <3>1. PICK j \in 1..Len(s) : j < k + 1 /\ s[j] = x
      BY <2>1 DEF Before
    <3>2. j - 1 \in 1..Len(t) /\ t[j - 1] = x /\ j - 1 < k
      BY <1>1, <1>3, <2>1, <3>1
    <3> QED
      BY <3>2 DEF Before
  <2>2. ASSUME x = Head(s)
        PROVE  Before(x, s, k + 1)
    <3>1. 1 \in 1..Len(s) /\ 1 < k + 1
      BY <1>1
    <3> QED
      BY <1>1, <2>2, <3>1 DEF Before
  <2>3. ASSUME Before(x, t, k)
        PROVE  Before(x, s, k + 1)
    <3>1. PICK j \in 1..Len(t) : j < k /\ t[j] = x
      BY <2>3 DEF Before
    <3>2. j + 1 \in 1..Len(s) /\ s[j + 1] = x /\ j + 1 < k + 1
      BY <1>2, <3>1
    <3> QED
      BY <3>2 DEF Before
  <2> QED
    BY <2>1, <2>2, <2>3
<1> QED
  BY <1>1, <1>2, <1>4, <1>5 DEF t
-------------------------------------------------------------------------------
(* What each kind of step does to the frames between two ends.                  *)

\* What end c queues when it becomes c2: nothing, one frame, or it closes.
Queues(c, c2, m) == c2.outq = Append(c.outq, m) /\ ~c.closing
Sends(r, c, c2) ==
    \/ c2.outq = c.outq
    \/ c2.outq = <<>> /\ c2.closing
    \/ Queues(c, c2, "VERSION")
    \/ Queues(c, c2, "VERACK") /\ Answered(c2)
    \/ Queues(c, c2, "sync") /\ VersionOut(c)
    \/ Queues(c, c2, "gossip") /\ VersionOut(c) /\ VerackOut(c) /\ (r.reader = "gone" \/ Answered(r))

\* The sending end c becomes c2.
LEMMA SenderStep ==
    ASSUME NEW c \in Ending, NEW c2 \in Ending, NEW r \in Ending, NEW q \in Seq(Frames), NEW sh,
           LinkOK(r, c, q, sh), Sends(r, c, c2), c.closing => c2.closing,
           VersionOut(c2) => VersionOut(c) \/ c2.closing \/ Queues(c, c2, "VERSION"),
           VerackOut(c2) => VerackOut(c) \/ c2.closing \/ Queues(c, c2, "VERACK"),
           c2.reader = "gone" \/ (c.reader # "gone" /\ (Answered(c) => Answered(c2)))
    PROVE  LinkOK(r, c2, q, sh)
<1>1. c.outq \in Seq(Frames) /\ c2.outq \in Seq(Frames)
  BY DEF Ending
<1>2. \A m \in Frames : Queues(c, c2, m) => \A x : In(x, c2.outq) <=> In(x, c.outq) \/ x = m
  BY <1>1, InAppend DEF Queues
<1>3. c2.outq = <<>> => \A x : ~In(x, c2.outq)
  BY DEF In
<1>4. ASSUME In("gossip", c2.outq), r.reader # "gone"
      PROVE  Answered(r)
  BY <1>2, <1>3, <1>4 DEF LinkOK, Sends, Frames
<1>5. ASSUME c2.reader # "gone", In("VERACK", c2.outq)
      PROVE  Answered(c2)
  BY <1>2, <1>3, <1>5 DEF LinkOK, Sends, Frames
<1>6. ASSUME sh = {}, r.reader # "gone", ~c2.closing
      PROVE  OnItsWay(r, c2, q)
  <2>1. OnItsWay(r, c, q)
    BY <1>6 DEF LinkOK
  <2>2. \A x \in {"VERSION", "VERACK"} : In(x, c.outq) => In(x, c2.outq)
    BY <1>2, <1>6 DEF Sends, Frames
  <2>3. \A x \in {"VERSION", "VERACK"} : Queues(c, c2, x) => In(x, c2.outq)
    BY <1>2 DEF Frames
  <2> QED
    BY <1>6, <2>1, <2>2, <2>3 DEF OnItsWay
<1>7. ASSUME sh = {}, r.reader # "gone"
      PROVE  QueueOrdered(r, q, c2.outq)
  <2>1. QueueOrdered(r, q, c.outq)
    BY <1>7 DEF LinkOK
  <2>2. CASE c2.outq = c.outq
    BY <2>1, <2>2
  <2>3. CASE c2.outq = <<>>
    BY <2>3 DEF QueueOrdered
  <2>4. ASSUME NEW m \in Frames, Queues(c, c2, m),
               m \in {"sync", "gossip"} => VersionOut(c), m = "gossip" => VerackOut(c)
        PROVE  QueueOrdered(r, q, c2.outq)
    <3> DEFINE o == c.outq
               s == c2.outq
               n == Len(o)
    <3>1. n \in Nat /\ Len(s) = n + 1 /\ s[n + 1] = m /\ \A k \in 1..n : s[k] = o[k]
      BY <1>1, <2>4 DEF Queues
    <3>2. OnItsWay(r, c, q)
      BY <1>7, <2>4 DEF LinkOK, Queues
    <3>3. \A x : In(x, o) => Before(x, s, n + 1)
      <4> SUFFICES ASSUME NEW x, In(x, o)
                   PROVE  Before(x, s, n + 1)
        OBVIOUS
      <4>1. PICK j \in 1..n : o[j] = x
        BY DEF In
      <4>2. j \in 1..Len(s) /\ j < n + 1 /\ s[j] = x
        BY <3>1, <4>1
      <4> QED
        BY <4>2 DEF Before
    <3>4. \A x : \A k \in 1..n : Before(x, o, k) => Before(x, s, k)
      <4> SUFFICES ASSUME NEW x, NEW k \in 1..n, Before(x, o, k)
                   PROVE  Before(x, s, k)
        OBVIOUS
      <4>1. PICK j \in 1..n : j < k /\ o[j] = x
        BY DEF Before
      <4>2. j \in 1..Len(s) /\ s[j] = x
        BY <3>1, <4>1
      <4> QED
        BY <4>1, <4>2 DEF Before
    <3> HIDE DEF o, s, n
    <3>5. ASSUME NEW k \in 1..Len(s)
          PROVE  /\ s[k] \in {"sync", "gossip"} =>
                        "version_rx" \in r.info \/ In("VERSION", q) \/ Before("VERSION", s, k)
                 /\ s[k] = "gossip" =>
                        "verack_rx" \in r.info \/ In("VERACK", q) \/ Before("VERACK", s, k)
      <4>1. CASE k = n + 1
        BY <2>4, <3>1, <3>2, <3>3, <4>1 DEF OnItsWay, o
      <4>2. CASE k # n + 1
        <5>1. k \in 1..n /\ s[k] = o[k]
          BY <3>1, <4>2
        <5> QED
          BY <2>1, <3>4, <5>1 DEF QueueOrdered, o, n
      <4> QED
        BY <4>1, <4>2
    <3> QED
      BY <3>5 DEF QueueOrdered, s
  <2> QED
    BY <2>2, <2>3, <2>4 DEF Sends, Frames
<1>8. r.reader # "gone" =>
        /\ PipeOrdered(r, q)
        /\ In("gossip", q) => Answered(r)
  BY DEF LinkOK
<1>9. c2.reader # "gone" => ("verack_rx" \in r.info \/ In("VERACK", q) => Answered(c2))
  BY DEF LinkOK
<1> QED
  BY <1>4, <1>5, <1>6, <1>7, <1>8, <1>9 DEF LinkOK

\* The receiving end c becomes c2 without reading.
LEMMA ReceiverStep ==
    ASSUME NEW c \in Ending, NEW c2 \in Ending, NEW d, NEW q, NEW sh, LinkOK(c, d, q, sh),
           "verack_rx" \in c2.info => "verack_rx" \in c.info,
           \/ c2.reader = "gone"
           \/ c.reader # "gone" /\ c.info \subseteq c2.info /\ (Answered(c) => Answered(c2))
    PROVE  LinkOK(c2, d, q, sh)
<1>1. d.reader # "gone" =>
        ("verack_rx" \in c2.info \/ In("VERACK", q) \/ In("VERACK", d.outq) => Answered(d))
  BY DEF LinkOK
<1>2. ASSUME c2.reader # "gone"
      PROVE  /\ PipeOrdered(c2, q)
             /\ In("gossip", q) \/ In("gossip", d.outq) => Answered(c2)
             /\ sh = {} => QueueOrdered(c2, q, d.outq) /\ (d.closing \/ OnItsWay(c2, d, q))
  <2>1. /\ PipeOrdered(c, q)
        /\ In("gossip", q) \/ In("gossip", d.outq) => Answered(c)
        /\ sh = {} => QueueOrdered(c, q, d.outq) /\ (d.closing \/ OnItsWay(c, d, q))
    BY <1>2 DEF LinkOK
  <2>2. c.info \subseteq c2.info
    BY <1>2
  <2>3. PipeOrdered(c2, q)
    BY <2>1, <2>2 DEF PipeOrdered
  <2>4. sh = {} => QueueOrdered(c2, q, d.outq)
    BY <2>1, <2>2 DEF QueueOrdered
  <2>5. OnItsWay(c, d, q) => OnItsWay(c2, d, q)
    BY <2>2 DEF OnItsWay
  <2> QED
    BY <1>2, <2>1, <2>3, <2>4, <2>5
<1> QED
  BY <1>1, <1>2 DEF LinkOK

\* What the frame m says once it is read.
Learnt(m) == IF m = "VERSION" THEN {"version_rx"} ELSE IF m = "VERACK" THEN {"verack_rx"} ELSE {}

\* The receiving end reads a frame.
LEMMA ReadStep ==
    ASSUME NEW c \in Ending, NEW c2 \in Ending, NEW d \in Ending, NEW q \in Seq(Frames), NEW sh,
           LinkOK(c, d, q, sh), q # <<>>, c.reader # "gone", c2.reader # "gone",
           c2.info = c.info \cup Learnt(Head(q)), Answered(c) => Answered(c2)
    PROVE  LinkOK(c2, d, Tail(q), sh)
<1> DEFINE t == Tail(q)
           m == Head(q)
<1>1. /\ t \in Seq(Frames) /\ Head(q) = q[1] /\ Len(q) >= 1 /\ Len(q) \in Nat
      /\ \A k \in 1..Len(t) : k + 1 \in 1..Len(q) /\ t[k] = q[k + 1]
      /\ \A x : In(x, q) <=> x = m \/ In(x, t)
      /\ \A x : \A k \in 1..Len(t) : Before(x, q, k + 1) <=> x = m \/ Before(x, t, k)
  BY TailFacts
<1>2. /\ PipeOrdered(c, q)
      /\ In("gossip", q) \/ In("gossip", d.outq) => Answered(c)
      /\ sh = {} => QueueOrdered(c, q, d.outq) /\ (d.closing \/ OnItsWay(c, d, q))
      /\ d.reader # "gone" =>
            ("verack_rx" \in c.info \/ In("VERACK", q) \/ In("VERACK", d.outq) => Answered(d))
  BY DEF LinkOK
<1> HIDE DEF t, m
<1>3. /\ m = "VERSION" => "version_rx" \in c2.info
      /\ m = "VERACK" => "verack_rx" \in c2.info
      /\ "verack_rx" \in c2.info => "verack_rx" \in c.info \/ m = "VERACK"
      /\ c.info \subseteq c2.info
  BY DEF Learnt, m
<1>4. ASSUME NEW k \in 1..Len(t)
      PROVE  /\ t[k] \in {"sync", "gossip"} => "version_rx" \in c2.info \/ Before("VERSION", t, k)
             /\ t[k] = "gossip" => "verack_rx" \in c2.info \/ Before("VERACK", t, k)
  BY <1>1, <1>2, <1>3 DEF PipeOrdered
<1>5. PipeOrdered(c2, t)
  BY <1>4 DEF PipeOrdered
<1>6. sh = {} => QueueOrdered(c2, t, d.outq)
  BY <1>1, <1>2, <1>3 DEF QueueOrdered
<1>7. OnItsWay(c, d, q) => OnItsWay(c2, d, t)
  BY <1>1, <1>3 DEF OnItsWay
<1>8. d.reader # "gone" =>
        ("verack_rx" \in c2.info \/ In("VERACK", t) \/ In("VERACK", d.outq) => Answered(d))
  BY <1>1, <1>2, <1>3
<1>9. LinkOK(c2, d, t, sh)
  BY <1>1, <1>2, <1>5, <1>6, <1>7, <1>8 DEF LinkOK
<1> QED
  BY <1>9 DEF t

\* The sending end hands its oldest frame to the socket.
LEMMA WriteStep ==
    ASSUME NEW c \in Ending, NEW d \in Ending, NEW d2 \in Ending, NEW q \in Seq(Frames), NEW sh,
           LinkOK(c, d, q, sh), d.outq # <<>>, d2.outq = Tail(d.outq),
           d2.info = d.info, d2.reader = d.reader, d2.starter = d.starter, d2.closing <=> d.closing,
           NEW p, p = IF sh # {} THEN q ELSE Append(q, Head(d.outq))
    PROVE  LinkOK(c, d2, p, sh)
<1> DEFINE o == d.outq
           t == Tail(d.outq)
           m == Head(d.outq)
<1>1. o \in Seq(Frames)
  BY DEF Ending
<1>2. /\ t \in Seq(Frames) /\ m \in Frames /\ m = o[1] /\ Len(o) >= 1 /\ Len(o) \in Nat
      /\ \A k \in 1..Len(t) : k + 1 \in 1..Len(o) /\ t[k] = o[k + 1]
      /\ \A x : In(x, o) <=> x = m \/ In(x, t)
      /\ \A x : \A k \in 1..Len(t) : Before(x, o, k + 1) <=> x = m \/ Before(x, t, k)
  BY <1>1, TailFacts
<1>3. /\ c.reader # "gone" =>
          /\ PipeOrdered(c, q)
          /\ In("gossip", q) \/ In("gossip", o) => Answered(c)
          /\ sh = {} => QueueOrdered(c, q, o) /\ (d.closing \/ OnItsWay(c, d, q))
      /\ d.reader # "gone" =>
            ("verack_rx" \in c.info \/ In("VERACK", q) \/ In("VERACK", o) => Answered(d))
  BY DEF LinkOK
<1>4. d2.outq = t /\ (Answered(d) <=> Answered(d2))
      /\ (VersionOut(d) <=> VersionOut(d2)) /\ (VerackOut(d) <=> VerackOut(d2))
  BY DEF Answered, VersionOut, VerackOut
<1>p. p = IF sh # {} THEN q ELSE Append(q, m)
  OBVIOUS
<1>w. OnItsWay(c, d, q) <=>
        /\ VersionOut(d) => "version_rx" \in c.info \/ In("VERSION", q) \/ In("VERSION", o)
        /\ VerackOut(d) => "verack_rx" \in c.info \/ In("VERACK", q) \/ In("VERACK", o)
  BY DEF OnItsWay
<1> HIDE DEF o, t, m
<1>5. CASE sh # {}
  BY <1>2, <1>3, <1>4, <1>p, <1>5 DEF LinkOK
<1>6. CASE sh = {}
  <2>1. p = Append(q, m) /\ \A x : In(x, p) <=> In(x, q) \/ x = m
    BY <1>2, <1>p, <1>6, InAppend
  <2>2. c.reader # "gone" => PipeOrdered(c, p)
    <3> SUFFICES ASSUME c.reader # "gone", NEW k \in 1..Len(p)
                 PROVE  /\ p[k] \in {"sync", "gossip"} => "version_rx" \in c.info \/ Before("VERSION", p, k)
                        /\ p[k] = "gossip" => "verack_rx" \in c.info \/ Before("VERACK", p, k)
      BY DEF PipeOrdered
    <3>1. /\ Len(q) \in Nat /\ Len(p) = Len(q) + 1 /\ p[Len(q) + 1] = m
          /\ \A j \in 1..Len(q) : p[j] = q[j]
      BY <1>2, <2>1
    <3>2. ASSUME NEW x, NEW j \in 1..Len(q), q[j] = x, j < k
          PROVE  Before(x, p, k)
      <4>1. j \in 1..Len(p) /\ p[j] = x
        BY <3>1, <3>2
      <4> QED
        BY <3>2, <4>1 DEF Before
    <3>3. CASE k = Len(q) + 1
      <4>1. /\ m \in {"sync", "gossip"} => "version_rx" \in c.info \/ In("VERSION", q)
            /\ m = "gossip" => "verack_rx" \in c.info \/ In("VERACK", q)
        <5>1. 1 \in 1..Len(o) /\ o[1] = m /\ \A x : ~Before(x, o, 1)
          BY <1>2 DEF Before
        <5> QED
          BY <1>3, <1>6, <5>1 DEF QueueOrdered
      <4>2. \A x : In(x, q) => Before(x, p, k)
        BY <3>2, <3>3 DEF In
      <4> QED
        BY <3>1, <3>3, <4>1, <4>2
    <3>4. CASE k # Len(q) + 1
      <4>1. k \in 1..Len(q) /\ p[k] = q[k]
        BY <3>1, <3>4
      <4>2. \A x : Before(x, q, k) => Before(x, p, k)
        BY <3>2 DEF Before
      <4> QED
        BY <1>3, <4>1, <4>2 DEF PipeOrdered
    <3> QED
      BY <3>3, <3>4
  <2>3. c.reader # "gone" => QueueOrdered(c, p, t)
    <3> SUFFICES ASSUME c.reader # "gone", NEW k \in 1..Len(t)
                 PROVE  /\ t[k] \in {"sync", "gossip"} =>
                              "version_rx" \in c.info \/ In("VERSION", p) \/ Before("VERSION", t, k)
                        /\ t[k] = "gossip" =>
                              "verack_rx" \in c.info \/ In("VERACK", p) \/ Before("VERACK", t, k)
      BY DEF QueueOrdered
    <3>1. k + 1 \in 1..Len(o) /\ t[k] = o[k + 1]
      BY <1>2
    <3>2. /\ o[k + 1] \in {"sync", "gossip"} =>
              "version_rx" \in c.info \/ In("VERSION", q) \/ Before("VERSION", o, k + 1)
          /\ o[k + 1] = "gossip" =>
              "verack_rx" \in c.info \/ In("VERACK", q) \/ Before("VERACK", o, k + 1)
      BY <1>3, <1>6, <3>1 DEF QueueOrdered
    <3> QED
      BY <1>2, <2>1, <3>1, <3>2
  <2>4. c.reader # "gone" => (In("gossip", p) \/ In("gossip", t) => Answered(c))
    BY <1>2, <1>3, <2>1
  <2>5. c.reader # "gone" => d2.closing \/ OnItsWay(c, d2, p)
    BY <1>2, <1>3, <1>4, <1>6, <1>w, <2>1 DEF OnItsWay
  <2>6. d2.reader # "gone" =>
          ("verack_rx" \in c.info \/ In("VERACK", p) \/ In("VERACK", t) => Answered(d2))
    BY <1>2, <1>3, <1>4, <2>1
  <2> QED
    BY <1>4, <2>2, <2>3, <2>4, <2>5, <2>6 DEF LinkOK
<1> QED
  BY <1>5, <1>6

\* Sockets only ever close.
LEMMA ShutStep ==
    ASSUME NEW c, NEW d, NEW q, NEW sh, NEW sh2, LinkOK(c, d, q, sh), sh2 = {} => sh = {}
    PROVE  LinkOK(c, d, q, sh2)
  BY DEF LinkOK

\* What was on the way is lost.
LEMMA LostStep ==
    ASSUME NEW c, NEW d, NEW q, NEW sh, NEW sh2, LinkOK(c, d, q, sh), sh2 # {}
    PROVE  LinkOK(c, d, <<>>, sh2)
<1>1. \A x : ~In(x, <<>>)
  BY DEF In
<1>2. PipeOrdered(c, <<>>)
  BY DEF PipeOrdered
<1> QED
  BY <1>1, <1>2 DEF LinkOK
-------------------------------------------------------------------------------
(* What each thread does to its end of a connection.                            *)

\* Who has our VERACK has answered with its own VERSION and VERACK.
Confirmed(c, r) == "verack_rx" \in c.info => r.reader = "gone" \/ Answered(r)

\* End c becomes c2 without reading; r is the other end.
EndMove(c, c2, r) ==
    /\ EndOK(c2)
    /\ Sends(r, c, c2)
    /\ c.closing => c2.closing
    /\ VersionOut(c2) => VersionOut(c) \/ c2.closing \/ Queues(c, c2, "VERSION")
    /\ VerackOut(c2) => VerackOut(c) \/ c2.closing \/ Queues(c, c2, "VERACK")
    /\ "verack_rx" \in c2.info => "verack_rx" \in c.info
    /\ \/ c2.reader = "gone"
       \/ c.reader # "gone" /\ c.info \subseteq c2.info /\ (Answered(c) => Answered(c2))

MayMove(c, c2, r) == c2 \in Ending /\ (EndOK(c) /\ Confirmed(c, r) => EndMove(c, c2, r))

LEMMA MoveLinks ==
    ASSUME NEW c \in Ending, NEW c2 \in Ending, NEW r \in Ending, EndMove(c, c2, r),
           NEW toC, NEW toR \in Seq(Frames), NEW sh, LinkOK(c, r, toC, sh), LinkOK(r, c, toR, sh)
    PROVE  LinkOK(c2, r, toC, sh) /\ LinkOK(r, c2, toR, sh)
<1>1. LinkOK(c2, r, toC, sh)
  BY ReceiverStep DEF EndMove
<1>2. LinkOK(r, c2, toR, sh)
  BY SenderStep DEF EndMove
<1> QED
  BY <1>1, <1>2

LEMMA LinkConfirms ==
    ASSUME NEW c, NEW r, NEW q, NEW sh, LinkOK(c, r, q, sh)
    PROVE  Confirmed(c, r)
  BY DEF LinkOK, Confirmed

\* A change of program counters alone.
LEMMA CounterMove ==
    ASSUME NEW c \in Ending, NEW c2 \in Ending, NEW r, c2.info = c.info, c2.outq = c.outq,
           c2.closing <=> c.closing, c2.reader = c.reader, c2.starter = c.starter
    PROVE  MayMove(c, c2, r)
<1>1. EndOK(c) => EndOK(c2)
  BY DEF EndOK
<1>2. Sends(r, c, c2)
  BY DEF Sends
<1> QED
  BY <1>1, <1>2 DEF MayMove, EndMove, VersionOut, VerackOut, Answered

\* sync or gossip, sent by any thread.
LEMMA SendMove ==
    ASSUME NEW c \in Ending, NEW r \in Ending, NEW m \in {"sync", "gossip"}, NEW low \in BOOLEAN,
           NEW c2, c2 = send_to(c, m, low)
    PROVE  MayMove(c, c2, r)
<1>1. /\ SameButQueue(c2, c)
      /\ \/ c2 = c /\ ~Sent(c, m)
         \/ c2.outq = Append(c.outq, m) /\ ~c2.closing /\ ~c.closing /\ Sent(c, m)
         \/ c2.outq = <<>> /\ c2.closing /\ ~Sent(c, m) /\ Listed(c)
      /\ Sent(c, m) => Listed(c) /\ Sendable(c, m) /\ ~c.closing
  BY SendFacts DEF Frames
<1>2. /\ c2 \in Ending /\ c2.info = c.info /\ c2.reader = c.reader /\ c2.starter = c.starter
      /\ c.closing => c2.closing
  BY <1>1 DEF SameButQueue
<1>3. ASSUME EndOK(c)
      PROVE  EndOK(c2)
  <2>1. c.reader = "none" => c2 = c
    BY <1>1 DEF Listed
  <2> QED
    BY <1>1, <1>2, <1>3, <2>1 DEF EndOK
<1>4. ASSUME EndOK(c), Confirmed(c, r)
      PROVE  Sends(r, c, c2)
  <2>1. CASE ~Sent(c, m)
    BY <1>1, <2>1 DEF Sends
  <2>2. CASE Sent(c, m)
    <3>1. Sendable(c, m) /\ Queues(c, c2, m)
      BY <1>1, <2>2 DEF Queues
    <3>2. CASE established(c)
      <4>1. {"version_tx", "verack_tx", "verack_rx"} \subseteq c.info
        BY <3>2 DEF established, Handshake
      <4> QED
        BY <1>4, <3>1, <4>1 DEF Sends, Confirmed, VersionOut, VerackOut
    <3>3. CASE ~established(c)
      <4>1. m = "sync" /\ "version_tx" \in c.info
        BY <3>1, <3>3 DEF Sendable
      <4> QED
        BY <3>1, <4>1 DEF Sends, VersionOut
    <3> QED
      BY <3>2, <3>3
  <2> QED
    BY <2>1, <2>2
<1> QED
  BY <1>2, <1>3, <1>4 DEF MayMove, EndMove, VersionOut, VerackOut, Answered

\* start_peer's thread: VERSION goes out, then is marked.
LEMMA StarterMove ==
    ASSUME NEW i \in Conns, NEW e \in Ends, NEW c \in Ending, c = ends[i][e], NEW r \in Ending, StarterStep(i, e)
    PROVE  \E c2 : Set(i, e, c2) /\ MayMove(c, c2, r)
<1>1. CASE /\ c.starter = "connected"
           /\ Set(i, e, [c EXCEPT !.starter = IF "version_tx" \in c.info THEN "done" ELSE "send"])
  <2>1. PICK c2 : c2 = [c EXCEPT !.starter = IF "version_tx" \in c.info THEN "done" ELSE "send"]
    OBVIOUS
  <2>2. /\ c2 \in Ending /\ c2.info = c.info /\ c2.outq = c.outq /\ c2.reader = c.reader
        /\ c2.closing = c.closing /\ c2.starter \in {"done", "send"}
    BY <2>1 DEF Ending
  <2>3. EndOK(c) => c.reader # "none"
    BY <1>1 DEF EndOK
  <2>4. EndOK(c) => EndOK(c2)
    BY <2>2, <2>3 DEF EndOK
  <2>5. MayMove(c, c2, r)
    BY <2>2, <2>4 DEF MayMove, EndMove, VersionOut, VerackOut, Answered, Sends
  <2> QED
    BY <1>1, <2>1, <2>5
<1>2. CASE /\ c.starter = "send"
           /\ Set(i, e, [send_to(c, "VERSION", FALSE) EXCEPT
                            !.starter = IF Sent(c, "VERSION") THEN "mark" ELSE "done"])
  <2>l. PICK low \in BOOLEAN : low = FALSE
    OBVIOUS
  <2>1. PICK t : t = send_to(c, "VERSION", low)
    OBVIOUS
  <2>2. PICK c2 : c2 = [t EXCEPT !.starter = IF Sent(c, "VERSION") THEN "mark" ELSE "done"]
    OBVIOUS
  <2>3. Set(i, e, c2)
    BY <1>2, <2>l, <2>1, <2>2, Zenon
  <2>4. /\ SameButQueue(t, c)
        /\ \/ t = c /\ ~Sent(c, "VERSION")
           \/ t.outq = Append(c.outq, "VERSION") /\ ~t.closing /\ ~c.closing /\ Sent(c, "VERSION")
           \/ t.outq = <<>> /\ t.closing /\ ~Sent(c, "VERSION")
        /\ Sent(c, "VERSION") => Listed(c) /\ ~c.closing
    BY <2>1, SendFacts DEF Frames
  <2>5. /\ c2 \in Ending /\ c2.info = c.info /\ c2.outq = t.outq /\ c2.reader = c.reader
        /\ c2.closing = t.closing /\ c2.starter = IF Sent(c, "VERSION") THEN "mark" ELSE "done"
    BY <2>2, <2>4 DEF Ending, SameButQueue
  <2>6. ASSUME EndOK(c)
        PROVE  EndOK(c2)
    <3>1. c.reader # "none"
      BY <1>2, <2>6 DEF EndOK
    <3> QED
      BY <2>4, <2>5, <2>6, <3>1 DEF EndOK
  <2>7. Sends(r, c, c2) /\ (c.closing => c2.closing)
        /\ (c2.starter = "mark" => Queues(c, c2, "VERSION"))
    BY <2>4, <2>5 DEF Sends, Queues
  <2>8. MayMove(c, c2, r)
    BY <2>5, <2>6, <2>7 DEF MayMove, EndMove, VersionOut, VerackOut, Answered
  <2> QED
    BY <2>3, <2>8
<1>3. CASE /\ c.starter = "mark"
           /\ Set(i, e, [c EXCEPT !.starter = "done", !.info = IF Listed(c) THEN @ \cup {"version_tx"} ELSE @])
  <2>1. PICK new : new = IF Listed(c) THEN c.info \cup {"version_tx"} ELSE c.info
    OBVIOUS
  <2>2. PICK c2 : c2 = [c EXCEPT !.starter = "done", !.info = new]
    OBVIOUS
  <2>3. Set(i, e, c2)
    BY <1>3, <2>1, <2>2
  <2>4. new \in SUBSET Handshake /\ c.info \subseteq new /\ new \subseteq c.info \cup {"version_tx"}
    BY <2>1 DEF Ending, Handshake
  <2>5. /\ c2 \in Ending /\ c2.info = new /\ c2.outq = c.outq /\ c2.reader = c.reader
        /\ c2.closing = c.closing /\ c2.starter = "done"
    BY <2>2, <2>4 DEF Ending
  <2>6. ASSUME EndOK(c)
        PROVE  EndOK(c2)
    <3>1. c.reader # "none"
      BY <1>3, <2>6 DEF EndOK
    <3> QED
      BY <2>4, <2>5, <2>6, <3>1 DEF EndOK
  <2>7. VersionOut(c) /\ Sends(r, c, c2) /\ (VerackOut(c2) => VerackOut(c)) /\ (Answered(c) => Answered(c2))
    BY <1>3, <2>4, <2>5 DEF VersionOut, Sends, VerackOut, Answered
  <2>8. MayMove(c, c2, r)
    BY <2>4, <2>5, <2>6, <2>7 DEF MayMove, EndMove
  <2> QED
    BY <2>3, <2>8
<1> QED
  BY <1>1, <1>2, <1>3 DEF StarterStep

\* The reader answers a VERSION: its own VERSION unless one is out, then VERACK.
LEMMA AnswerMove ==
    ASSUME NEW i \in Conns, NEW e \in Ends, NEW c \in Ending, c = ends[i][e], NEW r \in Ending, AnswerVersion(i, e)
    PROVE  \E c2 : Set(i, e, c2) /\ MayMove(c, c2, r)
<1>l. PICK low \in BOOLEAN : low = FALSE
  OBVIOUS
<1>1. ASSUME NEW m \in {"VERSION", "VERACK"}, NEW next \in Readers, NEW t, t = send_to(c, m, low), Listed(c)
      PROVE  /\ t \in Ending
             /\ \/ Sent(c, m) /\ Queues(c, t, m) /\ ~t.closing /\ ~c.closing
                \/ ~Sent(c, m) /\ t.closing /\ (t.outq = <<>> \/ t = c)
             /\ t.info = c.info /\ t.reader = c.reader /\ t.starter = c.starter
  <2>1. Sendable(c, m) /\ m \in Frames
    BY DEF Sendable, Frames
  <2>2. /\ SameButQueue(t, c)
        /\ \/ t = c /\ ~Sent(c, m)
           \/ t.outq = Append(c.outq, m) /\ ~t.closing /\ ~c.closing /\ Sent(c, m)
           \/ t.outq = <<>> /\ t.closing /\ ~Sent(c, m)
        /\ Listed(c) /\ Sendable(c, m) /\ ~low /\ ~Sent(c, m) => t.closing
    BY <1>1, <2>1, SendFacts
  <2> QED
    BY <1>l, <1>1, <2>1, <2>2 DEF SameButQueue, Queues
<1>2. CASE /\ c.reader = "version"
           /\ Set(i, e, [send_to(c, "VERSION", FALSE) EXCEPT
                            !.reader = IF Sent(c, "VERSION") THEN "version_tx" ELSE "verack"])
  <2>1. PICK t : t = send_to(c, "VERSION", low)
    OBVIOUS
  <2>2. PICK c2 : c2 = [t EXCEPT !.reader = IF Sent(c, "VERSION") THEN "version_tx" ELSE "verack"]
    OBVIOUS
  <2>3. Set(i, e, c2)
    BY <1>2, <1>l, <2>1, <2>2, Zenon
  <2>4. /\ t \in Ending
        /\ \/ Sent(c, "VERSION") /\ Queues(c, t, "VERSION") /\ ~t.closing /\ ~c.closing
           \/ ~Sent(c, "VERSION") /\ t.closing /\ (t.outq = <<>> \/ t = c)
        /\ t.info = c.info /\ t.reader = c.reader /\ t.starter = c.starter
    <3>1. Listed(c) /\ "verack" \in Readers
      BY <1>2 DEF Listed, Readers
    <3> QED
      BY <1>1, <2>1, <3>1
  <2>5. /\ c2 \in Ending /\ c2.info = c.info /\ c2.outq = t.outq /\ c2.closing = t.closing
        /\ c2.starter = c.starter /\ c2.reader = IF Sent(c, "VERSION") THEN "version_tx" ELSE "verack"
    BY <2>2, <2>4 DEF Ending, Readers
  <2>6. ASSUME EndOK(c)
        PROVE  EndOK(c2)
    BY <1>2, <2>4, <2>5, <2>6 DEF EndOK
  <2>7. /\ Sends(r, c, c2) /\ (c.closing => c2.closing)
        /\ (c2.reader = "version_tx" => Queues(c, c2, "VERSION"))
    BY <2>4, <2>5 DEF Sends, Queues
  <2>8. VerackOut(c2) => VerackOut(c)
    BY <2>5 DEF VerackOut
  <2>9. Answered(c) => Answered(c2)
    BY <1>2, <2>5 DEF Answered
  <2>10. MayMove(c, c2, r)
    BY <1>2, <2>5, <2>6, <2>7, <2>8, <2>9 DEF MayMove, EndMove, VersionOut
  <2> QED
    BY <2>3, <2>10
<1>3. CASE /\ c.reader = "version_tx"
           /\ Set(i, e, [c EXCEPT !.info = @ \cup {"version_tx"}, !.reader = "verack"])
  <2>1. PICK c2 : c2 = [c EXCEPT !.info = c.info \cup {"version_tx"}, !.reader = "verack"]
    OBVIOUS
  <2>2. /\ c2 \in Ending /\ c2.info = c.info \cup {"version_tx"} /\ c2.outq = c.outq
        /\ c2.closing = c.closing /\ c2.starter = c.starter /\ c2.reader = "verack"
    BY <2>1 DEF Ending, Readers, Handshake
  <2>3. EndOK(c) => EndOK(c2)
    BY <1>3, <2>2 DEF EndOK
  <2>4. /\ VersionOut(c) /\ Sends(r, c, c2) /\ (VerackOut(c2) => VerackOut(c))
        /\ (Answered(c) => Answered(c2))
    BY <1>3, <2>2 DEF VersionOut, Sends, VerackOut, Answered
  <2>5. MayMove(c, c2, r)
    BY <1>3, <2>2, <2>3, <2>4 DEF MayMove, EndMove
  <2> QED
    BY <1>3, <2>1, <2>5
<1>4. CASE /\ c.reader = "verack"
           /\ Set(i, e, [send_to(c, "VERACK", FALSE) EXCEPT
                            !.reader = IF Sent(c, "VERACK") THEN "verack_tx" ELSE "read"])
  <2>1. PICK t : t = send_to(c, "VERACK", low)
    OBVIOUS
  <2>2. PICK c2 : c2 = [t EXCEPT !.reader = IF Sent(c, "VERACK") THEN "verack_tx" ELSE "read"]
    OBVIOUS
  <2>3. Set(i, e, c2)
    BY <1>4, <1>l, <2>1, <2>2, Zenon
  <2>4. /\ t \in Ending
        /\ \/ Sent(c, "VERACK") /\ Queues(c, t, "VERACK") /\ ~t.closing /\ ~c.closing
           \/ ~Sent(c, "VERACK") /\ t.closing /\ (t.outq = <<>> \/ t = c)
        /\ t.info = c.info /\ t.reader = c.reader /\ t.starter = c.starter
    <3>1. Listed(c) /\ "read" \in Readers
      BY <1>4 DEF Listed, Readers
    <3> QED
      BY <1>1, <2>1, <3>1
  <2>5. /\ c2 \in Ending /\ c2.info = c.info /\ c2.outq = t.outq /\ c2.closing = t.closing
        /\ c2.starter = c.starter /\ c2.reader = IF Sent(c, "VERACK") THEN "verack_tx" ELSE "read"
    BY <2>2, <2>4 DEF Ending, Readers
  <2>6. ASSUME EndOK(c)
        PROVE  /\ EndOK(c2)
               /\ Sends(r, c, c2)
    <3>1. c.closing \/ {"version_rx", "version_tx"} \subseteq c.info
      BY <1>4, <2>6 DEF EndOK
    <3>2. EndOK(c2)
      BY <1>4, <2>4, <2>5, <2>6, <3>1 DEF EndOK
    <3>3. Sent(c, "VERACK") => Answered(c2)
      BY <2>4, <2>5, <3>1 DEF Answered
    <3> QED
      BY <2>4, <2>5, <3>2, <3>3 DEF Sends, Queues
  <2>7. (c.closing => c2.closing) /\ (c2.reader = "verack_tx" => Queues(c, c2, "VERACK"))
    BY <2>4, <2>5 DEF Queues
  <2>8. VersionOut(c2) => VersionOut(c)
    BY <2>5 DEF VersionOut
  <2>9. Answered(c) => Answered(c2)
    BY <1>4, <2>5 DEF Answered
  <2>10. MayMove(c, c2, r)
    BY <1>4, <2>5, <2>6, <2>7, <2>8, <2>9 DEF MayMove, EndMove, VerackOut
  <2> QED
    BY <2>3, <2>10
<1>5. CASE /\ c.reader = "verack_tx"
           /\ Set(i, e, [c EXCEPT !.info = @ \cup {"verack_tx"}, !.reader = "read"])
  <2>1. PICK c2 : c2 = [c EXCEPT !.info = c.info \cup {"verack_tx"}, !.reader = "read"]
    OBVIOUS
  <2>2. /\ c2 \in Ending /\ c2.info = c.info \cup {"verack_tx"} /\ c2.outq = c.outq
        /\ c2.closing = c.closing /\ c2.starter = c.starter /\ c2.reader = "read"
    BY <2>1 DEF Ending, Readers, Handshake
  <2>3. EndOK(c) => EndOK(c2)
    BY <1>5, <2>2 DEF EndOK
  <2>4. /\ VerackOut(c) /\ Sends(r, c, c2) /\ (VersionOut(c2) => VersionOut(c))
        /\ (Answered(c) => Answered(c2))
    BY <1>5, <2>2 DEF VersionOut, Sends, VerackOut, Answered
  <2>5. MayMove(c, c2, r)
    BY <1>5, <2>2, <2>3, <2>4 DEF MayMove, EndMove
  <2> QED
    BY <1>5, <2>1, <2>5
<1> QED
  BY <1>2, <1>3, <1>4, <1>5 DEF AnswerVersion

\* The reader stops reading, and later leaves.
LEMMA LeaveMove ==
    ASSUME NEW c \in Ending, NEW r \in Ending, c.reader = "read",
           NEW c2, c2 = [request_close(c, FALSE) EXCEPT !.reader = "join"]
    PROVE  MayMove(c, c2, r)
<1>1. PICK t : t = request_close(c, FALSE)
  OBVIOUS
<1>2. SameButQueue(t, c) /\ t.closing /\ t.outq = <<>>
  BY <1>1, CloseFacts
<1>3. c2 = [t EXCEPT !.reader = "join"]
  BY <1>1, Zenon
<1>4. /\ c2 \in Ending /\ c2.info = c.info /\ c2.outq = <<>> /\ c2.closing = t.closing
      /\ c2.reader = "join" /\ c2.starter = c.starter
  BY <1>2, <1>3 DEF SameButQueue, Ending, Readers
<1>5. EndOK(c) => EndOK(c2)
  BY <1>2, <1>4 DEF EndOK
<1> QED
  BY <1>2, <1>4, <1>5 DEF MayMove, EndMove, VersionOut, VerackOut, Answered, Sends

LEMMA GoneMove ==
    ASSUME NEW c \in Ending, NEW r \in Ending, c.reader = "join",
           NEW c2, c2 = [c EXCEPT !.reader = "gone", !.info = {}]
    PROVE  MayMove(c, c2, r)
<1>1. /\ c2 \in Ending /\ c2.info = {} /\ c2.outq = c.outq /\ c2.closing = c.closing
      /\ c2.reader = "gone" /\ c2.starter = c.starter
  BY DEF Ending, Readers
<1>2. EndOK(c) => EndOK(c2)
  BY <1>1 DEF EndOK
<1> QED
  BY <1>1, <1>2 DEF MayMove, EndMove, VersionOut, VerackOut, Sends

\* A connection starts.
LEMMA StartMove ==
    ASSUME NEW c \in Ending, NEW r \in Ending, c.reader = "none"
    PROVE  Started \in Ending /\ MayMove(c, Started, r)
<1>b. PICK b \in BOOLEAN : b = FALSE
  OBVIOUS
<1>n. PICK n : n = [info |-> {}, outq |-> <<>>, closing |-> b, asked |-> b, starter |-> "none",
                    reader |-> "none", writer |-> "none"]
  OBVIOUS
<1>t. n \in Ending /\ n.info = {} /\ n.outq = <<>> /\ n.closing = b
  BY <1>n DEF Ending, Readers
<1>s. Started = [n EXCEPT !.starter = "connected", !.reader = "read", !.writer = "run"]
  BY <1>b, <1>n, Zenon DEF Started, NoConn
<1>1. /\ Started \in Ending /\ Started.info = {} /\ Started.outq = <<>>
      /\ Started.reader = "read" /\ Started.starter = "connected" /\ Started.closing = b
  BY <1>s, <1>t DEF Ending, Readers
<1>2. ~Started.closing
  BY <1>1, <1>b
<1>3. EndOK(Started)
  BY <1>1, <1>2 DEF EndOK
<1>4. EndOK(c) => c.info = {} /\ c.outq = <<>> /\ ~c.closing
  BY DEF EndOK
<1> QED
  BY <1>1, <1>2, <1>3, <1>4 DEF MayMove, EndMove, VersionOut, VerackOut, Answered, Sends
-------------------------------------------------------------------------------
(* Every step of every thread keeps the invariant.                              *)

Alike == rules["dialer"] = rules["listener"]

\* The two directions of connection i.
ConnOK(i) == \A e \in Ends : EndOK(ends[i][e]) /\ Linked(i, e)

LEMMA ConnParts ==
    ASSUME SessionInv, NEW i \in Conns, NEW e \in Ends
    PROVE  /\ ends[i][e] \in Ending /\ ends[i][Peer(e)] \in Ending
           /\ pipe[i][e] \in Seq(Frames) /\ pipe[i][Peer(e)] \in Seq(Frames)
           /\ Alike => /\ EndOK(ends[i][e]) /\ EndOK(ends[i][Peer(e)])
                       /\ LinkOK(ends[i][e], ends[i][Peer(e)], pipe[i][e], shut[i])
                       /\ LinkOK(ends[i][Peer(e)], ends[i][e], pipe[i][Peer(e)], shut[i])
                       /\ Confirmed(ends[i][e], ends[i][Peer(e)])
<1>1. Peer(e) \in Ends /\ Peer(Peer(e)) = e
  BY PeerIsOther
<1>2. /\ ends[i][e] \in Ending /\ ends[i][Peer(e)] \in Ending
      /\ pipe[i][e] \in Seq(Frames) /\ pipe[i][Peer(e)] \in Seq(Frames)
  BY <1>1 DEF SessionInv, SessionTypes
<1>3. ASSUME Alike
      PROVE  /\ EndOK(ends[i][e]) /\ EndOK(ends[i][Peer(e)]) /\ Linked(i, e) /\ Linked(i, Peer(e))
  BY <1>1, <1>3 DEF SessionInv, Alike
<1>4. ASSUME Alike
      PROVE  /\ LinkOK(ends[i][e], ends[i][Peer(e)], pipe[i][e], shut[i])
             /\ LinkOK(ends[i][Peer(e)], ends[i][e], pipe[i][Peer(e)], shut[i])
  BY <1>1, <1>3, <1>4 DEF Linked
<1> QED
  BY <1>2, <1>3, <1>4, LinkConfirms

\* Points for a read timeout in the handshake harm nobody.
Harmless == \/ UNCHANGED points
            \/ \E e \in Ends : points' = [points EXCEPT ![e] = @ \cup {"HANDSHAKE_TIMEOUT"}]

LEMMA HarmlessStep ==
    ASSUME SessionInv, Harmless, UNCHANGED rules
    PROVE  /\ points' \in [Ends -> SUBSET {"PRE_HANDSHAKE_CONSENSUS", "HANDSHAKE_TIMEOUT"}]
           /\ Alike => HandshakeHarmless'
<1>1. points \in [Ends -> SUBSET {"PRE_HANDSHAKE_CONSENSUS", "HANDSHAKE_TIMEOUT"}]
  BY DEF SessionInv, SessionTypes
<1>2. Alike => \A f \in Ends : points[f] \subseteq {"HANDSHAKE_TIMEOUT"}
  BY DEF SessionInv, HandshakeHarmless, Alike
<1> QED
  BY <1>1, <1>2 DEF Harmless, HandshakeHarmless, Alike

\* The links of one connection, after its end e has become c2.
LEMMA OneConn ==
    ASSUME NEW i \in Conns, NEW e \in Ends, NEW c2, ends[i] \in [Ends -> Ending],
           ends'[i] = [ends[i] EXCEPT ![e] = c2],
           EndOK(c2), EndOK(ends[i][Peer(e)]),
           LinkOK(c2, ends[i][Peer(e)], pipe'[i][e], shut'[i]),
           LinkOK(ends[i][Peer(e)], c2, pipe'[i][Peer(e)], shut'[i])
    PROVE  ConnOK(i)'
<1>1. Peer(e) \in Ends /\ Peer(Peer(e)) = e /\ Peer(e) # e /\ \A f \in Ends : f = e \/ f = Peer(e)
  BY PeerIsOther
<1>2. ends'[i][e] = c2 /\ ends'[i][Peer(e)] = ends[i][Peer(e)]
  BY <1>1
<1>3. ASSUME NEW f \in Ends
      PROVE  EndOK(ends'[i][f]) /\ LinkOK(ends'[i][f], ends'[i][Peer(f)], pipe'[i][f], shut'[i])
  <2>1. CASE f = e
    BY <1>2, <2>1
  <2>2. CASE f = Peer(e)
    BY <1>1, <1>2, <2>2
  <2> QED
    BY <1>1, <2>1, <2>2
<1>4. (\A f \in Ends : EndOK(ends[i][f]) /\ LinkOK(ends[i][f], ends[i][Peer(f)], pipe[i][f], shut[i]))'
  BY <1>3
<1> QED
  BY <1>4 DEF ConnOK, Linked

\* A step at end e of connection i that does not touch what is on the way.
LEMMA EndStep ==
    ASSUME SessionInv, NEW i \in Conns, NEW e \in Ends, NEW c2, Set(i, e, c2),
           MayMove(ends[i][e], c2, ends[i][Peer(e)]), UNCHANGED <<pipe, rules>>, Harmless,
           shut' = shut \/ shut' = [shut EXCEPT ![i] = @ \cup {e}],
           spent' \in [dials : Nat, extras : Nat], spent'.dials >= spent.dials,
           ends[i][e] # NoConn \/ i <= spent'.dials
    PROVE  SessionInv'
<1>1. /\ ends \in [Conns -> [Ends -> Ending]] /\ shut \in [Conns -> SUBSET Ends]
      /\ pipe \in [Conns -> [Ends -> Seq(Frames)]]
      /\ spent \in [dials : Nat, extras : Nat]
      /\ \A j \in Conns : j > spent.dials => \A f \in Ends : ends[j][f] = NoConn
      /\ Conns \subseteq Nat
  BY DEF SessionInv, SessionTypes, Conns
<1>2. ends' = [ends EXCEPT ![i] = [ends[i] EXCEPT ![e] = c2]] /\ c2 \in Ending
  BY DEF Set, MayMove
<1>3. /\ ends' \in [Conns -> [Ends -> Ending]] /\ shut' \in [Conns -> SUBSET Ends]
      /\ ends'[i] = [ends[i] EXCEPT ![e] = c2]
      /\ \A j \in Conns \ {i} : ends'[j] = ends[j] /\ shut'[j] = shut[j]
      /\ shut'[i] = {} => shut[i] = {}
  BY <1>1, <1>2
<1>4. ASSUME NEW j \in Conns, j > spent'.dials, NEW f \in Ends
      PROVE  ends'[j][f] = NoConn
  <2>1. j > spent.dials
    BY <1>1, <1>4
  <2>2. j # i
    BY <1>1, <1>4, <2>1
  <2> QED
    BY <1>1, <1>3, <2>1, <2>2
<1>5. SessionTypes'
  BY <1>1, <1>3, <1>4, HarmlessStep DEF SessionTypes
<1>6. ASSUME Alike, NEW j \in Conns
      PROVE  ConnOK(j)'
  <2>1. CASE j = i
    <3> DEFINE c == ends[i][e]
               r == ends[i][Peer(e)]
    <3>1. /\ c \in Ending /\ r \in Ending /\ pipe[i][Peer(e)] \in Seq(Frames)
          /\ EndOK(c) /\ EndOK(r) /\ Confirmed(c, r)
          /\ LinkOK(c, r, pipe[i][e], shut[i]) /\ LinkOK(r, c, pipe[i][Peer(e)], shut[i])
      BY <1>6, ConnParts
    <3>2. EndMove(c, c2, r)
      BY <3>1 DEF MayMove
    <3> HIDE DEF c, r
    <3>3. LinkOK(c2, r, pipe[i][e], shut[i]) /\ LinkOK(r, c2, pipe[i][Peer(e)], shut[i])
      BY <1>2, <3>1, <3>2, MoveLinks
    <3>4. LinkOK(c2, r, pipe'[i][e], shut'[i]) /\ LinkOK(r, c2, pipe'[i][Peer(e)], shut'[i])
      BY <1>3, <3>3, ShutStep
    <3>5. EndOK(c2)
      BY <3>2 DEF EndMove
    <3> QED
      BY <1>1, <1>3, <2>1, <3>1, <3>4, <3>5, OneConn DEF r
  <2>2. CASE j # i
    <3>1. ends'[j] = ends[j] /\ shut'[j] = shut[j] /\ pipe'[j] = pipe[j]
      BY <1>3, <2>2
    <3>2. \A f \in Ends : EndOK(ends[j][f]) /\ LinkOK(ends[j][f], ends[j][Peer(f)], pipe[j][f], shut[j])
      BY <1>6 DEF SessionInv, Alike, Linked
    <3>3. \A f \in Ends : EndOK(ends'[j][f]) /\ LinkOK(ends'[j][f], ends'[j][Peer(f)], pipe'[j][f], shut'[j])
      BY <3>1, <3>2
    <3>4. (\A f \in Ends : EndOK(ends[j][f]) /\ LinkOK(ends[j][f], ends[j][Peer(f)], pipe[j][f], shut[j]))'
      BY <3>3
    <3> QED
      BY <3>4 DEF ConnOK, Linked
  <2> QED
    BY <2>1, <2>2
<1>7. ASSUME Alike
      PROVE  (\A j \in Conns, f \in Ends : EndOK(ends[j][f]) /\ Linked(j, f))'
  BY <1>6, <1>7 DEF ConnOK
<1>8. Alike' <=> Alike
  BY DEF Alike
<1> QED
  BY <1>5, <1>7, <1>8, HarmlessStep DEF SessionInv, Alike
LEMMA NoThreads == NoConn.reader = "none" /\ NoConn.starter = "none" /\ NoConn.writer = "none"
  BY Zenon DEF NoConn

LEMMA SpentTyped ==
    ASSUME SessionInv
    PROVE  /\ spent \in [dials : Nat, extras : Nat] /\ spent.dials \in Nat
           /\ [spent EXCEPT !.extras = @ + 1] \in [dials : Nat, extras : Nat]
           /\ [spent EXCEPT !.extras = @ + 1].dials = spent.dials
           /\ [spent EXCEPT !.dials = @ + 1] \in [dials : Nat, extras : Nat]
           /\ [spent EXCEPT !.dials = @ + 1].dials = spent.dials + 1
<1>1. spent \in [dials : Nat, extras : Nat]
  BY DEF SessionInv, SessionTypes
<1> QED
  BY <1>1

LEMMA DialStep ==
    ASSUME SessionInv, Dial
    PROVE  SessionInv'
<1> DEFINE i == spent.dials + 1
<1>1. /\ spent \in [dials : Nat, extras : Nat] /\ spent.dials \in Nat /\ spent.dials < Dials
      /\ spent' \in [dials : Nat, extras : Nat] /\ spent'.dials = i
  BY SpentTyped DEF Dial
<1>2. i \in Conns /\ "dialer" \in Ends /\ Dials \in Nat
  BY <1>1, PeerSessionsAssumption DEF Conns, Ends
<1>3. ends[i]["dialer"] = NoConn
  <2>1. \A j \in Conns : j > spent.dials => \A f \in Ends : ends[j][f] = NoConn
    BY DEF SessionInv, SessionTypes
  <2>2. i > spent.dials
    BY <1>1
  <2> QED
    BY <1>2, <2>1, <2>2
<1>4. MayMove(ends[i]["dialer"], Started, ends[i][Peer("dialer")])
  BY <1>2, <1>3, NoThreads, StartMove, ConnParts
<1>5. Set(i, "dialer", Started) /\ UNCHANGED <<pipe, shut, rules>> /\ Harmless
  BY DEF Dial, Harmless
<1> HIDE DEF i
<1>6. i \in Nat /\ spent'.dials >= spent.dials
  BY <1>1 DEF i
<1> QED
  BY <1>1, <1>2, <1>4, <1>5, <1>6, EndStep

LEMMA AcceptStep ==
    ASSUME SessionInv, NEW i \in Conns, Accept(i)
    PROVE  SessionInv'
<1>1. /\ "listener" \in Ends /\ i \in Nat /\ UNCHANGED <<pipe, rules, spent>> /\ Harmless
      /\ ends[i]["listener"].reader = "none" /\ i <= spent.dials
  BY DEF Accept, Ends, Conns, Harmless
<1>2. /\ spent' \in [dials : Nat, extras : Nat] /\ spent'.dials >= spent.dials /\ i <= spent'.dials
  BY <1>1, SpentTyped
<1>3. ends[i]["listener"] \in Ending /\ ends[i][Peer("listener")] \in Ending
  BY <1>1, ConnParts
<1>4. CASE Set(i, "listener", Started) /\ UNCHANGED shut
  <2>1. MayMove(ends[i]["listener"], Started, ends[i][Peer("listener")])
    BY <1>1, <1>3, StartMove
  <2> QED
    BY <1>1, <1>2, <1>4, <2>1, EndStep
<1>5. CASE shut' = [shut EXCEPT ![i] = @ \cup {"listener"}] /\ UNCHANGED ends
  <2>1. MayMove(ends[i]["listener"], ends[i]["listener"], ends[i][Peer("listener")])
    BY <1>3, CounterMove
  <2>2. Set(i, "listener", ends[i]["listener"])
    BY <1>1, <1>5 DEF Set, SessionInv, SessionTypes
  <2> QED
    BY <1>1, <1>2, <1>5, <2>1, <2>2, EndStep
<1> QED
  BY <1>4, <1>5 DEF Accept

LEMMA StarterKeeps ==
    ASSUME SessionInv, NEW i \in Conns, NEW e \in Ends, StarterStep(i, e)
    PROVE  SessionInv'
<1>1. ends[i][e] \in Ending /\ ends[i][Peer(e)] \in Ending
  BY ConnParts
<1>2. PICK c2 : Set(i, e, c2) /\ MayMove(ends[i][e], c2, ends[i][Peer(e)])
  BY <1>1, StarterMove
<1>3. UNCHANGED <<pipe, shut, rules, spent>> /\ Harmless /\ ends[i][e].starter # "none"
  BY DEF StarterStep, Harmless
<1>4. spent' \in [dials : Nat, extras : Nat] /\ spent'.dials >= spent.dials /\ ends[i][e] # NoConn
  BY <1>3, SpentTyped, NoThreads
<1> QED
  BY <1>2, <1>3, <1>4, EndStep

LEMMA AnswerKeeps ==
    ASSUME SessionInv, NEW i \in Conns, NEW e \in Ends, AnswerVersion(i, e)
    PROVE  SessionInv'
<1>1. ends[i][e] \in Ending /\ ends[i][Peer(e)] \in Ending
  BY ConnParts
<1>2. PICK c2 : Set(i, e, c2) /\ MayMove(ends[i][e], c2, ends[i][Peer(e)])
  BY <1>1, AnswerMove
<1>3. UNCHANGED <<pipe, shut, rules, spent>> /\ Harmless /\ ends[i][e].reader # "none"
  BY DEF AnswerVersion, Harmless
<1>4. spent' \in [dials : Nat, extras : Nat] /\ spent'.dials >= spent.dials /\ ends[i][e] # NoConn
  BY <1>3, SpentTyped, NoThreads
<1> QED
  BY <1>2, <1>3, <1>4, EndStep

LEMMA ReadEndsKeeps ==
    ASSUME SessionInv, NEW i \in Conns, NEW e \in Ends, ReadEnds(i, e)
    PROVE  SessionInv'
<1>1. ends[i][e] \in Ending /\ ends[i][Peer(e)] \in Ending
  BY ConnParts
<1>2. PICK c2 : c2 = [request_close(ends[i][e], FALSE) EXCEPT !.reader = "join"]
  OBVIOUS
<1>3. /\ Set(i, e, c2) /\ ends[i][e].reader = "read" /\ UNCHANGED <<pipe, shut, rules>>
      /\ spent' = spent \/ spent' = [spent EXCEPT !.extras = @ + 1]
  BY <1>2 DEF ReadEnds
<1>4. Harmless
  BY DEF ReadEnds, Harmless
<1>5. MayMove(ends[i][e], c2, ends[i][Peer(e)])
  BY <1>1, <1>2, <1>3, LeaveMove
<1>6. spent' \in [dials : Nat, extras : Nat] /\ spent'.dials >= spent.dials /\ ends[i][e] # NoConn
  BY <1>3, SpentTyped, NoThreads
<1> QED
  BY <1>3, <1>4, <1>5, <1>6, EndStep

LEMMA LeavesKeeps ==
    ASSUME SessionInv, NEW i \in Conns, NEW e \in Ends, ReaderLeaves(i, e)
    PROVE  SessionInv'
<1>1. ends[i][e] \in Ending /\ ends[i][Peer(e)] \in Ending
  BY ConnParts
<1>2. PICK c2 : c2 = [ends[i][e] EXCEPT !.reader = "gone", !.info = {}]
  OBVIOUS
<1>3. /\ Set(i, e, c2) /\ ends[i][e].reader = "join" /\ UNCHANGED <<pipe, shut, rules, spent>> /\ Harmless
  BY <1>2 DEF ReaderLeaves, Harmless
<1>5. MayMove(ends[i][e], c2, ends[i][Peer(e)])
  BY <1>1, <1>2, <1>3, GoneMove
<1>6. spent' \in [dials : Nat, extras : Nat] /\ spent'.dials >= spent.dials /\ ends[i][e] # NoConn
  BY <1>3, SpentTyped, NoThreads
<1> QED
  BY <1>3, <1>5, <1>6, EndStep

LEMMA RequestKeeps ==
    ASSUME SessionInv, NEW i \in Conns, NEW e \in Ends, RequestTip(i, e)
    PROVE  SessionInv'
<1>1. ends[i][e] \in Ending /\ ends[i][Peer(e)] \in Ending
  BY ConnParts
<1>l. PICK low \in BOOLEAN : low = TRUE
  OBVIOUS
<1>2. PICK c2 : c2 = send_to(ends[i][e], "sync", low)
  OBVIOUS
<1>3. Set(i, e, c2)
  BY <1>l, <1>2, Zenon DEF RequestTip
<1>4. /\ Listed(ends[i][e]) /\ UNCHANGED <<pipe, shut, rules>> /\ Harmless
      /\ spent' = [spent EXCEPT !.extras = @ + 1]
  BY DEF RequestTip, Harmless
<1>5. MayMove(ends[i][e], c2, ends[i][Peer(e)])
  BY <1>1, <1>2, SendMove
<1>6. spent' \in [dials : Nat, extras : Nat] /\ spent'.dials >= spent.dials /\ ends[i][e] # NoConn
  BY <1>4, SpentTyped, NoThreads DEF Listed
<1> QED
  BY <1>3, <1>4, <1>5, <1>6, EndStep
\* A step at end e of connection i that changes what is on the way there.
LEMMA ConnStep ==
    ASSUME SessionInv, NEW i \in Conns, NEW e \in Ends, NEW c2 \in Ending, Set(i, e, c2),
           UNCHANGED <<shut, rules, spent>>, ends[i][e] # NoConn,
           pipe' \in [Conns -> [Ends -> Seq(Frames)]], \A j \in Conns \ {i} : pipe'[j] = pipe[j],
           points' \in [Ends -> SUBSET {"PRE_HANDSHAKE_CONSENSUS", "HANDSHAKE_TIMEOUT"}],
           Alike => /\ HandshakeHarmless' /\ EndOK(c2)
                    /\ LinkOK(c2, ends[i][Peer(e)], pipe'[i][e], shut[i])
                    /\ LinkOK(ends[i][Peer(e)], c2, pipe'[i][Peer(e)], shut[i])
    PROVE  SessionInv'
<1>1. /\ ends \in [Conns -> [Ends -> Ending]] /\ shut \in [Conns -> SUBSET Ends]
      /\ spent \in [dials : Nat, extras : Nat]
      /\ \A j \in Conns : j > spent.dials => \A f \in Ends : ends[j][f] = NoConn
  BY DEF SessionInv, SessionTypes, Conns
<1>2. /\ ends' \in [Conns -> [Ends -> Ending]]
      /\ ends'[i] = [ends[i] EXCEPT ![e] = c2]
      /\ \A j \in Conns \ {i} : ends'[j] = ends[j]
  BY <1>1 DEF Set
<1>3. ASSUME NEW j \in Conns, j > spent'.dials, NEW f \in Ends
      PROVE  ends'[j][f] = NoConn
  <2>1. \A g \in Ends : ends[j][g] = NoConn
    BY <1>1, <1>3
  <2>2. j # i
    BY <2>1
  <2> QED
    BY <1>2, <2>1, <2>2
<1>4. SessionTypes'
  BY <1>1, <1>2, <1>3 DEF SessionTypes
<1>5. ASSUME Alike, NEW j \in Conns
      PROVE  ConnOK(j)'
  <2>1. CASE j = i
    <3>1. EndOK(ends[i][Peer(e)]) /\ shut'[i] = shut[i]
      BY <1>5, ConnParts
    <3>2. LinkOK(c2, ends[i][Peer(e)], pipe'[i][e], shut'[i]) /\ LinkOK(ends[i][Peer(e)], c2, pipe'[i][Peer(e)], shut'[i])
      BY <1>5, <3>1
    <3> QED
      BY <1>1, <1>2, <1>5, <2>1, <3>1, <3>2, OneConn
  <2>2. CASE j # i
    <3>1. ends'[j] = ends[j] /\ shut'[j] = shut[j] /\ pipe'[j] = pipe[j]
      BY <1>2, <2>2
    <3>2. \A f \in Ends : EndOK(ends[j][f]) /\ LinkOK(ends[j][f], ends[j][Peer(f)], pipe[j][f], shut[j])
      BY <1>5 DEF SessionInv, Alike, Linked
    <3>3. \A f \in Ends : EndOK(ends'[j][f]) /\ LinkOK(ends'[j][f], ends'[j][Peer(f)], pipe'[j][f], shut'[j])
      BY <3>1, <3>2
    <3>4. (\A f \in Ends : EndOK(ends[j][f]) /\ LinkOK(ends[j][f], ends[j][Peer(f)], pipe[j][f], shut[j]))'
      BY <3>3
    <3> QED
      BY <3>4 DEF ConnOK, Linked
  <2> QED
    BY <2>1, <2>2
<1>6. ASSUME Alike
      PROVE  (\A j \in Conns, f \in Ends : EndOK(ends[j][f]) /\ Linked(j, f))'
  BY <1>5, <1>6 DEF ConnOK
<1>7. Alike' <=> Alike
  BY DEF Alike
<1> QED
  BY <1>4, <1>6, <1>7 DEF SessionInv, Alike

LEMMA WriterKeeps ==
    ASSUME SessionInv, NEW i \in Conns, NEW e \in Ends, WriterStep(i, e)
    PROVE  SessionInv'
<1> DEFINE c == ends[i][e]
           r == ends[i][Peer(e)]
<1>1. /\ c \in Ending /\ r \in Ending /\ pipe[i][e] \in Seq(Frames) /\ pipe[i][Peer(e)] \in Seq(Frames)
      /\ pipe \in [Conns -> [Ends -> Seq(Frames)]]
      /\ Alike => /\ EndOK(c) /\ LinkOK(c, r, pipe[i][e], shut[i])
                  /\ LinkOK(r, c, pipe[i][Peer(e)], shut[i])
  BY ConnParts DEF SessionInv, SessionTypes
<1>2. /\ UNCHANGED <<rules, spent, points>> /\ Harmless /\ c.writer = "run"
  BY DEF WriterStep, Harmless
<1>3. spent' \in [dials : Nat, extras : Nat] /\ spent'.dials >= spent.dials /\ c # NoConn
  BY <1>2, SpentTyped, NoThreads
<1>4. ASSUME NEW d \in Ending, MayMove(c, d, r), Set(i, e, [d EXCEPT !.writer = "done"]),
             shut' = [shut EXCEPT ![i] = @ \cup {e}], UNCHANGED pipe
      PROVE  SessionInv'
  <2>1. PICK c2 : c2 = [d EXCEPT !.writer = "done"]
    OBVIOUS
  <2>2. /\ c2 \in Ending /\ c2.info = d.info /\ c2.outq = d.outq /\ c2.closing = d.closing
        /\ c2.reader = d.reader /\ c2.starter = d.starter
    BY <2>1 DEF Ending
  <2>3. EndOK(d) => EndOK(c2)
    BY <2>2 DEF EndOK
  <2>4. MayMove(c, c2, r)
    BY <1>4, <2>2, <2>3 DEF MayMove, EndMove, VersionOut, VerackOut, Answered, Sends, Queues
  <2> QED
    BY <1>2, <1>3, <1>4, <2>1, <2>4, EndStep
<1>5. CASE /\ Set(i, e, [c EXCEPT !.writer = "done"])
           /\ shut' = [shut EXCEPT ![i] = @ \cup {e}] /\ UNCHANGED pipe
  <2>1. MayMove(c, c, r)
    BY <1>1, CounterMove
  <2> QED
    BY <1>1, <1>4, <1>5, <2>1
<1>6. CASE /\ Set(i, e, [request_close(c, FALSE) EXCEPT !.writer = "done"])
           /\ shut' = [shut EXCEPT ![i] = @ \cup {e}] /\ UNCHANGED pipe /\ c.outq # <<>>
  <2>1. PICK d : d = request_close(c, FALSE)
    OBVIOUS
  <2>2. SameButQueue(d, c) /\ d.closing /\ d.outq = <<>>
    BY <1>1, <2>1, CloseFacts
  <2>3. EndOK(c) => EndOK(d)
    BY <1>6, <2>2 DEF EndOK, SameButQueue
  <2>4. MayMove(c, d, r)
    BY <2>2, <2>3 DEF MayMove, EndMove, VersionOut, VerackOut, Answered, Sends, SameButQueue
  <2>5. d \in Ending /\ Set(i, e, [d EXCEPT !.writer = "done"])
    BY <1>6, <2>1, <2>2 DEF SameButQueue
  <2> QED
    BY <1>4, <1>6, <2>4, <2>5
<1>7. CASE /\ c.outq # <<>> /\ Set(i, e, [c EXCEPT !.outq = Tail(@)]) /\ UNCHANGED shut
           /\ pipe' = IF shut[i] # {} THEN pipe ELSE [pipe EXCEPT ![i][Peer(e)] = Append(@, Head(c.outq))]
  <2>1. PICK t : t = Tail(c.outq)
    OBVIOUS
  <2>2. PICK c2 : c2 = [c EXCEPT !.outq = t]
    OBVIOUS
  <2>3. Set(i, e, c2)
    BY <1>7, <2>1, <2>2
  <2>4. c.outq \in Seq(Frames)
    BY <1>1 DEF Ending
  <2>5. t \in Seq(Frames) /\ Head(c.outq) \in Frames
    BY <1>7, <2>1, <2>4
  <2>6. /\ c2 \in Ending /\ c2.info = c.info /\ c2.outq = t /\ c2.closing = c.closing
        /\ c2.reader = c.reader /\ c2.starter = c.starter
    BY <1>1, <2>2, <2>5 DEF Ending
  <2>7. PICK p : p = IF shut[i] # {} THEN pipe[i][Peer(e)] ELSE Append(pipe[i][Peer(e)], Head(c.outq))
    OBVIOUS
  <2>8. p \in Seq(Frames) /\ Peer(e) \in Ends /\ Peer(e) # e
    BY <1>1, <2>5, <2>7, PeerIsOther
  <2>9. /\ pipe' \in [Conns -> [Ends -> Seq(Frames)]] /\ pipe'[i][Peer(e)] = p /\ pipe'[i][e] = pipe[i][e]
        /\ \A j \in Conns \ {i} : pipe'[j] = pipe[j]
    <3>1. CASE shut[i] # {}
      BY <1>1, <1>7, <2>7, <3>1
    <3>2. CASE shut[i] = {}
      <4>1. pipe' = [pipe EXCEPT ![i] = [pipe[i] EXCEPT ![Peer(e)] = p]]
        BY <1>7, <2>7, <3>2
      <4> QED
        BY <1>1, <2>8, <4>1
    <3> QED
      BY <3>1, <3>2
  <2>10. /\ points' \in [Ends -> SUBSET {"PRE_HANDSHAKE_CONSENSUS", "HANDSHAKE_TIMEOUT"}]
         /\ Alike => HandshakeHarmless'
    BY <1>2, HarmlessStep
  <2> HIDE DEF c, r
  <2>11. ASSUME Alike
         PROVE  /\ EndOK(c2) /\ LinkOK(c2, r, pipe'[i][e], shut[i])
                /\ LinkOK(r, c2, pipe'[i][Peer(e)], shut[i])
    <3>1. EndOK(c2)
      BY <1>1, <1>7, <2>6, <2>11 DEF EndOK
    <3>2. LinkOK(c2, r, pipe[i][e], shut[i])
      <4>1. Answered(c) => Answered(c2)
        BY <2>6 DEF Answered
      <4>2. \/ c2.reader = "gone"
            \/ c.reader # "gone" /\ c.info \subseteq c2.info /\ (Answered(c) => Answered(c2))
        BY <2>6, <4>1
      <4> QED
        BY <1>1, <2>6, <2>11, <4>2, ReceiverStep
    <3>3. LinkOK(r, c2, p, shut[i])
      BY <1>1, <1>7, <2>1, <2>6, <2>7, <2>11, WriteStep
    <3> QED
      BY <2>9, <3>1, <3>2, <3>3
  <2> QED
    BY <1>2, <1>3, <1>7, <2>3, <2>6, <2>9, <2>10, <2>11, ConnStep DEF c, r
<1> QED
  BY <1>5, <1>6, <1>7 DEF WriterStep
\* The reader has taken frame m: what it knows now, and whom it answers.
ReadMove(c, c2, r, q, toR, sh) == EndOK(c2) /\ LinkOK(c2, r, Tail(q), sh) /\ LinkOK(r, c2, toR, sh)

\* What reading changes at an end that answers nothing yet.
LEMMA LearnMove ==
    ASSUME NEW c \in Ending, NEW c2 \in Ending, NEW r \in Ending, NEW q \in Seq(Frames), q # <<>>,
           NEW toR \in Seq(Frames), NEW sh, c.reader = "read",
           EndOK(c), LinkOK(c, r, q, sh), LinkOK(r, c, toR, sh),
           c2.info = c.info \cup Learnt(Head(q)), c2.outq = c.outq, c2.closing <=> c.closing,
           c2.starter = c.starter,
           \/ c2.reader = "read" /\ Head(q) # "VERSION"
           \/ c2.reader = "verack" /\ Head(q) = "VERSION" /\ "version_tx" \in c.info
           \/ c2.reader = "version" /\ Head(q) = "VERSION"
    PROVE  ReadMove(c, c2, r, q, toR, sh)
<1>1. /\ c.info \subseteq c2.info
      /\ \A x \in {"version_tx", "verack_tx"} : x \in c2.info <=> x \in c.info
      /\ Head(q) # "VERSION" => ("version_rx" \in c2.info <=> "version_rx" \in c.info)
      /\ Head(q) = "VERSION" => "version_rx" \in c2.info
  BY DEF Learnt
<1>2. EndOK(c2)
  BY <1>1 DEF EndOK
<1>3. Answered(c) => Answered(c2)
  BY <1>1 DEF Answered
<1>4. LinkOK(c2, r, Tail(q), sh)
  BY <1>3, ReadStep
<1>5. /\ VersionOut(c2) => VersionOut(c)
      /\ VerackOut(c2) => VerackOut(c)
      /\ Sends(r, c, c2)
  BY <1>1 DEF VersionOut, VerackOut, Sends
<1>6. LinkOK(r, c2, toR, sh)
  BY <1>3, <1>5, SenderStep
<1> QED
  BY <1>2, <1>4, <1>6 DEF ReadMove

\* A frame that is sent after it.
LEMMA ThenSends ==
    ASSUME NEW c, NEW d \in Ending, NEW r \in Ending, NEW q \in Seq(Frames), q # <<>>,
           NEW toR \in Seq(Frames), NEW sh, ReadMove(c, d, r, q, toR, sh),
           NEW m \in {"sync", "gossip"}, NEW low \in BOOLEAN, NEW c2, c2 = send_to(d, m, low)
    PROVE  c2 \in Ending /\ ReadMove(c, c2, r, q, toR, sh)
<1>1. MayMove(d, c2, r)
  BY SendMove
<1>2. Confirmed(d, r)
  BY LinkConfirms DEF ReadMove
<1>3. EndMove(d, c2, r) /\ c2 \in Ending /\ EndOK(c2)
  BY <1>1, <1>2 DEF MayMove, ReadMove, EndMove
<1>4. PICK t : t = Tail(q)
  OBVIOUS
<1>5. LinkOK(d, r, t, sh) /\ LinkOK(r, d, toR, sh)
  BY <1>4 DEF ReadMove
<1>6. LinkOK(c2, r, t, sh) /\ LinkOK(r, c2, toR, sh)
  BY <1>3, <1>5, MoveLinks
<1> QED
  BY <1>3, <1>4, <1>6 DEF ReadMove

LEMMA VersionRead ==
    ASSUME NEW i \in Conns, NEW e \in Ends, NEW c \in Ending, on_version(i, e, c), c.reader = "read",
           NEW r \in Ending, NEW q \in Seq(Frames), q # <<>>, Head(q) = "VERSION",
           NEW toR \in Seq(Frames), NEW sh,
           rules[Peer(e)] = rules[e] => EndOK(c) /\ LinkOK(c, r, q, sh) /\ LinkOK(r, c, toR, sh)
    PROVE  \E c2 \in Ending :
              Set(i, e, c2) /\ (rules[Peer(e)] = rules[e] => ReadMove(c, c2, r, q, toR, sh))
<1>1. CASE rules[Peer(e)] # rules[e]
  <2>1. Set(i, e, request_close(c, TRUE))
    BY <1>1, Zenon DEF on_version
  <2>2. request_close(c, TRUE) \in Ending
    BY DrainTyped
  <2> QED
    BY <1>1, <2>1, <2>2, Zenon
<1>2. CASE rules[Peer(e)] = rules[e]
  <2>1. PICK next : next = IF "version_tx" \in c.info THEN "verack" ELSE "version"
    OBVIOUS
  <2>2. PICK c2 : c2 = [c EXCEPT !.info = c.info \cup {"version_rx"}, !.reader = next]
    OBVIOUS
  <2>3. Set(i, e, c2)
    BY <1>2, <2>1, <2>2 DEF on_version
  <2>4. next \in Readers /\ c.info \cup {"version_rx"} \in SUBSET Handshake
    BY <2>1 DEF Readers, Handshake, Ending
  <2>5. /\ c2 \in Ending /\ c2.info = c.info \cup {"version_rx"} /\ c2.outq = c.outq
        /\ c2.closing = c.closing /\ c2.starter = c.starter /\ c2.reader = next
    BY <2>2, <2>4 DEF Ending
  <2>6. c2.info = c.info \cup Learnt(Head(q))
    BY <2>5 DEF Learnt
  <2>7. ReadMove(c, c2, r, q, toR, sh)
    BY <1>2, <2>1, <2>5, <2>6, LearnMove
  <2> QED
    BY <2>3, <2>5, <2>7
<1> QED
  BY <1>1, <1>2

LEMMA VerackRead ==
    ASSUME NEW i \in Conns, NEW e \in Ends, NEW c \in Ending, on_verack(i, e, c), c.reader = "read",
           NEW r \in Ending, NEW q \in Seq(Frames), q # <<>>, Head(q) = "VERACK",
           NEW toR \in Seq(Frames), NEW sh, NEW alike \in BOOLEAN,
           alike => EndOK(c) /\ LinkOK(c, r, q, sh) /\ LinkOK(r, c, toR, sh)
    PROVE  \E c2 \in Ending : Set(i, e, c2) /\ (alike => ReadMove(c, c2, r, q, toR, sh))
<1>b. PICK b \in BOOLEAN : b = TRUE
  OBVIOUS
<1>n. PICK n \in BOOLEAN : n = FALSE
  OBVIOUS
<1>1. PICK d : d = [c EXCEPT !.info = c.info \cup {"verack_rx"}, !.asked = b]
  OBVIOUS
<1>2. PICK a : a = send_to(d, "gossip", b)
  OBVIOUS
<1>3. PICK f : f = IF c.asked THEN d ELSE a
  OBVIOUS
<1>4. PICK c2 : c2 = send_to(f, "sync", n)
  OBVIOUS
<1>5. Set(i, e, c2)
  BY <1>b, <1>n, <1>1, <1>2, <1>3, <1>4, Zenon DEF on_verack
<1>6. c.info \cup {"verack_rx"} \in SUBSET Handshake
  BY DEF Handshake, Ending
<1>7. /\ d \in Ending /\ d.info = c.info \cup {"verack_rx"} /\ d.outq = c.outq
      /\ d.closing = c.closing /\ d.starter = c.starter /\ d.reader = c.reader
  BY <1>1, <1>6 DEF Ending
<1>8. d.info = c.info \cup Learnt(Head(q))
  BY <1>7 DEF Learnt
<1>9. SameButQueue(a, d)
  BY <1>2, <1>7, SendFacts DEF Frames
<1>10. f \in Ending
  BY <1>3, <1>7, <1>9 DEF SameButQueue
<1>11. SameButQueue(c2, f)
  BY <1>4, <1>10, SendFacts DEF Frames
<1>12. ASSUME alike
       PROVE  ReadMove(c, c2, r, q, toR, sh)
  <2>1. ReadMove(c, d, r, q, toR, sh)
    BY <1>7, <1>8, <1>12, LearnMove
  <2>2. ReadMove(c, a, r, q, toR, sh)
    BY <1>2, <1>7, <2>1, ThenSends
  <2>3. ReadMove(c, f, r, q, toR, sh)
    BY <1>3, <2>1, <2>2
  <2> QED
    BY <1>4, <1>10, <2>3, ThenSends
<1> QED
  BY <1>5, <1>11, <1>12 DEF SameButQueue

\* What the reader takes off the wire after the handshake frames is not scored.
LEMMA NotEarly ==
    ASSUME NEW c \in Ending, NEW r, NEW q \in Seq(Frames), q # <<>>, NEW sh, EndOK(c), LinkOK(c, r, q, sh),
           c.reader = "read", ~(c.closing /\ c.outq = <<>>), Head(q) \in {"sync", "gossip"}
    PROVE  ~PreHandshake(c, Head(q))
<1>1. Head(q) = q[1] /\ 1 \in 1..Len(q)
  OBVIOUS
<1>2. PipeOrdered(c, q)
  BY DEF LinkOK
<1>3. \A x : ~Before(x, q, 1)
  BY DEF Before
<1>4. "version_rx" \in c.info
  BY <1>1, <1>2, <1>3 DEF PipeOrdered
<1>5. {"version_rx", "version_tx", "verack_tx"} \subseteq c.info
  BY <1>4 DEF EndOK
<1>6. Head(q) = "gossip" => "verack_rx" \in c.info
  BY <1>1, <1>2, <1>3 DEF PipeOrdered
<1>7. c.info \subseteq Handshake
  BY DEF Ending
<1>8. Head(q) = "gossip" => established(c)
  BY <1>5, <1>6, <1>7 DEF established, Handshake
<1> QED
  BY <1>5, <1>8 DEF PreHandshake

LEMMA ReadKeeps ==
    ASSUME SessionInv, NEW i \in Conns, NEW e \in Ends, ReadFrame(i, e)
    PROVE  SessionInv'
<1> DEFINE c == ends[i][e]
           r == ends[i][Peer(e)]
           q == pipe[i][e]
           toR == pipe[i][Peer(e)]
<1>1. /\ c \in Ending /\ r \in Ending /\ q \in Seq(Frames) /\ toR \in Seq(Frames)
      /\ Alike => EndOK(c) /\ LinkOK(c, r, q, shut[i]) /\ LinkOK(r, c, toR, shut[i])
  BY ConnParts
<1>2. /\ c.reader = "read" /\ q # <<>> /\ UNCHANGED <<shut, rules, spent>>
      /\ ~(c.closing /\ c.outq = <<>>) /\ pipe' = [pipe EXCEPT ![i][e] = Tail(@)]
  BY DEF ReadFrame
<1>3. Head(q) \in Frames /\ Tail(q) \in Seq(Frames)
  BY <1>1, <1>2
<1>4. c # NoConn
  BY <1>2, NoThreads
<1>5. /\ pipe' \in [Conns -> [Ends -> Seq(Frames)]]
      /\ pipe'[i][e] = Tail(q) /\ pipe'[i][Peer(e)] = toR
      /\ \A j \in Conns \ {i} : pipe'[j] = pipe[j]
  <2>1. pipe \in [Conns -> [Ends -> Seq(Frames)]]
    BY DEF SessionInv, SessionTypes
  <2>2. pipe' = [pipe EXCEPT ![i] = [pipe[i] EXCEPT ![e] = Tail(q)]]
    BY <1>2
  <2>3. Peer(e) \in Ends /\ Peer(e) # e
    BY PeerIsOther
  <2> HIDE DEF q
  <2> QED
    BY <1>3, <2>1, <2>2, <2>3
<1>6. Alike <=> rules[Peer(e)] = rules[e]
  BY PeerIsOther DEF Alike, Ends
<1>7. \E c2 \in Ending : Set(i, e, c2) /\ (Alike => ReadMove(c, c2, r, q, toR, shut[i]))
  <2>1. CASE Head(q) = "VERSION"
    <3>1. on_version(i, e, c)
      BY <2>1 DEF ReadFrame
    <3> HIDE DEF c, r, q, toR
    <3> QED
      BY <1>1, <1>2, <1>6, <2>1, <3>1, VersionRead
  <2>2. CASE Head(q) = "VERACK"
    <3>1. on_verack(i, e, c)
      BY <2>2 DEF ReadFrame
    <3>2. PICK alike \in BOOLEAN : alike <=> Alike
      OBVIOUS
    <3> HIDE DEF c, r, q, toR
    <3>3. \E c2 \in Ending : Set(i, e, c2) /\ (alike => ReadMove(c, c2, r, q, toR, shut[i]))
      BY <1>1, <1>2, <2>2, <3>1, <3>2, VerackRead
    <3> QED
      BY <3>2, <3>3
  <2>3. CASE Head(q) \in {"sync", "gossip"}
    <3>1. UNCHANGED ends
      BY <2>3 DEF ReadFrame
    <3>2. Set(i, e, c)
      BY <3>1 DEF Set, SessionInv, SessionTypes
    <3> HIDE DEF c, r, q, toR
    <3>3. c.info = c.info \cup Learnt(Head(q))
      BY <2>3 DEF Learnt
    <3>4. Alike => ReadMove(c, c, r, q, toR, shut[i])
      BY <1>1, <1>2, <2>3, <3>3, LearnMove
    <3> QED
      BY <1>1, <3>2, <3>4
  <2> QED
    BY <1>3, <2>1, <2>2, <2>3 DEF Frames
<1>8. /\ points' \in [Ends -> SUBSET {"PRE_HANDSHAKE_CONSENSUS", "HANDSHAKE_TIMEOUT"}]
      /\ Alike => HandshakeHarmless'
  <2>1. \/ points' = points
        \/ /\ Head(q) \in {"sync", "gossip"} /\ PreHandshake(c, Head(q))
           /\ points' = [points EXCEPT ![e] = @ \cup {"PRE_HANDSHAKE_CONSENSUS"}]
    BY DEF ReadFrame
  <2> HIDE DEF c, r, q, toR
  <2>2. Alike => points' = points
    BY <1>1, <1>2, <2>1, NotEarly
  <2>3. points \in [Ends -> SUBSET {"PRE_HANDSHAKE_CONSENSUS", "HANDSHAKE_TIMEOUT"}]
    BY DEF SessionInv, SessionTypes
  <2>4. points' \in [Ends -> SUBSET {"PRE_HANDSHAKE_CONSENSUS", "HANDSHAKE_TIMEOUT"}]
    BY <2>1, <2>3
  <2>5. ASSUME Alike
        PROVE  HandshakeHarmless'
    <3>1. Harmless
      BY <2>2, <2>5 DEF Harmless
    <3> QED
      BY <1>2, <2>5, <3>1, HarmlessStep
  <2> QED
    BY <2>4, <2>5
<1>9. PICK c2 \in Ending : Set(i, e, c2) /\ (Alike => ReadMove(c, c2, r, q, toR, shut[i]))
  BY <1>7
<1>10. Alike => /\ EndOK(c2) /\ LinkOK(c2, r, pipe'[i][e], shut[i])
                /\ LinkOK(r, c2, pipe'[i][Peer(e)], shut[i])
  <2> HIDE DEF c, r, q, toR
  <2> QED
    BY <1>5, <1>9 DEF ReadMove
<1> QED
  BY <1>2, <1>4, <1>5, <1>8, <1>9, <1>10, ConnStep
LEMMA BreakKeeps ==
    ASSUME SessionInv, NEW i \in Conns, Break(i)
    PROVE  SessionInv'
<1>1. /\ shut' = [shut EXCEPT ![i] = Ends] /\ pipe' = [pipe EXCEPT ![i] = [e \in Ends |-> <<>>]]
      /\ UNCHANGED <<ends, points, rules>> /\ spent' = [spent EXCEPT !.extras = @ + 1] /\ Harmless
  BY DEF Break, Harmless
<1>2. /\ ends \in [Conns -> [Ends -> Ending]] /\ shut \in [Conns -> SUBSET Ends]
      /\ pipe \in [Conns -> [Ends -> Seq(Frames)]]
      /\ \A j \in Conns : j > spent.dials => \A f \in Ends : ends[j][f] = NoConn
  BY DEF SessionInv, SessionTypes
<1>3. spent' \in [dials : Nat, extras : Nat] /\ spent'.dials = spent.dials
  BY <1>1, SpentTyped
<1>4. [e \in Ends |-> <<>>] \in [Ends -> Seq(Frames)]
  OBVIOUS
<1>5. /\ shut' \in [Conns -> SUBSET Ends] /\ pipe' \in [Conns -> [Ends -> Seq(Frames)]]
      /\ \A j \in Conns \ {i} : shut'[j] = shut[j] /\ pipe'[j] = pipe[j]
      /\ shut'[i] # {} /\ \A f \in Ends : pipe'[i][f] = <<>>
  BY <1>1, <1>2, <1>4 DEF Ends
<1>6. SessionTypes'
  BY <1>1, <1>2, <1>3, <1>5, HarmlessStep DEF SessionTypes
<1>7. ASSUME Alike, NEW j \in Conns, NEW f \in Ends
      PROVE  EndOK(ends'[j][f]) /\ LinkOK(ends'[j][f], ends'[j][Peer(f)], pipe'[j][f], shut'[j])
  <2>1. EndOK(ends[j][f]) /\ LinkOK(ends[j][f], ends[j][Peer(f)], pipe[j][f], shut[j])
    BY <1>7, ConnParts
  <2>2. CASE j = i
    BY <1>1, <1>5, <2>1, <2>2, LostStep
  <2>3. CASE j # i
    BY <1>1, <1>5, <2>1, <2>3
  <2> QED
    BY <2>2, <2>3
<1>8. ASSUME Alike
      PROVE  (\A j \in Conns, f \in Ends :
                 EndOK(ends[j][f]) /\ LinkOK(ends[j][f], ends[j][Peer(f)], pipe[j][f], shut[j]))'
  BY <1>7, <1>8
<1>9. Alike' <=> Alike
  BY <1>1 DEF Alike
<1> QED
  BY <1>1, <1>6, <1>8, <1>9, HarmlessStep DEF SessionInv, Alike, Linked

\* The event loop queues a frame at its end of every connection.
LEMMA BroadcastKeeps ==
    ASSUME SessionInv, NEW e \in Ends, Broadcast(e)
    PROVE  SessionInv'
<1> DEFINE After(j) == IF established(ends[j][e]) THEN send_to(ends[j][e], "gossip", FALSE) ELSE ends[j][e]
<1>1. UNCHANGED <<pipe, shut, points, rules, spent>> /\ Harmless
  BY DEF Broadcast, Harmless
<1>2. /\ ends \in [Conns -> [Ends -> Ending]] /\ shut \in [Conns -> SUBSET Ends]
      /\ pipe \in [Conns -> [Ends -> Seq(Frames)]] /\ spent \in [dials : Nat, extras : Nat]
      /\ \A j \in Conns : j > spent.dials => \A f \in Ends : ends[j][f] = NoConn
  BY DEF SessionInv, SessionTypes
<1>3. ends' = [j \in Conns |-> [ends[j] EXCEPT ![e] = After(j)]]
  BY Zenon DEF Broadcast
<1>4. ASSUME NEW j \in Conns
      PROVE  MayMove(ends[j][e], After(j), ends[j][Peer(e)])
  <2>1. ends[j][e] \in Ending /\ ends[j][Peer(e)] \in Ending
    BY ConnParts
  <2>2. CASE established(ends[j][e])
    <3>1. PICK low \in BOOLEAN : low = FALSE
      OBVIOUS
    <3>2. PICK c2 : c2 = send_to(ends[j][e], "gossip", low)
      OBVIOUS
    <3>3. After(j) = c2
      BY <2>2, <3>1, <3>2, Zenon
    <3>4. MayMove(ends[j][e], c2, ends[j][Peer(e)])
      BY <2>1, <3>2, SendMove
    <3> QED
      BY <3>3, <3>4, Zenon
  <2>3. CASE ~established(ends[j][e])
    <3>1. After(j) = ends[j][e]
      BY <2>3, Zenon
    <3>2. MayMove(ends[j][e], ends[j][e], ends[j][Peer(e)])
      BY <2>1, CounterMove
    <3> QED
      BY <3>1, <3>2, Zenon
  <2> QED
    BY <2>2, <2>3
<1>5. ASSUME NEW j \in Conns, ends[j][e] = NoConn
      PROVE  After(j) = NoConn
  <2>1. NoConn.info = {}
    BY Zenon DEF NoConn
  <2>2. ~established(ends[j][e])
    BY <1>5, <2>1 DEF established, Handshake
  <2> QED
    BY <1>5, <2>2, Zenon
<1> HIDE DEF After
<1>6. \A j \in Conns : After(j) \in Ending
  BY <1>4 DEF MayMove
<1>7. /\ ends' \in [Conns -> [Ends -> Ending]]
      /\ \A j \in Conns : ends'[j] = [ends[j] EXCEPT ![e] = After(j)]
  BY <1>2, <1>3, <1>6
<1>8. ASSUME NEW j \in Conns, j > spent'.dials, NEW f \in Ends
      PROVE  ends'[j][f] = NoConn
  <2>1. \A g \in Ends : ends[j][g] = NoConn
    BY <1>1, <1>2, <1>8
  <2> QED
    BY <1>2, <1>5, <1>7, <2>1
<1>9. SessionTypes'
  BY <1>1, <1>2, <1>7, <1>8, HarmlessStep DEF SessionTypes
<1>10. ASSUME Alike, NEW j \in Conns
       PROVE  ConnOK(j)'
  <2> DEFINE c == ends[j][e]
             r == ends[j][Peer(e)]
  <2>1. /\ c \in Ending /\ r \in Ending /\ pipe[j][Peer(e)] \in Seq(Frames)
        /\ EndOK(c) /\ EndOK(r) /\ Confirmed(c, r)
        /\ LinkOK(c, r, pipe[j][e], shut[j]) /\ LinkOK(r, c, pipe[j][Peer(e)], shut[j])
    BY <1>10, ConnParts
  <2>2. EndMove(c, After(j), r)
    BY <1>4, <2>1 DEF MayMove
  <2>3. EndOK(After(j))
    BY <2>2 DEF EndMove
  <2> HIDE DEF c, r
  <2>4. LinkOK(After(j), r, pipe[j][e], shut[j]) /\ LinkOK(r, After(j), pipe[j][Peer(e)], shut[j])
    BY <1>6, <2>1, <2>2, MoveLinks
  <2>5. LinkOK(After(j), r, pipe'[j][e], shut'[j]) /\ LinkOK(r, After(j), pipe'[j][Peer(e)], shut'[j])
    BY <1>1, <2>4
  <2> QED
    BY <1>2, <1>7, <2>1, <2>3, <2>5, OneConn DEF r
<1>11. ASSUME Alike
       PROVE  (\A j \in Conns, f \in Ends : EndOK(ends[j][f]) /\ Linked(j, f))'
  BY <1>10, <1>11 DEF ConnOK
<1>12. Alike' <=> Alike
  BY <1>1 DEF Alike
<1> QED
  BY <1>1, <1>9, <1>11, <1>12, HarmlessStep DEF SessionInv, Alike

\* Nothing of a connection changes.
LEMMA IdleKeeps ==
    ASSUME SessionInv, UNCHANGED <<ends, pipe, shut, points, rules>>,
           spent' = spent \/ spent' = [spent EXCEPT !.extras = @ + 1]
    PROVE  SessionInv'
<1>1. spent' \in [dials : Nat, extras : Nat] /\ spent'.dials = spent.dials
  BY SpentTyped
<1>2. SessionTypes'
  BY <1>1 DEF SessionInv, SessionTypes
<1> QED
  BY <1>2 DEF SessionInv, HandshakeHarmless, Linked

LEMMA SessionInit ==
    ASSUME PSInit
    PROVE  SessionInv
<1>b. PICK b \in BOOLEAN : b = FALSE
  OBVIOUS
<1>n. PICK n : n = [info |-> {}, outq |-> <<>>, closing |-> b, asked |-> b, starter |-> "none",
                    reader |-> "none", writer |-> "none"]
  OBVIOUS
<1>1. /\ n \in Ending /\ n.info = {} /\ n.outq = <<>> /\ n.closing = b
      /\ n.reader = "none" /\ n.starter = "none"
  BY <1>n DEF Ending, Readers
<1>2. NoConn = n
  BY <1>b, <1>n, Zenon DEF NoConn
<1>3. EndOK(n)
  BY <1>b, <1>1 DEF EndOK
<1>4. \A x : ~In(x, <<>>)
  BY DEF In
<1>5. LinkOK(n, n, <<>>, {})
  BY <1>1, <1>4 DEF LinkOK, PipeOrdered, QueueOrdered, OnItsWay, VersionOut, VerackOut
<1>6. /\ \A i \in Conns, e \in Ends : ends[i][e] = n /\ pipe[i][e] = <<>> /\ shut[i] = {} /\ ends[i][Peer(e)] = n
      /\ points = [e \in Ends |-> {}]
  <2>1. \A e \in Ends : Peer(e) \in Ends
    BY PeerIsOther
  <2> QED
    BY <1>2, <2>1 DEF PSInit
<1>7. /\ ends \in [Conns -> [Ends -> Ending]] /\ pipe \in [Conns -> [Ends -> Seq(Frames)]]
      /\ shut \in [Conns -> SUBSET Ends]
      /\ points \in [Ends -> SUBSET {"PRE_HANDSHAKE_CONSENSUS", "HANDSHAKE_TIMEOUT"}]
  BY <1>1, <1>2 DEF PSInit
<1>8. SessionTypes
  BY <1>2, <1>6, <1>7 DEF SessionTypes, PSInit
<1>9. \A i \in Conns, e \in Ends : EndOK(ends[i][e]) /\ Linked(i, e)
  BY <1>3, <1>5, <1>6 DEF Linked
<1> QED
  BY <1>6, <1>8, <1>9 DEF SessionInv, HandshakeHarmless

LEMMA SessionNext ==
    ASSUME SessionInv, [PSNext]_psVars
    PROVE  SessionInv'
<1>1. CASE Dial
  BY <1>1, DialStep
<1>2. ASSUME NEW i \in Conns, Accept(i) \/ Break(i)
      PROVE  SessionInv'
  BY <1>2, AcceptStep, BreakKeeps
<1>3. ASSUME NEW i \in Conns, NEW e \in Ends,
             StarterStep(i, e) \/ WriterStep(i, e) \/ ReaderStep(i, e) \/ RequestTip(i, e)
      PROVE  SessionInv'
  BY <1>3, StarterKeeps, WriterKeeps, ReadKeeps, AnswerKeeps, ReadEndsKeeps, LeavesKeeps, RequestKeeps
     DEF ReaderStep
<1>4. ASSUME NEW e \in Ends, StartBroadcast(e)
      PROVE  SessionInv'
  BY <1>4, IdleKeeps DEF StartBroadcast
<1>5. ASSUME NEW e \in Ends, Broadcast(e)
      PROVE  SessionInv'
  BY <1>5, BroadcastKeeps
<1>6. CASE UNCHANGED psVars
  BY <1>6, IdleKeeps DEF psVars
<1> QED
  BY <1>1, <1>2, <1>3, <1>4, <1>5, <1>6 DEF PSNext

\* Two correct nodes with the same rules never score each other for a frame of the handshake or
\* one that came before its end, for any number of connections and any capacity of the queues.
THEOREM SessionsHarmless == PSSpec => []HandshakeHarmless
<1>1. PSInit => SessionInv
  BY SessionInit
<1>2. SessionInv /\ [PSNext]_psVars => SessionInv'
  BY SessionNext
<1>3. SessionInv => HandshakeHarmless
  BY DEF SessionInv, HandshakeHarmless
<1> QED
  BY <1>1, <1>2, <1>3, PTL DEF PSSpec
================================================================================
