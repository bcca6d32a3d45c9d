----------------------------- MODULE RoundSync -----------------------------
(* How the members of a committee move through the rounds of a height that  *)
(* does not finalize: the round timer and stalled re-gossip of node.cpp's   *)
(* event loop, handle_timeout_vote_result and what it calls, a justified    *)
(* proposal, and the resets on peer loss, reconnection and restart.         *)
(*                                                                          *)
(* Prevotes, precommits and finality are TwoPhaseVoting's.  Faulty members  *)
(* may sign a timeout vote for any round at any time.                       *)
EXTENDS TimeoutVotes

CONSTANTS
    leader,             \* leader_for_height_round(h, r)
    Running,            \* the honest members whose node is up
    RoundWindow,        \* kProposalRoundWindow
    RegossipRounds,     \* kRounds of local_votes_for_rebroadcast_locked
    Timely,             \* every re-gossip arrives before the next timer expires
    MaxPeerLosses,      \* bound: peer losses, over all nodes
    MaxRestarts         \* bound: restarts, over all nodes

ASSUME SyncAssumption ==
    /\ leader \in [Rounds -> Members]
    /\ Running \subseteq Honest
    /\ RoundWindow \in Nat
    /\ RoundWindow < MaxRoundsHeld
    /\ RegossipRounds \in Nat \ {0}
    /\ Timely \in BOOLEAN
    /\ MaxPeerLosses \in Nat
    /\ MaxRestarts \in Nat

VARIABLES
    current_round,      \* per honest node, in memory
    timed_out,          \* local_timed_out_rounds_
    reserved,           \* local_timeout_vote_reservations_
    highest_tc,         \* round of highest_tc_by_height_
    tracker,            \* timeout_votes_
    seen,               \* votes from before the last reset that are still
                        \* remembered in seen_timeout_vote_messages_ms_
    peered,             \* some peer is established
    timeouts,           \* per honest node: the timeout votes it has ever signed
    losses, restarts    \* disruptions so far

memory == <<current_round, timed_out, reserved, highest_tc, tracker, seen>>
vars == <<memory, peered, timeouts, losses, restarts>>

---------------------------------------------------------------------------
\* A timeout certificate can be assembled from what has been signed.
HasTimeoutCertificate(r) == IsQuorum({q \in Honest : r \in timeouts[q]} \cup Faulty)

\* Slip: some member instead of f + 1.
ReachedByOne(t, r) == Reached(t, r) # {}

ReachedByEnough(t, r) == FPlusOne(Reached(t, r))

\* Slip: no catch-up, certificates only.
NoCatchUp(t, r) == r

\* maybe_catch_up_round_from_timeout_votes_locked: the highest round f + 1
\* members have reached, if it is ahead of round r.
CatchUp(t, r) ==
    IF \E s \in Rounds : s > r /\ ReachedByEnough(t, s)
    THEN CHOOSE s \in Rounds : /\ ReachedByEnough(t, s)
                               /\ \A u \in Rounds : ReachedByEnough(t, u) => u <= s
    ELSE r

\* Slip: the certificate does not end its round.
TcWithoutAdvance(p, r) == [tc |-> r, round |-> current_round[p]]

\* maybe_record_timeout_certificate_locked of a certificate above the highest.
TcAdvance(p, r) ==
    [tc |-> r, round |-> IF current_round[p] <= r THEN r + 1 ELSE current_round[p]]

\* The same, in tracker t of node p, for round r.  The round after the bound is
\* not explored.
RecordTimeoutCertificate(p, t, r) ==
    IF IsQuorum(signatures_for(t, r)) /\ r > highest_tc[p] /\ r < MaxRound
    THEN TcAdvance(p, r)
    ELSE [tc |-> highest_tc[p], round |-> current_round[p]]

\* An accepted vote for round r left tracker t.
OnAccepted(p, t, r) ==
    LET after == RecordTimeoutCertificate(p, t, r)
    IN  /\ tracker' = [tracker EXCEPT ![p] = t]
        /\ highest_tc' = [highest_tc EXCEPT ![p] = after.tc]
        /\ current_round' = [current_round EXCEPT ![p] = CatchUp(t, after.round)]

\* The latest rounds that the stalled re-gossip sends again.
Regossiped(q) ==
    {r \in timed_out[q] : Cardinality({s \in timed_out[q] : s > r}) < RegossipRounds}

\* Slip: every vote is held, however far ahead.
NeverTooFarAhead(p, r) == FALSE

TooFarAhead(p, r) == r > current_round[p] + RoundWindow

\* Every established node has what p re-gossips: it took the vote, or drops it.
Delivered(p) ==
    \A q \in Running \ {p} : \A r \in Regossiped(p) :
        \/ ~peered[q]
        \/ tracker[q].last[p] >= r
        \/ <<p, r>> \in seen[q]
        \/ ~TooFarAhead(q, r) /\ ~Accepts(tracker[q], p, r)

\* The round timer expires: a timeout vote, once a round, also to oneself.
TimeoutVote(p) ==
    LET r == current_round[p]
    IN  /\ r \notin reserved[p]
        /\ Timely => Delivered(p)
        /\ reserved' = [reserved EXCEPT ![p] = @ \cup {r}]
        /\ timed_out' = [timed_out EXCEPT ![p] = @ \cup {r}]
        /\ timeouts' = [timeouts EXCEPT ![p] = @ \cup {r}]
        /\ IF Accepts(tracker[p], p, r)
           THEN OnAccepted(p, add_vote(tracker[p], p, r), r)
           ELSE UNCHANGED <<tracker, highest_tc, current_round>>
        /\ UNCHANGED <<seen, peered, losses, restarts>>

\* handle_timeout_vote_result of a vote too far ahead: its round is noted.
NoteVote(p, q, r) ==
    LET t == note_latest_round(tracker[p], q, r)
    IN  /\ TooFarAhead(p, r)
        /\ tracker' = [tracker EXCEPT ![p] = t]
        /\ current_round' = [current_round EXCEPT ![p] = CatchUp(t, @)]
        /\ UNCHANGED <<timed_out, reserved, highest_tc, seen>>

\* handle_timeout_vote_result of a vote from the network.  A message that is
\* still remembered is dropped.  (Until a reset empties the tracker, the tracker
\* itself rejects every vote whose message is remembered.)
HoldVote(p, q, r) ==
    /\ ~TooFarAhead(p, r)
    /\ <<q, r>> \notin seen[p]
    /\ Accepts(tracker[p], q, r)
    /\ OnAccepted(p, add_vote(tracker[p], q, r), r)
    /\ UNCHANGED <<timed_out, reserved, seen>>

\* Faulty members sign a timeout vote for any round.
SignedBy(q) == IF q \in Faulty THEN Rounds ELSE timeouts[q]

Receive(p, q, r) ==
    /\ p # q
    /\ peered[p]
    /\ r \in SignedBy(q)
    /\ NoteVote(p, q, r) \/ HoldVote(p, q, r)
    /\ UNCHANGED <<peered, timeouts, losses, restarts>>

ReceiveRegossip(p, q, r) ==
    /\ peered[q]
    /\ r \in Regossiped(q)
    /\ Receive(p, q, r)

\* A justified proposal of round r can reach a node.  pol: it re-proposes a valid
\* value with its polka, which justifies it without a timeout certificate.
ProposalJustified(r, pol) ==
    IF leader[r] \in Faulty
    THEN pol \/ \E t \in 0 .. r - 1 : HasTimeoutCertificate(t)
    ELSE /\ current_round[leader[r]] = r
         /\ \/ pol
            \/ highest_tc[leader[r]] # NoRound /\ highest_tc[leader[r]] < r

\* handle_propose_result: a justified proposal of a later round moves the node.
HandlePropose(p, r, pol) ==
    /\ peered[p]
    /\ r > current_round[p]
    /\ ProposalJustified(r, pol)
    /\ current_round' = [current_round EXCEPT ![p] = r]
    /\ UNCHANGED <<timed_out, reserved, highest_tc, tracker, seen, peered, timeouts,
                   losses, restarts>>

---------------------------------------------------------------------------
(* Disruptions.                                                             *)

\* The round state that a peer loss and a reconnection clear.  The timed-out
\* rounds, the highest certificate and the remembered messages are kept.
ResetRound(p) ==
    /\ current_round' = [current_round EXCEPT ![p] = 0]
    /\ reserved' = [reserved EXCEPT ![p] = {}]
    /\ tracker' = [tracker EXCEPT ![p] = EmptyTracker]
    /\ UNCHANGED <<timed_out, highest_tc>>

\* What the tracker of p holds of other members came in messages.  (Votes that it
\* refused are remembered too; the model lets those in again after a reset.)
Received(p) == {<<v[2], v[1]>> : v \in {u \in tracker[p].held : u[2] # p}}

\* The last peer is gone.  voted: a proposal or a vote of the round is held.
PeerLoss(p, voted) ==
    /\ peered[p]
    /\ losses < MaxPeerLosses
    /\ losses' = losses + 1
    /\ peered' = [peered EXCEPT ![p] = FALSE]
    /\ IF \/ voted
          \/ current_round[p] > 0
          \/ current_round[p] \in reserved[p]
          \/ signatures_for(tracker[p], current_round[p]) # {}
       THEN /\ ResetRound(p)
            /\ seen' = [seen EXCEPT ![p] = @ \cup Received(p)]
       ELSE UNCHANGED <<current_round, reserved, tracker, timed_out, highest_tc, seen>>
    /\ UNCHANGED <<timeouts, restarts>>

\* The first peer is back.  long: the outage outlasted the remembered messages.
Reconnect(p, long) ==
    /\ ~peered[p]
    /\ peered' = [peered EXCEPT ![p] = TRUE]
    /\ ResetRound(p)
    /\ seen' = [seen EXCEPT ![p] = IF long THEN {} ELSE @ \cup Received(p)]
    /\ UNCHANGED <<timeouts, losses, restarts>>

\* The process starts again: timeout votes and certificates were memory only.
Restart(p) ==
    /\ restarts < MaxRestarts
    /\ restarts' = restarts + 1
    /\ current_round' = [current_round EXCEPT ![p] = 0]
    /\ timed_out' = [timed_out EXCEPT ![p] = {}]
    /\ reserved' = [reserved EXCEPT ![p] = {}]
    /\ highest_tc' = [highest_tc EXCEPT ![p] = NoRound]
    /\ tracker' = [tracker EXCEPT ![p] = EmptyTracker]
    /\ seen' = [seen EXCEPT ![p] = {}]
    /\ peered' = [peered EXCEPT ![p] = TRUE]
    /\ UNCHANGED <<timeouts, losses>>

---------------------------------------------------------------------------
Init ==
    /\ current_round = [p \in Honest |-> 0]
    /\ timed_out = [p \in Honest |-> {}]
    /\ reserved = [p \in Honest |-> {}]
    /\ highest_tc = [p \in Honest |-> NoRound]
    /\ tracker = [p \in Honest |-> EmptyTracker]
    /\ seen = [p \in Honest |-> {}]
    /\ peered = [p \in Honest |-> TRUE]
    /\ timeouts = [p \in Honest |-> {}]
    /\ losses = 0
    /\ restarts = 0

Next ==
    \E p \in Running :
        \/ TimeoutVote(p)
        \/ \E q \in Members, r \in Rounds : Receive(p, q, r)
        \/ \E r \in Rounds, pol \in BOOLEAN : HandlePropose(p, r, pol)
        \/ \E voted \in BOOLEAN : PeerLoss(p, voted)
        \/ \E long \in BOOLEAN : Reconnect(p, long)
        \/ Restart(p)

Spec == Init /\ [][Next]_vars

\* What is sure to happen at node p: its event loop runs, its connections come
\* back, and what is re-gossiped over an established connection arrives.
NodeStep(p) ==
    \/ TimeoutVote(p)
    \/ \E long \in BOOLEAN : Reconnect(p, long)
    \/ \E q \in Honest, r \in Rounds : ReceiveRegossip(p, q, r)

\* Every step of a node uses up a timer, an outage or a message, so that none of
\* the three can keep the others away for ever.
Fairness == \A p \in Running : WF_vars(NodeStep(p))

---------------------------------------------------------------------------
(* Properties.                                                              *)

TypeOK ==
    /\ current_round \in [Honest -> Rounds]
    /\ timed_out \in [Honest -> SUBSET Rounds]
    /\ reserved \in [Honest -> SUBSET Rounds]
    /\ highest_tc \in [Honest -> Rounds \cup {NoRound}]
    /\ tracker \in [Honest -> Trackers]
    /\ seen \in [Honest -> SUBSET (Members \X Rounds)]
    /\ peered \in [Honest -> BOOLEAN]
    /\ timeouts \in [Honest -> SUBSET Rounds]
    /\ losses \in Nat
    /\ restarts \in Nat

\* Faulty members cannot drag honest nodes through the rounds: where no faulty
\* member leads, an honest node is past round 0 only behind a timeout
\* certificate, which honest members signed, of its round's predecessor or later.
RoundsFollowCertificates ==
    (\A r \in Rounds : leader[r] \in Honest) =>
        \A p \in Honest :
            current_round[p] > 0 =>
                \E t \in Rounds : t + 1 >= current_round[p] /\ HasTimeoutCertificate(t)

\* A flood of rounds never costs a node the timeout votes it holds of its current
\* round: only a reset or a restart drops them.
CurrentRoundKept ==
    [][\A p \in Honest :
          \/ \A v \in tracker[p].held : v[1] = current_round[p] => v \in tracker'[p].held
          \/ peered'[p] # peered[p]
          \/ restarts' # restarts]_vars

\* "On TC for (h, r): move to r + 1": a node never waits in a round for which it
\* holds a quorum of timeout votes (TWO_PHASE_FINALITY.md 3.3).
CertificateEndsRound ==
    \A p \in Honest :
        current_round[p] < MaxRound => ~IsQuorum(signatures_for(tracker[p], current_round[p]))

\* A round that does not finalize ends, for every node that is up: a certificate or
\* the f + 1 catch-up gets every one of them out of it (node.cpp, round timer).
RoundsEnd ==
    \A p \in Running : \A r \in 0 .. MaxRound - 1 :
        current_round[p] = r ~> current_round[p] > r
=============================================================================
