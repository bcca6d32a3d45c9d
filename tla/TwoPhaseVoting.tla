--------------------------- MODULE TwoPhaseVoting ---------------------------
(* Two-phase voting of one height (node/node_consensus.cpp, the proposer    *)
(* and timer part of node/node.cpp's event loop, and the safety-state part  *)
(* of node/node_state.cpp).                                                 *)
(*                                                                          *)
(* Messages are what has been signed: a node may have received any subset   *)
(* of it, in any order, any number of times.  Faulty members count as       *)
(* having signed everything.  The vote trackers that hold what one node did *)
(* receive are not part of this model.  The signed votes are the state of   *)
(* VotingRules, which this module implements.                               *)
(*                                                                          *)
(* A definition marked "Slip" is no part of the specification: it is the    *)
(* next definition with a mistake in it, for checking that a property would *)
(* notice that mistake in the code.                                         *)
EXTENDS VotingRules

CONSTANTS
    transition_round,   \* the round each transition was built in
    leader,             \* leader_for_height_round(h, r)
    MaxResets,          \* bound: restarts and peer-loss resets, over all nodes
    MaxCandidates,      \* kMaxCandidateBlocks
    WriteFailures,      \* how a failing write can end: "lost", "replayed"
    None

NoRound == -1

ASSUME VotingAssumption ==
    /\ MaxResets \in Nat
    /\ MaxCandidates \in Nat
    /\ WriteFailures \subseteq {"lost", "replayed"}
    /\ transition_round \in [Transitions -> Rounds]
    /\ leader \in [Rounds -> Members]
    /\ None \notin Transitions

VARIABLES
    current_round,              \* per node, in memory
    local_vote_reservations,    \* rounds precommitted since the last reset
    local_timed_out_rounds,     \* rounds this process signed a timeout vote in
    candidates,                 \* candidate_frontier_proposals_: bodies held
    building,                   \* the proposal selected, not yet signed
    proposed_in_round,
    highest_tc,                 \* round of the best timeout certificate held
    store,                      \* the safety row: in memory, on disk, write-fenced
    proposals,                  \* PROPOSE messages signed by honest leaders
    timeouts,                   \* per honest node: the timeout votes it has signed
    resets

volatile == <<current_round, local_vote_reservations, local_timed_out_rounds,
              candidates, building, proposed_in_round, highest_tc>>
vars == <<volatile, store, proposals, prevotes, precommits, timeouts, resets>>

\* A selected proposal: its round, its transition, its polka's round.
Builds == [round : Rounds, id : Transitions, pol : Rounds \cup {NoRound}]
NoBuild == [round |-> NoRound, id |-> None, pol |-> NoRound]

---------------------------------------------------------------------------
(* The durable row of a height: ConsensusSafetyState, the quarantine mark   *)
(* and the finalized transition, all written by atomic durable batches.     *)

NoPoint == [id |-> None, round |-> NoRound]
VotePoint == [id : Transitions, round : Rounds] \cup {NoPoint}

SafetyRow == [lock : VotePoint,
              valid : VotePoint,
              prevotes : [Rounds -> Transitions \cup {None}],
              abstain : BOOLEAN,
              final : Transitions \cup {None}]

\* The row as a node holds it: in memory, on disk, a write has failed.
Stores == [mem : SafetyRow, disk : SafetyRow, failed : BOOLEAN]

EmptyRow == [lock |-> NoPoint, valid |-> NoPoint,
             prevotes |-> [r \in Rounds |-> None],
             abstain |-> FALSE, final |-> None]

\* The batch of a finalization records the transition and clears the rest.
FinalRow(id) == [EmptyRow EXCEPT !.final = id]

\* Slip: published before the write is known to be durable.
PublishFirst(s, row, outcome) ==
    CASE outcome = "durable"  -> [mem |-> row, disk |-> row, failed |-> FALSE]
      [] outcome = "lost"     -> [s EXCEPT !.mem = row, !.failed = TRUE]
      [] outcome = "replayed" -> [mem |-> row, disk |-> row, failed |-> TRUE]

\* write_batch_durable, then publish in memory.  A failed write is lost, or is
\* replayed when the database is reopened; either way it fences the database
\* and stops all signing until the process restarts.
Persist(s, row, outcome) ==
    IF s.failed THEN s
    ELSE CASE outcome = "durable"  -> [mem |-> row, disk |-> row, failed |-> FALSE]
           [] outcome = "lost"     -> [s EXCEPT !.failed = TRUE]
           [] outcome = "replayed" -> [s EXCEPT !.disk = row, !.failed = TRUE]

\* Slip: no vote-round floor.
NoVoteFloor(row, r) == FALSE

\* The highest round this row shows a vote in.
BelowVoteFloor(row, r) ==
    \/ r < row.lock.round
    \/ \E q \in Rounds : q > r /\ row.prevotes[q] # None

CanPrevote(row, id, pol) ==
    /\ ~row.abstain
    /\ \/ row.lock = NoPoint
       \/ row.lock.id = id
       \/ pol # NoRound /\ row.lock.round <= pol

\* At the height, voting: not stopped by a failed write, not final.
Open(p) == ~store[p].failed /\ store[p].mem.final = None

---------------------------------------------------------------------------
(* Certificates that can be assembled from what has been signed.            *)

HasTimeoutCertificate(r) == IsQuorum({q \in Honest : r \in timeouts[q]} \cup Faulty)

\* f + 1 members whose latest timeout vote is for round r or a later one
RoundReachedByTimeouts(r) ==
    FPlusOne({q \in Honest : \E t \in timeouts[q] : t >= r} \cup Faulty)

vote_round_covers_transition(r, id) == r >= transition_round[id]

---------------------------------------------------------------------------
(* Handlers as functions of the safety row, so that one call can be part of *)
(* another.  A call makes at most one failing write: w names it.            *)

Writes(kinds) ==
    {[at |-> "none", outcome |-> "durable"]}
        \cup [at : kinds, outcome : WriteFailures]

Outcome(w, kind) == IF w.at = kind THEN w.outcome ELSE "durable"

ValidValueStored(s, id, r, w) ==
    IF r > s.mem.valid.round
    THEN Persist(s, [s.mem EXCEPT !.valid = [id |-> id, round |-> r]], Outcome(w, "valid"))
    ELSE s

lock_on_polka(s, id, r, w) ==
    IF r > s.mem.lock.round
    THEN Persist(s, [s.mem EXCEPT !.lock = [id |-> id, round |-> r]], Outcome(w, "lock"))
    ELSE s

record_local_prevote(s, id, r, w) ==
    Persist(s, [s.mem EXCEPT !.prevotes[r] = id], Outcome(w, "prevote"))

\* The prevote that a durable record lets out.
RecordedVote(s, id, r) == IF s.failed THEN {} ELSE {<<r, id>>}

FinalStored(s, id, w) == Persist(s, FinalRow(id), Outcome(w, "final"))

MayPrecommit(p, s, r, round) ==
    /\ ~s.failed
    /\ r = round
    /\ r \notin local_vote_reservations[p]
    /\ r \notin local_timed_out_rounds[p]
    /\ ~BelowVoteFloor(s.mem, r)
    /\ ~s.mem.abstain

\* The safety row a call leaves behind and the votes it signs.
Outcomes(s, pre, com) == [store |-> s, prevotes |-> pre, precommits |-> com]

\* Slip: signed whether or not the lock is durable.
UnlockedVote(s, id, r) == {<<r, id>>}

\* The precommit that a durable lock on (id, r) lets out.
LockedVote(s, id, r) ==
    IF ~s.failed /\ s.mem.lock = [id |-> id, round |-> r] THEN {<<r, id>>} ELSE {}

\* on_prevotes_changed_locked, once the polka is assembled and the body held.
\* ready: the slice's certified ingress is held and checked.
OnPolka(p, s, id, r, round, ready, w) ==
    LET valued == ValidValueStored(s, id, r, w)
        locked == lock_on_polka(valued, id, r, w)
    IN  IF ready /\ MayPrecommit(p, valued, r, round)
        THEN Outcomes(locked, {}, LockedVote(locked, id, r))
        ELSE Outcomes(valued, {}, {})

RoundsOf(cast) == {v[1] : v \in cast}

\* What a handler did to the row and to the signed votes of p.
Commit(p, out) ==
    /\ store' = [store EXCEPT ![p] = out.store]
    /\ prevotes' = [prevotes EXCEPT ![p] = @ \cup out.prevotes]
    /\ precommits' = [precommits EXCEPT ![p] = @ \cup out.precommits]

\* A finalization forgets everything in memory about the height.
ForgetHeight(p) ==
    /\ current_round' = [current_round EXCEPT ![p] = 0]
    /\ local_vote_reservations' = [local_vote_reservations EXCEPT ![p] = {}]
    /\ local_timed_out_rounds' = [local_timed_out_rounds EXCEPT ![p] = {}]
    /\ candidates' = [candidates EXCEPT ![p] = {}]
    /\ building' = [building EXCEPT ![p] = NoBuild]
    /\ proposed_in_round' = [proposed_in_round EXCEPT ![p] = {}]
    /\ highest_tc' = [highest_tc EXCEPT ![p] = NoRound]

---------------------------------------------------------------------------
(* Proposing.                                                               *)

ProposeMsg == [round : Rounds, id : Transitions,
               pol : Rounds \cup {NoRound}, tc : Rounds \cup {NoRound}]

\* A proposal is fresh in its round, or the valid value with its polka.
ShapeOk(m) ==
    IF m.pol # NoRound
    THEN transition_round[m.id] <= m.pol /\ m.pol < m.round
    ELSE transition_round[m.id] = m.round

Justified(m) ==
    /\ m.round > 0 => m.pol # NoRound \/ m.tc # NoRound
    /\ m.pol # NoRound => HasPolka(m.pol, m.id)
    /\ m.tc # NoRound => m.tc < m.round /\ HasTimeoutCertificate(m.tc)

\* What the leader of its round can have signed.
FaultyProposals == {m \in ProposeMsg : leader[m.round] \in Faulty /\ ShapeOk(m)}
Deliverable == proposals \cup FaultyProposals

Reproposes(p) ==
    /\ store[p].mem.valid # NoPoint
    /\ store[p].mem.valid.round < current_round[p]
    /\ store[p].mem.valid.id \in candidates[p]

RoundJustificationReady(p) ==
    \/ current_round[p] = 0
    \/ store[p].mem.valid # NoPoint
    \/ highest_tc[p] # NoRound /\ highest_tc[p] < current_round[p]

\* The event loop of the round's leader selects what to propose: the valid
\* value with its polka, or a transition built in this round.
BuildProposal(p) ==
    LET r == current_round[p]
    IN  /\ Open(p)
        /\ building[p] = NoBuild
        /\ leader[r] = p
        /\ r \notin proposed_in_round[p]
        /\ ~store[p].mem.abstain
        /\ RoundJustificationReady(p)
        /\ \E id \in Transitions :
              /\ IF Reproposes(p) THEN id = store[p].mem.valid.id
                                  ELSE transition_round[id] = r
              /\ building' = [building EXCEPT ![p] =
                    [round |-> r, id |-> id,
                     pol |-> IF Reproposes(p) THEN store[p].mem.valid.round ELSE NoRound]]
        /\ UNCHANGED <<current_round, local_vote_reservations, local_timed_out_rounds,
                       candidates, proposed_in_round, highest_tc, store, proposals,
                       prevotes, precommits, timeouts, resets>>

\* The lock was released since: the proposal is signed and sent only if the
\* node is still at that height and round and has not proposed in it.
SendProposal(p) ==
    LET b == building[p]
        sent == /\ Open(p)
                /\ current_round[p] = b.round
                /\ b.round \notin proposed_in_round[p]
    IN  /\ b # NoBuild
        /\ building' = [building EXCEPT ![p] = NoBuild]
        /\ IF sent
           THEN /\ proposed_in_round' = [proposed_in_round EXCEPT ![p] = @ \cup {b.round}]
                /\ candidates' = [candidates EXCEPT ![p] = @ \cup {b.id}]
                /\ proposals' = proposals \cup
                      {[round |-> b.round, id |-> b.id, pol |-> b.pol,
                        tc |-> IF b.round > 0 THEN highest_tc[p] ELSE NoRound]}
           ELSE UNCHANGED <<proposed_in_round, candidates, proposals>>
        /\ UNCHANGED <<current_round, local_vote_reservations, local_timed_out_rounds,
                       highest_tc, store, prevotes, precommits, timeouts, resets>>

\* handle_propose_result up to the candidate cache.
Acceptable(p, m) ==
    /\ Open(p)
    /\ m.round >= current_round[p]
    /\ ShapeOk(m)
    /\ Justified(m)

CacheFull(p, m) ==
    /\ m.id \notin candidates[p]
    /\ Cardinality(candidates[p]) >= MaxCandidates

\* The cache holds no more bodies: the proposal moves the round, nothing else.
HandleProposeCacheFull(p, m) ==
    /\ Acceptable(p, m)
    /\ CacheFull(p, m)
    /\ current_round' = [current_round EXCEPT ![p] = m.round]
    /\ UNCHANGED <<local_vote_reservations, local_timed_out_rounds, candidates, building,
                   proposed_in_round, highest_tc, store, proposals, prevotes,
                   precommits, timeouts, resets>>

\* The rounds on_candidate_body_locked looks for certificates in.
CoveredRounds(m) == transition_round[m.id] .. m.round
PolkaRounds(m) == {r \in CoveredRounds(m) : HasPolka(r, m.id)}
QuorumRounds(m) == {r \in CoveredRounds(m) : HasPrecommitQuorum(r, m.id)}

\* on_candidate_body_locked: polkas and precommit quorums that waited for the
\* body are acted on.  polka: the highest polka this node holds; quorum: the
\* precommit round that finalizes; NoRound for none.
OnCandidateBody(p, m, polka, quorum, ready, w) ==
    LET out == IF polka = NoRound THEN Outcomes(store[p], {}, {})
               ELSE OnPolka(p, store[p], m.id, polka, m.round, ready, w)
    IN  IF quorum = NoRound THEN out
        ELSE Outcomes(FinalStored(out.store, m.id, w), {}, out.precommits)

MayPrevote(p, s, m) ==
    /\ ~s.failed
    /\ s.mem.final = None
    /\ s.mem.prevotes[m.round] = None
    /\ m.round \notin local_timed_out_rounds[p]
    /\ ~BelowVoteFloor(s.mem, m.round)
    /\ CanPrevote(s.mem, m.id, m.pol)

\* The node's own prevote, durable before it is sent.
OnProposal(p, m, polka, quorum, ready, w) ==
    LET out == OnCandidateBody(p, m, polka, quorum, ready, w)
        voted == record_local_prevote(out.store, m.id, m.round, w)
    IN  IF ready /\ MayPrevote(p, out.store, m)
        THEN Outcomes(voted, RecordedVote(voted, m.id, m.round), out.precommits)
        ELSE out

\* What the handler leaves of p, given what on_candidate_body_locked found.
AcceptProposal(p, m, out) ==
    /\ Commit(p, out)
    /\ IF out.store.mem.final # None
       THEN ForgetHeight(p)
       ELSE /\ current_round' = [current_round EXCEPT ![p] = m.round]
            /\ candidates' = [candidates EXCEPT ![p] = @ \cup {m.id}]
            /\ local_vote_reservations' =
                   [local_vote_reservations EXCEPT ![p] = @ \cup RoundsOf(out.precommits)]
            /\ UNCHANGED <<local_timed_out_rounds, building, proposed_in_round, highest_tc>>
    /\ UNCHANGED <<proposals, timeouts, resets>>

\* handle_propose_result.
HandlePropose(p, m) ==
    /\ Acceptable(p, m)
    /\ ~CacheFull(p, m)
    /\ \E polka \in PolkaRounds(m) \cup {NoRound}, quorum \in QuorumRounds(m) \cup {NoRound},
          ready \in BOOLEAN, w \in Writes({"valid", "lock", "prevote", "final"}) :
          /\ quorum # NoRound => polka <= quorum
          /\ AcceptProposal(p, m, OnProposal(p, m, polka, quorum, ready, w))

---------------------------------------------------------------------------
(* Votes.                                                                   *)

\* handle_prevote_result: the prevote that completes a polka.
HandlePrevote(p, id, r, ready, w) ==
    LET out == OnPolka(p, store[p], id, r, current_round[p], ready, w)
    IN  /\ Open(p)
        /\ r <= current_round[p]
        /\ id \in candidates[p]
        /\ vote_round_covers_transition(r, id)
        /\ HasPolka(r, id)
        /\ Commit(p, out)
        /\ local_vote_reservations' =
               [local_vote_reservations EXCEPT ![p] = @ \cup RoundsOf(out.precommits)]
        /\ UNCHANGED <<current_round, local_timed_out_rounds, candidates, building,
                       proposed_in_round, highest_tc, proposals, timeouts, resets>>

\* apply_finalized_frontier_effects_locked: one durable batch, then the memory.
ApplyFinalized(p, id, w) ==
    /\ Commit(p, Outcomes(FinalStored(store[p], id, w), {}, {}))
    /\ IF store'[p].failed THEN UNCHANGED volatile ELSE ForgetHeight(p)
    /\ UNCHANGED <<proposals, timeouts, resets>>

\* handle_vote_result: the precommit that completes a quorum, body held.
HandleVote(p, id, r, w) ==
    /\ Open(p)
    /\ r <= current_round[p]
    /\ id \in candidates[p]
    /\ vote_round_covers_transition(r, id)
    /\ HasPrecommitQuorum(r, id)
    /\ ApplyFinalized(p, id, w)

\* handle_frontier_block_locked: a transition delivered with its certificate.
HandleFrontierBlock(p, id, r, w) ==
    /\ Open(p)
    /\ vote_round_covers_transition(r, id)
    /\ HasPrecommitQuorum(r, id)
    /\ ApplyFinalized(p, id, w)

\* local_votes_for_rebroadcast_locked: own votes are signed again from memory.
OwnPrevotes(row) == {<<r, row.prevotes[r]>> : r \in {q \in Rounds : row.prevotes[q] # None}}
OwnPrecommits(row) == IF row.lock = NoPoint THEN {} ELSE {<<row.lock.round, row.lock.id>>}

Rebroadcast(p) ==
    /\ Open(p)
    /\ building[p] = NoBuild        \* the same thread builds proposals
    /\ prevotes' = [prevotes EXCEPT ![p] = @ \cup OwnPrevotes(store[p].mem)]
    /\ precommits' = [precommits EXCEPT ![p] = @ \cup OwnPrecommits(store[p].mem)]
    /\ timeouts' = [timeouts EXCEPT ![p] = @ \cup local_timed_out_rounds[p]]
    /\ UNCHANGED <<volatile, store, proposals, resets>>

---------------------------------------------------------------------------
(* Rounds.                                                                  *)

\* The round timer of the event loop expires: a timeout vote, at most once.
TimeoutVote(p) ==
    LET r == current_round[p]
    IN  /\ Open(p)
        /\ building[p] = NoBuild    \* the same thread builds proposals
        /\ ~store[p].mem.abstain
        /\ r \notin local_timed_out_rounds[p]
        /\ local_timed_out_rounds' = [local_timed_out_rounds EXCEPT ![p] = @ \cup {r}]
        /\ timeouts' = [timeouts EXCEPT ![p] = @ \cup {r}]
        /\ UNCHANGED <<current_round, local_vote_reservations, candidates, building,
                       proposed_in_round, highest_tc, store, proposals, prevotes, precommits, resets>>

\* maybe_record_timeout_certificate_locked
RecordTimeoutCertificate(p, r) ==
    /\ Open(p)
    /\ r < MaxRound
    /\ r > highest_tc[p]
    /\ HasTimeoutCertificate(r)
    /\ highest_tc' = [highest_tc EXCEPT ![p] = r]
    /\ current_round' = [current_round EXCEPT ![p] = IF @ <= r THEN r + 1 ELSE @]
    /\ UNCHANGED <<local_vote_reservations, local_timed_out_rounds, candidates,
                   building, proposed_in_round, store, proposals, prevotes, precommits,
                   timeouts, resets>>

\* maybe_catch_up_round_from_timeout_votes_locked
CatchUpRound(p, r) ==
    /\ Open(p)
    /\ r > current_round[p]
    /\ RoundReachedByTimeouts(r)
    /\ current_round' = [current_round EXCEPT ![p] = r]
    /\ UNCHANGED <<local_vote_reservations, local_timed_out_rounds, candidates,
                   building, proposed_in_round, highest_tc, store, proposals, prevotes,
                   precommits, timeouts, resets>>

---------------------------------------------------------------------------
(* Resets and restarts.                                                     *)

\* reseed_local_votes_locked: own votes go back to the cleared trackers, and
\* the lock's round is reserved again.
Reseed(p, row) ==
    /\ prevotes' = [prevotes EXCEPT ![p] = @ \cup OwnPrevotes(row)]
    /\ precommits' = [precommits EXCEPT ![p] = @ \cup OwnPrecommits(row)]
    /\ local_vote_reservations' =
           [local_vote_reservations EXCEPT ![p] = RoundsOf(OwnPrecommits(row))]
    /\ proposed_in_round' = [proposed_in_round EXCEPT ![p] = {}]
    /\ current_round' = [current_round EXCEPT ![p] = 0]

\* All peers lost, or the first one back: the round starts again from 0.
PeerLossReset(p) ==
    /\ Open(p)
    /\ resets < MaxResets
    /\ resets' = resets + 1
    /\ Reseed(p, store[p].mem)
    /\ UNCHANGED <<local_timed_out_rounds, candidates, building, highest_tc, store,
                   proposals, timeouts>>

\* start(), load_state(): memory is what the disk holds.
StartFrom(p, row) ==
    /\ resets < MaxResets
    /\ resets' = resets + 1
    /\ store' = [store EXCEPT ![p] = [mem |-> row, disk |-> row, failed |-> FALSE]]
    /\ Reseed(p, row)
    /\ local_timed_out_rounds' = [local_timed_out_rounds EXCEPT ![p] = {}]
    /\ candidates' = [candidates EXCEPT ![p] = IF row.valid = NoPoint THEN {}
                                                ELSE {row.valid.id}]
    /\ building' = [building EXCEPT ![p] = NoBuild]
    /\ highest_tc' = [highest_tc EXCEPT ![p] = NoRound]
    /\ UNCHANGED <<proposals, timeouts>>

\* Slip: the lock is not restored.
RestartWithoutLock(p) == StartFrom(p, [store[p].disk EXCEPT !.lock = NoPoint])

Restart(p) == StartFrom(p, store[p].disk)

\* Slip: a damaged row is taken for an empty one.
RestartEmpty(p) ==
    /\ store[p].disk.final = None
    /\ store[p].disk # EmptyRow
    /\ StartFrom(p, EmptyRow)

\* Both copies of a row that was written are unreadable, disagree or are
\* missing: the height is quarantined and this node abstains at it.
RestartWithDamage(p) ==
    /\ store[p].disk.final = None
    /\ store[p].disk # EmptyRow
    /\ StartFrom(p, [EmptyRow EXCEPT !.abstain = TRUE])

---------------------------------------------------------------------------
Init ==
    /\ current_round = [p \in Honest |-> 0]
    /\ local_vote_reservations = [p \in Honest |-> {}]
    /\ local_timed_out_rounds = [p \in Honest |-> {}]
    /\ candidates = [p \in Honest |-> {}]
    /\ building = [p \in Honest |-> NoBuild]
    /\ proposed_in_round = [p \in Honest |-> {}]
    /\ highest_tc = [p \in Honest |-> NoRound]
    /\ store = [p \in Honest |-> [mem |-> EmptyRow, disk |-> EmptyRow, failed |-> FALSE]]
    /\ proposals = {}
    /\ prevotes = [p \in Honest |-> {}]
    /\ precommits = [p \in Honest |-> {}]
    /\ timeouts = [p \in Honest |-> {}]
    /\ resets = 0

Proposing(p) ==
    \/ BuildProposal(p)
    \/ SendProposal(p)
    \/ \E m \in Deliverable : HandleProposeCacheFull(p, m) \/ HandlePropose(p, m)

Voting(p) ==
    \E id \in Transitions, r \in Rounds :
        \/ \E ready \in BOOLEAN, w \in Writes({"valid", "lock"}) :
              HandlePrevote(p, id, r, ready, w)
        \/ \E w \in Writes({"final"}) :
              HandleVote(p, id, r, w) \/ HandleFrontierBlock(p, id, r, w)

ChangingRound(p) ==
    \/ TimeoutVote(p)
    \/ \E r \in Rounds : RecordTimeoutCertificate(p, r) \/ CatchUpRound(p, r)

Next ==
    \E p \in Honest :
        \/ Proposing(p)
        \/ Voting(p)
        \/ ChangingRound(p)
        \/ Rebroadcast(p)
        \/ PeerLossReset(p)
        \/ Restart(p)
        \/ RestartWithDamage(p)

Spec == Init /\ [][Next]_vars
---------------------------------------------------------------------------
(* Properties.                                                              *)

\* Type invariant of the node state and of the signed messages.
TypeOK ==
    /\ current_round \in [Honest -> Rounds]
    /\ local_vote_reservations \in [Honest -> SUBSET Rounds]
    /\ local_timed_out_rounds \in [Honest -> SUBSET Rounds]
    /\ candidates \in [Honest -> SUBSET Transitions]
    /\ building \in [Honest -> Builds \cup {NoBuild}]
    /\ proposed_in_round \in [Honest -> SUBSET Rounds]
    /\ highest_tc \in [Honest -> Rounds \cup {NoRound}]
    /\ store \in [Honest -> Stores]
    /\ proposals \subseteq ProposeMsg
    /\ prevotes \in [Honest -> Votes]
    /\ precommits \in [Honest -> Votes]
    /\ timeouts \in [Honest -> SUBSET Rounds]
    /\ resets \in Nat

finalized == [p \in Honest |-> store[p].mem.final]

\* At most one transition finalizes at a height: two honest nodes never finalize
\* different ones, through resets, restarts, failed writes and lost rows.
Agreement ==
    \A p, q \in Honest :
        finalized[p] # None /\ finalized[q] # None => finalized[p] = finalized[q]

\* Nothing is forgotten: while a node can vote at the height, the row on its disk
\* holds every prevote it has signed and a lock at or above every precommit.
SignedVotesAreDurable ==
    \A p \in Honest :
        store[p].disk.final = None /\ ~store[p].disk.abstain =>
            /\ \A v \in prevotes[p] : store[p].disk.prevotes[v[1]] = v[2]
            /\ \A v \in precommits[p] :
                  \/ store[p].disk.lock.round > v[1]
                  \/ store[p].disk.lock = [id |-> v[2], round |-> v[1]]

\* The lock a vote was cast under is released by finalization or quarantine only,
\* and otherwise moves to a later round that has a polka.
LockMovesForward ==
    [][\A p \in Honest :
          LET old == store[p].disk.lock
              new == store'[p].disk.lock
          IN  new # old =>
                 \/ store'[p].disk.final # None
                 \/ store'[p].disk.abstain
                 \/ new.round > old.round /\ HasPolka(new.round, new.id)]_vars

\* The height implements the abstract finality of HeightFinality.
Finality == INSTANCE HeightFinality
                WITH Nodes <- Honest, Values <- Transitions, final <- finalized
FinalityRefined == Finality!FinalitySpec

---------------------------------------------------------------------------
(* The inductive invariant that ties the rows to the signed votes.          *)

AsVote(point) == <<point.round, point.id>>

RowWellFormed(row) ==
    row.abstain \/ row.final # None =>
        row.lock = NoPoint /\ \A r \in Rounds : row.prevotes[r] = None

\* The row holds the signed prevotes, and a lock at or above every precommit.
RowCovers(row, pre, com) ==
    /\ \A u \in pre : row.prevotes[u[1]] = u[2]
    /\ \A v \in com : row.lock.round > v[1] \/ v = AsVote(row.lock)

\* Everything in the row has been signed.
RowSigned(row, pre, com) ==
    OwnPrevotes(row) \subseteq pre /\ OwnPrecommits(row) \subseteq com

\* The row holds one vote that was not signed, and that may still be signed.
RowAhead(row, pre, com) ==
    \/ \E r \in Rounds, id \in Transitions :
          /\ MaySignPrevote(pre, com, r, id)
          /\ row.prevotes[r] = id
          /\ OwnPrevotes(row) \subseteq pre \cup {<<r, id>>}
          /\ OwnPrecommits(row) \subseteq com
    \/ /\ row.lock # NoPoint
       /\ MaySignPrecommit(pre, com, row.lock.round, row.lock.id)
       /\ OwnPrevotes(row) \subseteq pre

\* A node with store s that has signed pre and com.  Memory is what the disk
\* holds, unless a write failed; then the disk may be one vote ahead.
Backed(s, pre, com) ==
    /\ RowWellFormed(s.disk)
    /\ IF s.failed THEN s.mem.final = None ELSE s.mem = s.disk
    /\ s.disk.final = None /\ ~s.disk.abstain =>
          /\ RowCovers(s.disk, pre, com)
          /\ RowSigned(s.disk, pre, com) \/ (s.failed /\ RowAhead(s.disk, pre, com))

StoreMatchesVotes == \A p \in Honest : Backed(store[p], prevotes[p], precommits[p])

\* A node that finalized, in memory or on disk, did so on a precommit quorum.
FinalsHaveCertificates ==
    \A p \in Honest : \A id \in Transitions :
        id \in {store[p].mem.final, store[p].disk.final} =>
            \E r \in Rounds : HasPrecommitQuorum(r, id)

\* What a node has signed is backed by its safety row (stage-then-publish of
\* record_local_prevote_locked and lock_on_polka_locked), through failed writes,
\* resets and restarts, and what it finalized is backed by a certificate.
VotingInv == TypeOK /\ StoreMatchesVotes /\ FinalsHaveCertificates
=============================================================================
