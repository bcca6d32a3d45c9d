---------------------------- MODULE TimeoutVotes ----------------------------
(* consensus::TimeoutVoteTracker for one height: the latest round of every  *)
(* member, and the timeout votes held of a sliding window of rounds.        *)
EXTENDS CommitteeQuorum, Integers

CONSTANTS
    MaxRound,           \* bound: the rounds explored are 0..MaxRound
    MaxRoundsHeld       \* Limits::max_rounds_per_height

ASSUME TrackerAssumption == MaxRound \in Nat /\ MaxRoundsHeld \in Nat \ {0}

Rounds == 0 .. MaxRound
NoRound == -1

Trackers == [last : [Members -> Rounds \cup {NoRound}],     \* last_vote_by_validator_
             held : SUBSET (Rounds \X Members)]             \* by_round_

EmptyTracker == [last |-> [q \in Members |-> NoRound], held |-> {}]

signatures_for(t, r) == {q \in Members : <<r, q>> \in t.held}

RoundsHeld(t) == {v[1] : v \in t.held}
IsOldest(t, r) == r \in RoundsHeld(t) /\ \A s \in RoundsHeld(t) : r <= s
WindowFull(t, r) ==
    /\ r \notin RoundsHeld(t)
    /\ Cardinality(RoundsHeld(t)) >= MaxRoundsHeld

\* Accepted: newer than the member's latest vote, not older than a full window.
Accepts(t, q, r) ==
    /\ r > t.last[q]
    /\ ~(WindowFull(t, r) /\ \A s \in RoundsHeld(t) : r < s)

\* add_vote of an accepted vote: a full window loses its oldest round.
add_vote(t, q, r) ==
    [last |-> [t.last EXCEPT ![q] = r],
     held |-> {<<r, q>>} \cup
                 {v \in t.held : ~(WindowFull(t, r) /\ IsOldest(t, v[1]))}]

\* The round of a vote too far ahead to hold.
note_latest_round(t, q, r) ==
    IF r > t.last[q] THEN [t EXCEPT !.last[q] = r] ELSE t

\* Members whose latest vote is for round r or a later one.
Reached(t, r) == {q \in Members : t.last[q] >= r}
=============================================================================
