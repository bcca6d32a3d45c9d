-------------------------- MODULE RoundSyncProofs --------------------------
(* RoundsFollowCertificates, CurrentRoundKept and, until a peer loss,       *)
(* CertificateEndsRound, for every committee, every number of rounds,       *)
(* restarts and peer losses, and any window smaller than the number of      *)
(* rounds a tracker holds.                                                  *)
EXTENDS RoundSync, QuorumProofs, WellFoundedInduction

---------------------------------------------------------------------------
(* What is known of a set of signed timeout votes S, per honest member.     *)

\* Everything that tracker t has of honest members was signed.
Tracked(t, S) ==
    \A q \in Honest :
        /\ t.last[q] # NoRound => t.last[q] \in S[q]
        /\ \A r \in Rounds : <<r, q>> \in t.held => r \in S[q]

Certified(S, r) == IsQuorum({q \in Honest : r \in S[q]} \cup Faulty)

\* The predecessor of round r, or a later round, has a timeout certificate.
Past(S, r) == \E t \in Rounds : t + 1 >= r /\ Certified(S, t)

\* Honest members time out only of rounds that were entered behind one.
SignedBehind(S) == \A q \in Honest : \A r \in S[q] : r > 0 => Past(S, r)

Signatures == [Honest -> SUBSET Rounds]

HonestLeads == \A r \in Rounds : leader[r] \in Honest

\* The inductive invariant behind RoundsFollowCertificates.
FollowInv ==
    /\ TypeOK
    /\ \A p \in Honest : Tracked(tracker[p], timeouts)
    /\ HonestLeads =>
          /\ SignedBehind(timeouts)
          /\ \A p \in Honest : current_round[p] > 0 => Past(timeouts, current_round[p])

\* Nothing is held from beyond the window: behind CurrentRoundKept.
HeldInWindow ==
    \A p \in Honest : \A v \in tracker[p].held : v[1] <= current_round[p] + RoundWindow

---------------------------------------------------------------------------
\* Rounds are naturals, and a bounded non-empty set of them has a greatest one.
LEMMA GreatestRound ==
    ASSUME NEW T, T \subseteq Rounds, T # {}
    PROVE  \E s \in T : \A u \in T : u <= s
<1> DEFINE D == {MaxRound - u : u \in T}
<1>1. MaxRound \in Nat
  BY TrackerAssumption
<1>2. D \subseteq Nat /\ D # {}
  <2>1. \A u \in T : MaxRound - u \in Nat
    BY <1>1 DEF Rounds
  <2> QED
    BY <2>1, Zenon
<1>3. PICK d \in D : \A e \in D : ~(<<e, d>> \in OpToRel(<, Nat))
  BY <1>2, NatLessThanWellFounded, WFMin
<1>4. \A e \in D : ~(e < d)
  BY <1>2, <1>3 DEF OpToRel
<1>5. PICK s \in T : d = MaxRound - s
  BY <1>3
<1>6. ASSUME NEW u \in T
      PROVE  u <= s
  <2>1. ~(MaxRound - u < d)
    BY <1>4
  <2> QED
    BY <2>1, <1>1, <1>5 DEF Rounds
<1> QED
  BY <1>6

\* The catch-up stays, or goes up to a round that f + 1 members have reached.
LEMMA CatchUpRises ==
    ASSUME NEW t, NEW r \in Rounds
    PROVE  /\ CatchUp(t, r) \in Rounds
           /\ CatchUp(t, r) >= r
           /\ CatchUp(t, r) # r => ReachedByEnough(t, CatchUp(t, r))
<1> DEFINE T == {s \in Rounds : ReachedByEnough(t, s)}
           c == CatchUp(t, r)
<1>1. CASE \E s \in Rounds : s > r /\ ReachedByEnough(t, s)
  <2>1. PICK s \in T : s > r
    BY <1>1
  <2>2. \E g \in T : \A u \in T : u <= g
    <3> T \subseteq Rounds /\ T # {}
      BY <2>1
    <3> HIDE DEF T
    <3> QED
      BY GreatestRound
  <2>3. c \in T /\ \A u \in T : u <= c
    BY <1>1, <2>2 DEF CatchUp
  <2>4. c >= s
    BY <2>1, <2>3 DEF Rounds
  <2> QED
    BY <2>1, <2>3, <2>4 DEF Rounds
<1>2. CASE ~\E s \in Rounds : s > r /\ ReachedByEnough(t, s)
  BY <1>2 DEF CatchUp, Rounds
<1> QED
  BY <1>1, <1>2

\* More signatures never take a certificate away.
LEMMA PastGrows ==
    ASSUME NEW S, NEW R, \A q \in Honest : S[q] \subseteq R[q],
           NEW r, Past(S, r)
    PROVE  Past(R, r)
<1>1. PICK t \in Rounds : t + 1 >= r /\ Certified(S, t)
  BY DEF Past
<1>2. {q \in Honest : t \in S[q]} \cup Faulty \subseteq {q \in Honest : t \in R[q]} \cup Faulty
  OBVIOUS
<1>3. Certified(R, t)
  BY <1>1, <1>2, QuorumMonotone DEF Certified
<1> QED
  BY <1>1, <1>3 DEF Past

\* A quorum of votes in a tracker is a certificate.
LEMMA HeldQuorumCertified ==
    ASSUME NEW S, NEW t, Tracked(t, S), NEW r \in Rounds,
           IsQuorum(signatures_for(t, r))
    PROVE  Certified(S, r)
<1>1. signatures_for(t, r) \subseteq {q \in Honest : r \in S[q]} \cup Faulty
  BY DEF signatures_for, Tracked, Honest
<1> QED
  BY <1>1, QuorumMonotone DEF Certified

\* f + 1 members past a round include an honest one, which was behind a certificate.
LEMMA CatchUpPast ==
    ASSUME NEW S \in Signatures, NEW t \in Trackers, Tracked(t, S), SignedBehind(S),
           NEW r \in Rounds, r > 0 => Past(S, r)
    PROVE  CatchUp(t, r) > 0 => Past(S, CatchUp(t, r))
<1> DEFINE c == CatchUp(t, r)
<1>1. c \in Rounds /\ c >= r /\ (c # r => ReachedByEnough(t, c))
  BY CatchUpRises
<1> HIDE DEF c
<1>2. CASE c # r
  <2>1. PICK q \in Honest : q \in Reached(t, c)
    BY <1>1, <1>2, FPlusOneHasHonest DEF ReachedByEnough
  <2>2. c > 0
    BY <1>1, <1>2 DEF Rounds
  <2>3. t.last[q] >= c /\ t.last[q] \in Rounds \cup {NoRound}
    BY <2>1 DEF Reached, Trackers, Honest
  <2>4. t.last[q] \in Rounds /\ t.last[q] > 0 /\ t.last[q] # NoRound
    BY <2>2, <2>3, <1>1 DEF Rounds, NoRound
  <2>5. Past(S, t.last[q])
    BY <2>1, <2>4 DEF Tracked, SignedBehind
  <2>6. Past(S, c)
    BY <2>3, <2>4, <2>5, <1>1 DEF Past, Rounds
  <2> QED
    BY <2>6 DEF c
<1>3. CASE c = r
  BY <1>3 DEF c
<1> QED
  BY <1>2, <1>3

---------------------------------------------------------------------------
\* A tracker that takes a vote stays one, and knows no other votes.
LEMMA AddVoteTracked ==
    ASSUME NEW S \in Signatures, NEW t \in Trackers, Tracked(t, S),
           NEW q \in Members, NEW r \in Rounds, q \in Honest => r \in S[q]
    PROVE  add_vote(t, q, r) \in Trackers /\ Tracked(add_vote(t, q, r), S)
<1> DEFINE a == add_vote(t, q, r)
<1>1. a.last = [t.last EXCEPT ![q] = r] /\ a.held \subseteq {<<r, q>>} \cup t.held
  BY DEF add_vote
<1>2. a \in Trackers
  BY <1>1 DEF Trackers, add_vote
<1>3. ASSUME NEW m \in Honest
      PROVE  /\ a.last[m] # NoRound => a.last[m] \in S[m]
             /\ \A s \in Rounds : <<s, m>> \in a.held => s \in S[m]
  BY <1>1, <1>3 DEF Tracked, Trackers, Honest
<1> QED
  BY <1>2, <1>3 DEF Tracked

\* So does one that notes the round of a vote too far ahead.
LEMMA NoteTracked ==
    ASSUME NEW S \in Signatures, NEW t \in Trackers, Tracked(t, S),
           NEW q \in Members, NEW r \in Rounds, q \in Honest => r \in S[q]
    PROVE  /\ note_latest_round(t, q, r) \in Trackers
           /\ Tracked(note_latest_round(t, q, r), S)
<1> DEFINE a == note_latest_round(t, q, r)
<1>1. a \in Trackers /\ a.held = t.held /\ (a.last = t.last \/ a.last = [t.last EXCEPT ![q] = r])
  BY DEF note_latest_round, Trackers
<1>2. ASSUME NEW m \in Honest
      PROVE  /\ a.last[m] # NoRound => a.last[m] \in S[m]
             /\ \A s \in Rounds : <<s, m>> \in a.held => s \in S[m]
  BY <1>1, <1>2 DEF Tracked, Trackers, Honest
<1> QED
  BY <1>1, <1>2 DEF Tracked

\* An empty tracker knows nothing.
LEMMA EmptyTracked ==
    ASSUME NEW S
    PROVE  EmptyTracker \in Trackers /\ Tracked(EmptyTracker, S)
  BY DEF EmptyTracker, Trackers, Tracked, Honest, NoRound

\* Signing more never invalidates what a tracker knows.
LEMMA TrackedGrows ==
    ASSUME NEW S, NEW R, \A q \in Honest : S[q] \subseteq R[q], NEW t, Tracked(t, S)
    PROVE  Tracked(t, R)
  BY DEF Tracked

\* An accepted vote moves its node only behind a certificate, and never back.
LEMMA AcceptedStep ==
    ASSUME TypeOK, NEW p \in Honest, NEW t \in Trackers, NEW r \in Rounds,
           OnAccepted(p, t, r)
    PROVE  /\ tracker' \in [Honest -> Trackers]
           /\ highest_tc' \in [Honest -> Rounds \cup {NoRound}]
           /\ current_round' \in [Honest -> Rounds]
           /\ current_round'[p] >= current_round[p]
           /\ tracker'[p] = t
           /\ \A q \in Honest \ {p} : /\ tracker'[q] = tracker[q]
                                       /\ current_round'[q] = current_round[q]
           /\ \A S \in Signatures :
                 /\ Tracked(t, S) /\ SignedBehind(S)
                 /\ current_round[p] > 0 => Past(S, current_round[p])
                 => (current_round'[p] > 0 => Past(S, current_round'[p]))
<1> DEFINE after == RecordTimeoutCertificate(p, t, r)
<1>1. MaxRound \in Nat /\ current_round[p] \in Rounds /\ highest_tc[p] \in Rounds \cup {NoRound}
  BY TrackerAssumption DEF TypeOK
<1>2. /\ after.tc \in Rounds \cup {NoRound}
      /\ after.round \in Rounds
      /\ after.round >= current_round[p]
      /\ after.round # current_round[p] =>
            IsQuorum(signatures_for(t, r)) /\ after.round = r + 1
  BY <1>1 DEF RecordTimeoutCertificate, TcAdvance, Rounds
<1>3. /\ tracker' = [tracker EXCEPT ![p] = t]
      /\ highest_tc' = [highest_tc EXCEPT ![p] = after.tc]
      /\ current_round' = [current_round EXCEPT ![p] = CatchUp(t, after.round)]
  BY DEF OnAccepted
<1> HIDE DEF after
<1>4. CatchUp(t, after.round) \in Rounds /\ CatchUp(t, after.round) >= after.round
  BY <1>2, CatchUpRises
<1>5. current_round'[p] = CatchUp(t, after.round) /\ tracker'[p] = t
  BY <1>3 DEF TypeOK
<1>6. current_round'[p] >= current_round[p]
  BY <1>1, <1>2, <1>4, <1>5 DEF Rounds
<1>7. ASSUME NEW S \in Signatures, Tracked(t, S), SignedBehind(S),
             current_round[p] > 0 => Past(S, current_round[p])
      PROVE  current_round'[p] > 0 => Past(S, current_round'[p])
  <2>1. after.round > 0 => Past(S, after.round)
    <3>1. CASE after.round = current_round[p]
      BY <3>1, <1>7
    <3>2. CASE after.round # current_round[p]
      <4>1. Certified(S, r) /\ after.round = r + 1
        BY <3>2, <1>2, <1>7, HeldQuorumCertified
      <4> QED
        BY <4>1 DEF Past, Rounds
    <3> QED
      BY <3>1, <3>2
  <2> QED
    BY <2>1, <1>2, <1>5, <1>7, CatchUpPast
<1>8. /\ tracker' \in [Honest -> Trackers]
      /\ highest_tc' \in [Honest -> Rounds \cup {NoRound}]
      /\ current_round' \in [Honest -> Rounds]
      /\ \A q \in Honest \ {p} : /\ tracker'[q] = tracker[q]
                                  /\ current_round'[q] = current_round[q]
  BY <1>2, <1>3, <1>4 DEF TypeOK
<1> QED
  BY <1>5, <1>6, <1>7, <1>8

---------------------------------------------------------------------------
\* A window smaller than the tracker: taking a vote within it evicts nothing of
\* the current round, and nothing beyond the window is held afterwards.
LEMMA WindowFits ==
    ASSUME NEW t \in Trackers, NEW c \in Rounds, NEW q \in Members, NEW r \in Rounds,
           \A v \in t.held : v[1] <= c + RoundWindow,
           r <= c + RoundWindow, Accepts(t, q, r)
    PROVE  /\ \A v \in t.held : v[1] = c => v \in add_vote(t, q, r).held
           /\ \A v \in add_vote(t, q, r).held : v[1] <= c + RoundWindow
<1> DEFINE H == RoundsHeld(t)
           W == c .. c + RoundWindow
<1>1. RoundWindow \in Nat /\ MaxRoundsHeld \in Nat /\ RoundWindow < MaxRoundsHeld /\ c \in Nat /\ r \in Nat
  BY SyncAssumption, TrackerAssumption DEF Rounds
<1>2. \A v \in t.held : v[1] \in Rounds /\ v[1] \in H
  BY DEF RoundsHeld, Trackers
<1>3. \A s \in H : s \in Rounds /\ s <= c + RoundWindow
  BY DEF RoundsHeld, Trackers
<1>4. ASSUME NEW v \in t.held, v[1] = c, v \notin add_vote(t, q, r).held
      PROVE  FALSE
  <2>1. WindowFull(t, r) /\ IsOldest(t, c)
    <3>1. {u \in t.held : ~(WindowFull(t, r) /\ IsOldest(t, u[1]))} \subseteq add_vote(t, q, r).held
      BY DEF add_vote
    <3> QED
      BY <3>1, <1>4, Zenon
  <2>2. r \notin H /\ Cardinality(H) >= MaxRoundsHeld
    BY <2>1 DEF WindowFull
  <2>3. ASSUME NEW s \in H
        PROVE  s \in W
    <3>1. c <= s
      BY <2>1 DEF IsOldest
    <3>2. s \in Nat /\ s <= c + RoundWindow
      BY <1>3 DEF Rounds
    <3> QED
      BY <3>1, <3>2, <1>1
  <2>4. PICK s \in H : ~(r < s)
    BY <2>1 DEF Accepts
  <2>5. r \in W
    BY <2>3, <2>4, <1>1, <1>3 DEF Rounds
  <2>6. IsFiniteSet(W) /\ Cardinality(W) = RoundWindow + 1
    <3>1. c \in Int /\ c + RoundWindow \in Int /\ ~(c > c + RoundWindow)
      BY <1>1
    <3>2. (c + RoundWindow) - c + 1 = RoundWindow + 1
      BY <1>1
    <3> QED
      BY <3>1, <3>2, FS_Interval
  <2>7. IsFiniteSet(W \ {r}) /\ Cardinality(W \ {r}) = RoundWindow
    <3>1. Cardinality(W \ {r}) = Cardinality(W) - 1 /\ IsFiniteSet(W \ {r})
      <4> HIDE DEF W
      <4> QED
        BY <2>5, <2>6, FS_RemoveElement
    <3> QED
      BY <3>1, <2>6, <1>1
  <2>8. Cardinality(H) <= RoundWindow /\ Cardinality(H) \in Nat
    <3>1. H \subseteq W \ {r}
      BY <2>2, <2>3
    <3> HIDE DEF H, W
    <3> QED
      BY <3>1, <2>7, FS_Subset, FS_CardinalityType
  <2> HIDE DEF H
  <2> QED
    BY <2>2, <2>8, <1>1
<1>5. ASSUME NEW v \in add_vote(t, q, r).held
      PROVE  v[1] <= c + RoundWindow
  BY <1>5 DEF add_vote
<1> QED
  BY <1>4, <1>5

\* A step of one node keeps the invariant if what that node learns is signed and
\* where it goes is behind a certificate.
LEMMA OneNodeMoves ==
    ASSUME FollowInv, TypeOK', NEW p \in Honest,
           \A q \in Honest : timeouts[q] \subseteq timeouts'[q],
           \A q \in Honest \ {p} : /\ tracker'[q] = tracker[q]
                                   /\ current_round'[q] = current_round[q],
           Tracked(tracker'[p], timeouts'),
           HonestLeads =>
              /\ SignedBehind(timeouts')
              /\ current_round'[p] > 0 => Past(timeouts', current_round'[p])
    PROVE  FollowInv'
<1>1. \A q \in Honest : Tracked(tracker'[q], timeouts')
  BY TrackedGrows DEF FollowInv
<1>2. ASSUME HonestLeads, NEW q \in Honest, current_round'[q] > 0
      PROVE  Past(timeouts', current_round'[q])
  <2>1. CASE q = p
    BY <1>2, <2>1
  <2>2. CASE q # p
    <3>1. Past(timeouts, current_round'[q])
      BY <1>2, <2>2 DEF FollowInv
    <3> QED
      BY <3>1, PastGrows
  <2> QED
    BY <2>1, <2>2
<1>3. (\A q \in Honest : Tracked(tracker[q], timeouts))'
  BY <1>1 DEF Tracked
<1>4. (HonestLeads =>
          /\ SignedBehind(timeouts)
          /\ \A q \in Honest : current_round[q] > 0 => Past(timeouts, current_round[q]))'
  BY <1>2 DEF HonestLeads, SignedBehind, Past, Certified
<1> QED
  BY <1>3, <1>4 DEF FollowInv

---------------------------------------------------------------------------
\* What a step may not do to the current round's votes of node p.
KeptAt(p) ==
    \/ \A v \in tracker[p].held : v[1] = current_round[p] => v \in tracker'[p].held
    \/ peered'[p] # peered[p]
    \/ restarts' # restarts

SyncInv == FollowInv /\ HeldInWindow

StepKeeps == SyncInv' /\ \A p \in Honest : KeptAt(p)

\* The part of StepKeeps about what is held, for a step that changes one node.
LEMMA OneNodeHolds ==
    ASSUME HeldInWindow, NEW p \in Honest,
           \A q \in Honest \ {p} : /\ tracker'[q] = tracker[q]
                                   /\ current_round'[q] = current_round[q],
           \A v \in tracker'[p].held : v[1] <= current_round'[p] + RoundWindow,
           KeptAt(p)
    PROVE  HeldInWindow' /\ \A q \in Honest : KeptAt(q)
<1>1. ASSUME NEW q \in Honest
      PROVE  KeptAt(q) /\ \A v \in tracker'[q].held : v[1] <= current_round'[q] + RoundWindow
  <2>1. CASE q = p
    BY <2>1
  <2>2. CASE q # p
    BY <2>2 DEF KeptAt, HeldInWindow
  <2> QED
    BY <2>1, <2>2
<1> QED
  BY <1>1 DEF HeldInWindow

\* An accepted vote within the window keeps what is held.
LEMMA AcceptedHolds ==
    ASSUME TypeOK, HeldInWindow, NEW p \in Honest, NEW q \in Members, NEW r \in Rounds,
           r <= current_round[p] + RoundWindow, Accepts(tracker[p], q, r),
           tracker'[p] = add_vote(tracker[p], q, r),
           current_round'[p] \in Rounds, current_round'[p] >= current_round[p]
    PROVE  /\ KeptAt(p)
           /\ \A v \in tracker'[p].held : v[1] <= current_round'[p] + RoundWindow
<1>1. tracker[p] \in Trackers /\ current_round[p] \in Rounds /\ RoundWindow \in Nat
  BY SyncAssumption DEF TypeOK
<1>2. \A v \in tracker[p].held : v[1] <= current_round[p] + RoundWindow
  BY DEF HeldInWindow
<1>3. /\ \A v \in tracker[p].held : v[1] = current_round[p] => v \in tracker'[p].held
      /\ \A v \in tracker'[p].held : v[1] <= current_round[p] + RoundWindow
  BY <1>1, <1>2, WindowFits
<1>4. tracker'[p] \in Trackers
  BY <1>1 DEF add_vote, Trackers
<1>5. ASSUME NEW v \in tracker'[p].held
      PROVE  v[1] <= current_round'[p] + RoundWindow
  <2>1. v[1] \in Rounds
    BY <1>4 DEF Trackers
  <2> QED
    BY <2>1, <1>1, <1>3 DEF Rounds
<1> QED
  BY <1>3, <1>5 DEF KeptAt

\* The round timer: a node times out only of the round it is in.
LEMMA TimeoutVoteStep ==
    ASSUME SyncInv, NEW p \in Honest, TimeoutVote(p)
    PROVE  StepKeeps
<1> DEFINE r == current_round[p]
<1>1. TypeOK /\ HeldInWindow /\ FollowInv /\ Tracked(tracker[p], timeouts)
  BY DEF SyncInv, FollowInv
<1>2. r \in Rounds /\ timeouts \in Signatures /\ tracker[p] \in Trackers /\ p \in Members
  BY <1>1 DEF TypeOK, Signatures, Honest
<1>3. /\ timeouts' = [timeouts EXCEPT ![p] = @ \cup {r}]
      /\ reserved' = [reserved EXCEPT ![p] = @ \cup {r}]
      /\ timed_out' = [timed_out EXCEPT ![p] = @ \cup {r}]
      /\ UNCHANGED <<seen, peered, losses, restarts>>
  BY DEF TimeoutVote
<1>4. /\ timeouts' \in Signatures
      /\ \A q \in Honest : timeouts[q] \subseteq timeouts'[q]
      /\ timeouts'[p] = timeouts[p] \cup {r}
      /\ \A q \in Honest \ {p} : timeouts'[q] = timeouts[q]
  BY <1>2, <1>3 DEF Signatures
<1>5. Tracked(tracker[p], timeouts')
  BY <1>1, <1>4, TrackedGrows
<1>6. ASSUME HonestLeads
      PROVE  SignedBehind(timeouts') /\ (r > 0 => Past(timeouts', r))
  <2>1. r > 0 => Past(timeouts', r)
    BY <1>1, <1>4, <1>6, PastGrows DEF FollowInv
  <2>2. ASSUME NEW q \in Honest, NEW s \in timeouts'[q], s > 0
        PROVE  Past(timeouts', s)
    <3>1. CASE s \in timeouts[q]
      <4>1. Past(timeouts, s)
        BY <1>1, <1>6, <2>2, <3>1 DEF FollowInv, SignedBehind
      <4> QED
        BY <4>1, <1>4, PastGrows
    <3>2. CASE s \notin timeouts[q]
      BY <3>2, <2>1, <2>2, <1>4
    <3> QED
      BY <3>1, <3>2
  <2> QED
    BY <2>1, <2>2 DEF SignedBehind
<1>7. CASE Accepts(tracker[p], p, r)
  <2> DEFINE t == add_vote(tracker[p], p, r)
  <2>1. OnAccepted(p, t, r)
    BY <1>7 DEF TimeoutVote
  <2>2. t \in Trackers /\ Tracked(t, timeouts')
    BY <1>2, <1>4, <1>5, AddVoteTracked
  <2> HIDE DEF t
  <2>3. /\ tracker' \in [Honest -> Trackers]
        /\ highest_tc' \in [Honest -> Rounds \cup {NoRound}]
        /\ current_round' \in [Honest -> Rounds]
        /\ current_round'[p] >= current_round[p]
        /\ tracker'[p] = t
        /\ \A q \in Honest \ {p} : /\ tracker'[q] = tracker[q]
                                    /\ current_round'[q] = current_round[q]
    BY <2>1, <2>2, <1>1, <1>2, AcceptedStep
  <2>4. ASSUME HonestLeads
        PROVE  current_round'[p] > 0 => Past(timeouts', current_round'[p])
    BY <2>1, <2>2, <2>4, <1>1, <1>2, <1>4, <1>6, AcceptedStep
  <2>5. TypeOK'
    BY <1>1, <1>2, <1>3, <1>4, <2>3 DEF TypeOK, Signatures
  <2>6. FollowInv'
    BY <1>1, <1>4, <1>6, <2>2, <2>3, <2>4, <2>5, OneNodeMoves
  <2>7. KeptAt(p) /\ \A v \in tracker'[p].held : v[1] <= current_round'[p] + RoundWindow
    <3>1. r <= current_round[p] + RoundWindow
      BY <1>2, SyncAssumption DEF Rounds
    <3>2. current_round'[p] \in Rounds
      BY <2>3
    <3> QED
      BY <3>1, <3>2, <1>1, <1>2, <1>7, <2>3, AcceptedHolds DEF t
  <2> QED
    BY <1>1, <2>3, <2>6, <2>7, OneNodeHolds DEF StepKeeps, SyncInv
<1>8. CASE ~Accepts(tracker[p], p, r)
  <2>1. UNCHANGED <<tracker, highest_tc, current_round>>
    BY <1>8 DEF TimeoutVote
  <2>2. TypeOK'
    BY <1>1, <1>2, <1>3, <1>4, <2>1 DEF TypeOK, Signatures
  <2>3. FollowInv'
    BY <1>1, <1>4, <1>5, <1>6, <2>1, <2>2, OneNodeMoves
  <2>4. HeldInWindow' /\ \A q \in Honest : KeptAt(q)
    BY <1>1, <2>1 DEF HeldInWindow, KeptAt
  <2> QED
    BY <2>3, <2>4 DEF StepKeeps, SyncInv
<1> QED
  BY <1>7, <1>8

\* A vote from the network, noted or held.
LEMMA ReceiveStep ==
    ASSUME SyncInv, NEW p \in Honest, NEW q \in Members, NEW r \in Rounds, Receive(p, q, r)
    PROVE  StepKeeps
<1>1. TypeOK /\ HeldInWindow /\ FollowInv /\ Tracked(tracker[p], timeouts)
  BY DEF SyncInv, FollowInv
<1>2. /\ current_round[p] \in Rounds /\ timeouts \in Signatures /\ tracker[p] \in Trackers
      /\ \A m \in Honest : timeouts[m] \subseteq timeouts'[m]
      /\ UNCHANGED <<peered, timeouts, losses, restarts>>
  BY <1>1 DEF TypeOK, Signatures, Receive
<1>3. q \in Honest => r \in timeouts[q]
  BY DEF Receive, SignedBy, Honest
<1>4. HonestLeads =>
        /\ SignedBehind(timeouts)
        /\ current_round[p] > 0 => Past(timeouts, current_round[p])
  BY <1>1 DEF FollowInv
<1>5. CASE NoteVote(p, q, r)
  <2> DEFINE t == note_latest_round(tracker[p], q, r)
             c == CatchUp(t, current_round[p])
  <2>1. t \in Trackers /\ Tracked(t, timeouts)
    BY <1>1, <1>2, <1>3, NoteTracked
  <2>2. t.held = tracker[p].held
    BY <1>2 DEF note_latest_round, Trackers
  <2>3. /\ tracker' = [tracker EXCEPT ![p] = t]
        /\ current_round' = [current_round EXCEPT ![p] = c]
        /\ UNCHANGED <<timed_out, reserved, highest_tc, seen>>
    BY <1>5 DEF NoteVote
  <2> HIDE DEF t
  <2>4. c \in Rounds /\ c >= current_round[p]
    BY <1>2, CatchUpRises
  <2>5. HonestLeads => (c > 0 => Past(timeouts, c))
    BY <1>2, <1>4, <2>1, CatchUpPast
  <2> HIDE DEF c
  <2>6. /\ tracker'[p] = t /\ current_round'[p] = c
        /\ \A m \in Honest \ {p} : /\ tracker'[m] = tracker[m]
                                    /\ current_round'[m] = current_round[m]
    BY <1>1, <2>3 DEF TypeOK
  <2>7. TypeOK'
    BY <1>1, <1>2, <2>1, <2>3, <2>4 DEF TypeOK
  <2>8. FollowInv'
    BY <1>1, <1>2, <1>4, <2>1, <2>5, <2>6, <2>7, OneNodeMoves
  <2>9. ASSUME NEW v \in tracker'[p].held
        PROVE  v[1] <= current_round'[p] + RoundWindow
    <3>1. v \in tracker[p].held /\ v[1] \in Rounds
      BY <2>2, <2>6, <1>2 DEF Trackers
    <3>2. v[1] <= current_round[p] + RoundWindow
      BY <3>1, <1>1 DEF HeldInWindow
    <3> QED
      BY <3>1, <3>2, <2>4, <2>6, <1>2, SyncAssumption DEF Rounds
  <2>10. KeptAt(p)
    BY <2>2, <2>6 DEF KeptAt
  <2> QED
    BY <1>1, <2>6, <2>8, <2>9, <2>10, OneNodeHolds DEF StepKeeps, SyncInv
<1>6. CASE HoldVote(p, q, r)
  <2> DEFINE t == add_vote(tracker[p], q, r)
  <2>1. /\ OnAccepted(p, t, r) /\ Accepts(tracker[p], q, r) /\ ~TooFarAhead(p, r)
        /\ UNCHANGED <<timed_out, reserved, seen>>
    BY <1>6 DEF HoldVote
  <2>2. t \in Trackers /\ Tracked(t, timeouts)
    BY <1>1, <1>2, <1>3, AddVoteTracked
  <2> HIDE DEF t
  <2>3. /\ tracker' \in [Honest -> Trackers]
        /\ highest_tc' \in [Honest -> Rounds \cup {NoRound}]
        /\ current_round' \in [Honest -> Rounds]
        /\ current_round'[p] >= current_round[p]
        /\ tracker'[p] = t
        /\ \A m \in Honest \ {p} : /\ tracker'[m] = tracker[m]
                                    /\ current_round'[m] = current_round[m]
    BY <2>1, <2>2, <1>1, AcceptedStep
  <2>4. HonestLeads => (current_round'[p] > 0 => Past(timeouts, current_round'[p]))
    BY <2>1, <2>2, <1>1, <1>2, <1>4, AcceptedStep
  <2>5. TypeOK'
    BY <1>1, <1>2, <2>1, <2>3 DEF TypeOK
  <2>6. FollowInv'
    BY <1>1, <1>2, <1>4, <2>2, <2>3, <2>4, <2>5, OneNodeMoves
  <2>7. KeptAt(p) /\ \A v \in tracker'[p].held : v[1] <= current_round'[p] + RoundWindow
    <3>1. r <= current_round[p] + RoundWindow /\ current_round'[p] \in Rounds
      BY <2>1, <2>3, <1>2, SyncAssumption DEF TooFarAhead, Rounds
    <3> QED
      BY <3>1, <1>1, <1>2, <2>1, <2>3, AcceptedHolds DEF t
  <2> QED
    BY <1>1, <2>3, <2>6, <2>7, OneNodeHolds DEF StepKeeps, SyncInv
<1> QED
  BY <1>5, <1>6 DEF Receive

\* A justified proposal: its honest leader is in its round.
LEMMA HandleProposeStep ==
    ASSUME SyncInv, NEW p \in Honest, NEW r \in Rounds, NEW pol \in BOOLEAN,
           HandlePropose(p, r, pol)
    PROVE  StepKeeps
<1>1. TypeOK /\ HeldInWindow /\ FollowInv /\ Tracked(tracker[p], timeouts)
  BY DEF SyncInv, FollowInv
<1>2. /\ current_round' = [current_round EXCEPT ![p] = r] /\ r > current_round[p]
      /\ UNCHANGED <<timed_out, reserved, highest_tc, tracker, seen, peered, timeouts,
                     losses, restarts>>
  BY DEF HandlePropose
<1>3. /\ current_round'[p] = r /\ current_round[p] \in Rounds
      /\ \A m \in Honest \ {p} : current_round'[m] = current_round[m]
  BY <1>1, <1>2 DEF TypeOK
<1>4. ASSUME HonestLeads
      PROVE  SignedBehind(timeouts) /\ (r > 0 => Past(timeouts, r))
  <2>1. leader[r] \in Honest /\ leader[r] \notin Faulty
    BY <1>4 DEF HonestLeads, Honest
  <2>2. current_round[leader[r]] = r
    BY <2>1 DEF HandlePropose, ProposalJustified
  <2> QED
    BY <1>1, <1>4, <2>1, <2>2 DEF FollowInv
<1>5. TypeOK'
  BY <1>1, <1>2 DEF TypeOK
<1>6. FollowInv'
  BY <1>1, <1>2, <1>3, <1>4, <1>5, OneNodeMoves
<1>7. KeptAt(p)
  BY <1>2 DEF KeptAt
<1>8. ASSUME NEW v \in tracker'[p].held
      PROVE  v[1] <= current_round'[p] + RoundWindow
  <2>1. v \in tracker[p].held /\ tracker[p] \in Trackers
    BY <1>1, <1>2 DEF TypeOK
  <2>2. v[1] \in Rounds /\ v[1] <= current_round[p] + RoundWindow
    BY <2>1, <1>1 DEF HeldInWindow, Trackers
  <2> QED
    BY <2>2, <1>2, <1>3, SyncAssumption DEF Rounds
<1> QED
  BY <1>1, <1>2, <1>3, <1>6, <1>7, <1>8, OneNodeHolds DEF StepKeeps, SyncInv

\* A node that goes back to round 0 with an empty tracker.
LEMMA ResetStep ==
    ASSUME SyncInv, TypeOK', NEW p \in Honest,
           current_round' = [current_round EXCEPT ![p] = 0],
           tracker' = [tracker EXCEPT ![p] = EmptyTracker],
           timeouts' = timeouts
    PROVE  StepKeeps \/ ~KeptAt(p)
<1>1. TypeOK /\ HeldInWindow /\ FollowInv
  BY DEF SyncInv, FollowInv
<1>2. /\ current_round'[p] = 0 /\ tracker'[p] = EmptyTracker
      /\ \A m \in Honest \ {p} : /\ tracker'[m] = tracker[m]
                                  /\ current_round'[m] = current_round[m]
  BY <1>1 DEF TypeOK
<1>3. Tracked(tracker'[p], timeouts')
  BY <1>2, EmptyTracked
<1>4. FollowInv'
  BY <1>1, <1>2, <1>3, OneNodeMoves DEF FollowInv
<1>5. \A v \in tracker'[p].held : v[1] <= current_round'[p] + RoundWindow
  BY <1>2 DEF EmptyTracker
<1> QED
  BY <1>1, <1>2, <1>4, <1>5, OneNodeHolds DEF StepKeeps, SyncInv

\* Peer loss, reconnection and restart.
LEMMA DisruptionStep ==
    ASSUME SyncInv, NEW p \in Honest,
           \/ \E voted \in BOOLEAN : PeerLoss(p, voted)
           \/ \E long \in BOOLEAN : Reconnect(p, long)
           \/ Restart(p)
    PROVE  StepKeeps
<1>1. TypeOK /\ FollowInv /\ HeldInWindow
  BY DEF SyncInv, FollowInv
<1>2. 0 \in Rounds
  BY TrackerAssumption DEF Rounds
<1>3. EmptyTracker \in Trackers
  BY EmptyTracked
<1>4. Received(p) \subseteq Members \X Rounds
  <2>1. tracker[p].held \subseteq Rounds \X Members
    BY <1>1 DEF TypeOK, Trackers
  <2> QED
    BY <2>1 DEF Received
<1>5. ASSUME NEW voted \in BOOLEAN, PeerLoss(p, voted)
      PROVE  StepKeeps
  <2>1. /\ losses' = losses + 1 /\ peered[p] /\ peered' = [peered EXCEPT ![p] = FALSE]
        /\ UNCHANGED <<timeouts, restarts>>
    BY <1>5 DEF PeerLoss
  <2>2. peered'[p] # peered[p]
    BY <1>1, <2>1 DEF TypeOK
  <2>3. KeptAt(p)
    BY <2>2 DEF KeptAt
  <2>4. CASE ResetRound(p) /\ seen' = [seen EXCEPT ![p] = @ \cup Received(p)]
    <3>1. TypeOK'
      BY <2>1, <2>4, <1>1, <1>2, <1>3, <1>4 DEF TypeOK, ResetRound
    <3> QED
      BY <3>1, <2>1, <2>3, <2>4, ResetStep DEF ResetRound
  <2>5. CASE UNCHANGED <<current_round, reserved, tracker, timed_out, highest_tc, seen>>
    <3>1. TypeOK'
      BY <2>1, <2>5, <1>1 DEF TypeOK
    <3>2. FollowInv'
      BY <3>1, <2>1, <2>5, <1>1, OneNodeMoves DEF FollowInv
    <3>3. HeldInWindow' /\ \A m \in Honest : KeptAt(m)
      BY <2>5, <1>1 DEF HeldInWindow, KeptAt
    <3> QED
      BY <3>2, <3>3 DEF StepKeeps, SyncInv
  <2> QED
    BY <1>5, <2>4, <2>5 DEF PeerLoss
<1>6. ASSUME NEW long \in BOOLEAN, Reconnect(p, long)
      PROVE  StepKeeps
  <2>1. /\ ~peered[p] /\ peered' = [peered EXCEPT ![p] = TRUE]
        /\ ResetRound(p)
        /\ seen' = [seen EXCEPT ![p] = IF long THEN {} ELSE @ \cup Received(p)]
        /\ UNCHANGED <<timeouts, losses, restarts>>
    BY <1>6 DEF Reconnect
  <2>2. peered'[p] # peered[p]
    BY <1>1, <2>1 DEF TypeOK
  <2>3. KeptAt(p)
    BY <2>2 DEF KeptAt
  <2>4. TypeOK'
    BY <2>1, <1>1, <1>2, <1>3, <1>4 DEF TypeOK, ResetRound
  <2> QED
    BY <2>1, <2>3, <2>4, ResetStep DEF ResetRound
<1>7. ASSUME Restart(p)
      PROVE  StepKeeps
  <2>1. TypeOK'
    BY <1>7, <1>1, <1>2, <1>3 DEF TypeOK, Restart
  <2>2. restarts' # restarts
    BY <1>7, <1>1 DEF TypeOK, Restart
  <2>3. KeptAt(p)
    BY <2>2 DEF KeptAt
  <2> QED
    BY <1>7, <2>1, <2>3, ResetStep DEF Restart
<1> QED
  BY <1>5, <1>6, <1>7

---------------------------------------------------------------------------
\* No node has moved or signed.
LEMMA SyncInit == Init => SyncInv
<1> SUFFICES ASSUME Init PROVE SyncInv
  OBVIOUS
<1>1. 0 \in Rounds
  BY TrackerAssumption DEF Rounds
<1>2. TypeOK
  BY <1>1, EmptyTracked DEF Init, TypeOK
<1>3. \A p \in Honest : Tracked(tracker[p], timeouts)
  BY EmptyTracked DEF Init
<1>4. SignedBehind(timeouts) /\ \A p \in Honest : current_round[p] = 0
  BY DEF Init, SignedBehind
<1>5. HeldInWindow
  BY DEF Init, HeldInWindow, EmptyTracker
<1> QED
  BY <1>2, <1>3, <1>4, <1>5 DEF SyncInv, FollowInv

\* Every step keeps the invariant and the votes of the current round.
LEMMA SyncStep == SyncInv /\ [Next]_vars => StepKeeps
<1> SUFFICES ASSUME SyncInv, [Next]_vars PROVE StepKeeps
  OBVIOUS
<1>1. CASE Next
  <2>1. PICK p \in Running :
          \/ TimeoutVote(p)
          \/ \E q \in Members, r \in Rounds : Receive(p, q, r)
          \/ \E r \in Rounds, pol \in BOOLEAN : HandlePropose(p, r, pol)
          \/ \E voted \in BOOLEAN : PeerLoss(p, voted)
          \/ \E long \in BOOLEAN : Reconnect(p, long)
          \/ Restart(p)
    BY <1>1 DEF Next
  <2>2. p \in Honest
    BY SyncAssumption
  <2> QED
    BY <2>1, <2>2, TimeoutVoteStep, ReceiveStep, HandleProposeStep, DisruptionStep
<1>2. CASE UNCHANGED vars
  <2>1. UNCHANGED <<current_round, timed_out, reserved, highest_tc, tracker, seen, peered,
                    timeouts, losses, restarts>>
    BY <1>2 DEF vars, memory
  <2>2. TypeOK /\ HeldInWindow /\ FollowInv
    BY DEF SyncInv, FollowInv
  <2>3. TypeOK'
    BY <2>1, <2>2 DEF TypeOK
  <2>4. HeldInWindow' /\ \A p \in Honest : KeptAt(p)
    BY <2>1, <2>2 DEF HeldInWindow, KeptAt
  <2>5. FollowInv'
    <3>1. \A p \in Honest : Tracked(tracker'[p], timeouts')
      BY <2>1, <2>2 DEF FollowInv
    <3>2. HonestLeads =>
            /\ SignedBehind(timeouts')
            /\ \A p \in Honest : current_round'[p] > 0 => Past(timeouts', current_round'[p])
      BY <2>1, <2>2 DEF FollowInv
    <3> QED
      BY <3>1, <3>2, <2>3 DEF FollowInv, Tracked, HonestLeads, SignedBehind, Past, Certified
  <2> QED
    BY <2>4, <2>5 DEF StepKeeps, SyncInv
<1> QED
  BY <1>1, <1>2

\* The strengthened invariant behind the theorems below.
THEOREM SyncInvariant == Spec => []SyncInv
<1>1. SyncInv /\ [Next]_vars => SyncInv'
  BY SyncStep DEF StepKeeps
<1> QED
  BY <1>1, SyncInit, PTL DEF Spec

\* Every round an honest node enters is behind a timeout certificate, whatever
\* faulty members sign (maybe_record_timeout_certificate_locked,
\* maybe_catch_up_round_from_timeout_votes_locked, handle_propose_result).
THEOREM RoundsAreCertified == Spec => []RoundsFollowCertificates
<1>1. SyncInv => RoundsFollowCertificates
  BY DEF SyncInv, FollowInv, RoundsFollowCertificates, HonestLeads, Past, Certified,
         HasTimeoutCertificate
<1> QED
  BY <1>1, SyncInvariant, PTL

\* No flood of timeout votes evicts what a node holds of its current round
\* (TimeoutVoteTracker::add_vote behind the window check of the handler).
THEOREM CurrentVotesKept == Spec => CurrentRoundKept
<1>1. SyncInv /\ [Next]_vars =>
        [\A p \in Honest :
          \/ \A v \in tracker[p].held : v[1] = current_round[p] => v \in tracker'[p].held
          \/ peered'[p] # peered[p]
          \/ restarts' # restarts]_vars
  BY SyncStep DEF StepKeeps, KeptAt
<1> QED
  BY <1>1, SyncInvariant, PTL DEF Spec, CurrentRoundKept
---------------------------------------------------------------------------
(* Certificates end rounds, as long as no node has lost its peers: a loss   *)
(* of all of them empties the tracker and keeps the highest certificate, so *)
(* that the same certificate no longer counts as a new one.                 *)

\* Node p is past every round whose quorum of timeout votes it holds, and past
\* its highest certificate.
Moved(p) ==
    /\ peered[p]
    /\ highest_tc[p] < current_round[p]
    /\ \A r \in Rounds :
          r < MaxRound /\ IsQuorum(signatures_for(tracker[p], r)) => current_round[p] > r

EndedInv == losses = 0 => \A p \in Honest : Moved(p)

\* Nobody is no quorum.
LEMMA EmptyHasNoQuorum == \A r : ~IsQuorum(signatures_for(EmptyTracker, r))
<1>1. \A r : signatures_for(EmptyTracker, r) = {}
  BY DEF signatures_for, EmptyTracker
<1>2. ASSUME IsQuorum({})
      PROVE  FALSE
  BY <1>2, QuorumsIntersect
<1> QED
  BY <1>1, <1>2

\* An accepted vote completes at most the quorum of its own round.
LEMMA AcceptedMoves ==
    ASSUME TypeOK, NEW p \in Honest, NEW q \in Members, NEW r \in Rounds, Moved(p),
           OnAccepted(p, add_vote(tracker[p], q, r), r), peered'[p] = peered[p]
    PROVE  Moved(p)' /\ \A o \in Honest \ {p} : /\ tracker'[o] = tracker[o]
                                                 /\ highest_tc'[o] = highest_tc[o]
                                                 /\ current_round'[o] = current_round[o]
<1> DEFINE t == add_vote(tracker[p], q, r)
           after == RecordTimeoutCertificate(p, t, r)
<1>1. /\ MaxRound \in Nat /\ current_round[p] \in Rounds /\ highest_tc[p] \in Rounds \cup {NoRound}
      /\ tracker[p] \in Trackers
  BY TrackerAssumption DEF TypeOK
<1>2. /\ tracker' = [tracker EXCEPT ![p] = t]
      /\ highest_tc' = [highest_tc EXCEPT ![p] = after.tc]
      /\ current_round' = [current_round EXCEPT ![p] = CatchUp(t, after.round)]
  BY DEF OnAccepted
<1>3. ASSUME NEW s \in Rounds, s # r
      PROVE  signatures_for(t, s) \subseteq signatures_for(tracker[p], s)
  BY <1>3 DEF signatures_for, add_vote
<1> HIDE DEF t
<1>4. /\ after.round \in Rounds /\ after.tc \in Rounds \cup {NoRound}
      /\ after.round >= current_round[p] /\ after.tc < after.round
      /\ r < MaxRound /\ IsQuorum(signatures_for(t, r)) => after.round > r
  BY <1>1 DEF RecordTimeoutCertificate, TcAdvance, Rounds, NoRound, Moved
<1> HIDE DEF after
<1>5. CatchUp(t, after.round) \in Rounds /\ CatchUp(t, after.round) >= after.round
  BY <1>4, CatchUpRises
<1>6. /\ tracker'[p] = t /\ highest_tc'[p] = after.tc
      /\ current_round'[p] \in Rounds /\ current_round'[p] >= after.round
  BY <1>2, <1>5 DEF TypeOK
<1>7. highest_tc'[p] < current_round'[p]
  BY <1>4, <1>6 DEF Rounds, NoRound
<1>8. ASSUME NEW s \in Rounds, s < MaxRound, IsQuorum(signatures_for(t, s))
      PROVE  current_round'[p] > s
  <2>1. CASE s = r
    BY <1>4, <1>6, <1>8, <2>1 DEF Rounds
  <2>2. CASE s # r
    <3>1. IsQuorum(signatures_for(tracker[p], s))
      BY <1>3, <1>8, <2>2, QuorumMonotone
    <3>2. current_round[p] > s
      BY <1>8, <3>1 DEF Moved
    <3> QED
      BY <1>1, <1>4, <1>6, <3>2 DEF Rounds
  <2> QED
    BY <2>1, <2>2
<1>9. Moved(p)'
  BY <1>6, <1>7, <1>8 DEF Moved, signatures_for
<1>10. \A o \in Honest \ {p} : /\ tracker'[o] = tracker[o]
                               /\ highest_tc'[o] = highest_tc[o]
                               /\ current_round'[o] = current_round[o]
  BY <1>2 DEF TypeOK
<1> QED
  BY <1>9, <1>10

\* What one node does leaves the others where they are.
LEMMA OthersMoved ==
    ASSUME NEW p \in Honest, \A q \in Honest : Moved(q), Moved(p)',
           \A q \in Honest \ {p} : /\ tracker'[q] = tracker[q]
                                   /\ highest_tc'[q] = highest_tc[q]
                                   /\ current_round'[q] = current_round[q]
                                   /\ peered'[q] = peered[q]
    PROVE  \A q \in Honest : Moved(q)'
  BY DEF Moved, signatures_for

LEMMA EndedStep == SyncInv /\ EndedInv /\ [Next]_vars => EndedInv'
<1> SUFFICES ASSUME SyncInv, EndedInv, [Next]_vars, losses' = 0
             PROVE  \A q \in Honest : Moved(q)'
  BY DEF EndedInv
<1>1. TypeOK /\ losses \in Nat
  BY DEF SyncInv, FollowInv, TypeOK
<1>2. CASE UNCHANGED vars
  BY <1>2 DEF vars, memory, EndedInv, Moved, signatures_for
<1>3. CASE Next
  <2>1. PICK p \in Running :
          \/ TimeoutVote(p)
          \/ \E q \in Members, r \in Rounds : Receive(p, q, r)
          \/ \E r \in Rounds, pol \in BOOLEAN : HandlePropose(p, r, pol)
          \/ \E voted \in BOOLEAN : PeerLoss(p, voted)
          \/ \E long \in BOOLEAN : Reconnect(p, long)
          \/ Restart(p)
    BY <1>3 DEF Next
  <2>2. p \in Honest /\ p \in Members /\ current_round[p] \in Rounds
    BY <1>1, SyncAssumption DEF TypeOK, Honest
  <2>3. losses = 0
    <3>1. losses' \in {losses, losses + 1}
      BY <2>1 DEF TimeoutVote, Receive, HandlePropose, PeerLoss, Reconnect, Restart
    <3> QED
      BY <1>1, <3>1
  <2>4. \A q \in Honest : Moved(q)
    BY <2>3 DEF EndedInv
  <2>5. CASE TimeoutVote(p)
    <3>1. CASE Accepts(tracker[p], p, current_round[p])
      <4>1. OnAccepted(p, add_vote(tracker[p], p, current_round[p]), current_round[p]) /\ UNCHANGED peered
        BY <2>5, <3>1 DEF TimeoutVote
      <4> QED
        BY <1>1, <2>2, <2>4, <4>1, AcceptedMoves, OthersMoved
    <3>2. CASE ~Accepts(tracker[p], p, current_round[p])
      BY <2>4, <2>5, <3>2 DEF TimeoutVote, Moved, signatures_for
    <3> QED
      BY <3>1, <3>2
  <2>6. ASSUME NEW q \in Members, NEW r \in Rounds, Receive(p, q, r)
        PROVE  \A o \in Honest : Moved(o)'
    <3>1. CASE NoteVote(p, q, r)
      <4> DEFINE t == note_latest_round(tracker[p], q, r)
      <4>1. /\ tracker' = [tracker EXCEPT ![p] = t] /\ UNCHANGED <<highest_tc, peered>>
            /\ current_round' = [current_round EXCEPT ![p] = CatchUp(t, current_round[p])]
        BY <2>6, <3>1 DEF NoteVote, Receive
      <4>2. tracker[p] \in Trackers /\ t.held = tracker[p].held
        BY <1>1, <2>2 DEF TypeOK, note_latest_round, Trackers
      <4> HIDE DEF t
      <4>3. CatchUp(t, current_round[p]) \in Rounds /\ CatchUp(t, current_round[p]) >= current_round[p]
        BY <2>2, CatchUpRises
      <4>4. /\ tracker'[p] = t /\ current_round'[p] \in Rounds /\ current_round'[p] >= current_round[p]
            /\ highest_tc'[p] = highest_tc[p] /\ highest_tc[p] \in Rounds \cup {NoRound}
            /\ \A o \in Honest \ {p} : tracker'[o] = tracker[o] /\ current_round'[o] = current_round[o]
        BY <1>1, <2>2, <4>1, <4>3 DEF TypeOK
      <4>5. \A s : signatures_for(tracker'[p], s) = signatures_for(tracker[p], s)
        BY <4>2, <4>4 DEF signatures_for
      <4>6. highest_tc'[p] < current_round'[p]
        BY <2>2, <2>4, <4>4 DEF Moved, Rounds, NoRound
      <4>7. \A s \in Rounds : current_round[p] > s => current_round'[p] > s
        BY <2>2, <4>4 DEF Rounds
      <4>8. Moved(p)'
        BY <2>2, <2>4, <4>1, <4>5, <4>6, <4>7 DEF Moved, signatures_for
      <4> QED
        BY <2>2, <2>4, <4>1, <4>4, <4>8, OthersMoved
    <3>2. CASE HoldVote(p, q, r)
      <4>1. OnAccepted(p, add_vote(tracker[p], q, r), r) /\ UNCHANGED peered
        BY <2>6, <3>2 DEF HoldVote, Receive
      <4> QED
        BY <1>1, <2>2, <2>4, <4>1, AcceptedMoves, OthersMoved
    <3> QED
      BY <2>6, <3>1, <3>2 DEF Receive
  <2>7. ASSUME NEW r \in Rounds, NEW pol, HandlePropose(p, r, pol)
        PROVE  \A o \in Honest : Moved(o)'
    <3>1. /\ UNCHANGED <<tracker, highest_tc, peered>> /\ r > current_round[p]
          /\ current_round'[p] = r /\ \A o \in Honest \ {p} : current_round'[o] = current_round[o]
      BY <1>1, <2>2, <2>7 DEF HandlePropose, TypeOK
    <3>2. highest_tc'[p] < current_round'[p] /\ \A s \in Rounds : current_round[p] > s => current_round'[p] > s
      <4>1. highest_tc[p] \in Rounds \cup {NoRound} /\ highest_tc[p] < current_round[p]
        BY <1>1, <2>2, <2>4 DEF TypeOK, Moved
      <4> QED
        BY <2>2, <3>1, <4>1 DEF Rounds, NoRound
    <3>3. Moved(p)'
      BY <2>2, <2>4, <3>1, <3>2 DEF Moved, signatures_for
    <3> QED
      BY <2>2, <2>4, <3>1, <3>3, OthersMoved
  <2>8. ASSUME NEW voted, PeerLoss(p, voted)
        PROVE  FALSE
    BY <2>3, <2>8 DEF PeerLoss
  <2>9. ASSUME NEW long, Reconnect(p, long)
        PROVE  FALSE
    BY <2>2, <2>4, <2>9 DEF Reconnect, Moved
  <2>10. CASE Restart(p)
    <3>1. /\ tracker'[p] = EmptyTracker /\ highest_tc'[p] = NoRound /\ current_round'[p] = 0
          /\ \A o \in Honest \ {p} : /\ tracker'[o] = tracker[o]
                                     /\ highest_tc'[o] = highest_tc[o]
                                     /\ current_round'[o] = current_round[o]
      BY <1>1, <2>2, <2>10 DEF Restart, TypeOK
    <3>2. peered'[p] /\ \A o \in Honest \ {p} : peered'[o] = peered[o]
      BY <1>1, <2>2, <2>10 DEF Restart, TypeOK
    <3>3. \A r : ~IsQuorum(signatures_for(tracker'[p], r))
      BY <3>1, EmptyHasNoQuorum
    <3>4. highest_tc'[p] < current_round'[p]
      BY <3>1 DEF NoRound
    <3>5. Moved(p)'
      BY <3>2, <3>3, <3>4 DEF Moved, signatures_for
    <3> QED
      BY <2>2, <2>4, <3>1, <3>2, <3>5, OthersMoved
  <2> QED
    BY <2>1, <2>5, <2>6, <2>7, <2>8, <2>9, <2>10
<1> QED
  BY <1>2, <1>3

\* "On TC for (h, r): move to r + 1": until some node loses its last peer, no node
\* waits in a round for which it holds a quorum of timeout votes, through any
\* number of restarts (maybe_record_timeout_certificate_locked).
THEOREM CertificatesEndRounds == Spec => [](losses = 0 => CertificateEndsRound)
<1>1. Init => EndedInv
  <2> SUFFICES ASSUME Init, NEW p \in Honest
               PROVE  Moved(p)
    BY DEF EndedInv
  <2>1. peered[p] /\ highest_tc[p] = NoRound /\ current_round[p] = 0 /\ tracker[p] = EmptyTracker
    BY DEF Init
  <2> QED
    BY <2>1, EmptyHasNoQuorum DEF Moved, NoRound
<1>2. SyncInv /\ EndedInv => (losses = 0 => CertificateEndsRound)
  <2> SUFFICES ASSUME SyncInv, losses = 0, EndedInv, NEW p \in Honest, current_round[p] < MaxRound,
                      IsQuorum(signatures_for(tracker[p], current_round[p]))
               PROVE  FALSE
    BY DEF CertificateEndsRound
  <2>1. current_round[p] \in Rounds
    BY DEF SyncInv, FollowInv, TypeOK
  <2>2. current_round[p] > current_round[p]
    BY <2>1 DEF EndedInv, Moved
  <2> QED
    BY <2>1, <2>2 DEF Rounds
<1> QED
  BY <1>1, <1>2, EndedStep, SyncInvariant, PTL DEF Spec
=============================================================================
