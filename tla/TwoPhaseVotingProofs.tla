------------------------ MODULE TwoPhaseVotingProofs ------------------------
(* CertificateAgreement of VotingRules for every committee with             *)
(* 3 * Faulty < Members and every number of rounds; then TwoPhaseVoting     *)
(* implements VotingRules and HeightFinality, for every committee, number   *)
(* of rounds, restarts and failing writes.                                  *)
EXTENDS TwoPhaseVoting, QuorumProofs

---------------------------------------------------------------------------
(* The voting rules.                                                        *)

\* A vote is a round and a transition.
LEMMA VoteShape ==
    ASSUME VotesTypeOK, NEW p \in Honest,
           NEW v \in prevotes[p] \cup precommits[p]
    PROVE  v[1] \in Rounds /\ v[2] \in Transitions /\ v = <<v[1], v[2]>>
  BY DEF VotesTypeOK, Votes

\* Votes only accumulate, and a new precommit is never below a prevote already
\* signed: the vote-round floor of on_prevotes_changed_locked.
Accumulates ==
    /\ \A p \in Honest : /\ prevotes[p] \subseteq prevotes'[p]
                         /\ precommits[p] \subseteq precommits'[p]
    /\ \A p \in Honest : \A v \in precommits'[p] :
          v \in precommits[p] \/ \A u \in prevotes[p] : u[1] <= v[1]

LEMMA StepAccumulates ==
    ASSUME VotesTypeOK, RulesNext
    PROVE  VotesTypeOK' /\ Accumulates
<1>1. PICK p \in Honest, r \in Rounds, id \in Transitions :
          SignPrevote(p, r, id) \/ SignPrecommit(p, r, id) \/ SignBoth(p, r, id)
  BY DEF RulesNext
<1>2. CASE SignPrevote(p, r, id)
  BY <1>2 DEF SignPrevote, VotesTypeOK, Votes, Accumulates
<1>3. CASE SignPrecommit(p, r, id)
  BY <1>3 DEF SignPrecommit, MaySignPrecommit, VotesTypeOK, Votes, Accumulates
<1>4. CASE SignBoth(p, r, id)
  BY <1>4 DEF SignBoth, MaySignPrecommit, VotesTypeOK, Votes, Accumulates
<1> QED
  BY <1>1, <1>2, <1>3, <1>4

\* A polka, once assembled, can always be assembled again.
LEMMA PolkaStable ==
    ASSUME Accumulates, NEW r, NEW id, HasPolka(r, id)
    PROVE  HasPolka(r, id)'
<1>1. Signed(prevotes, r, id) \subseteq Signed(prevotes', r, id)
  BY DEF Accumulates, Signed
<1>2. IsQuorum(Signed(prevotes, r, id))
  BY DEF HasPolka
<1>3. IsQuorum(Signed(prevotes', r, id))
  BY <1>1, <1>2, QuorumMonotone
<1> QED
  BY <1>3 DEF HasPolka

\* A prevote that respects its caster's precommits keeps doing so.
LEMMA RespectsStable ==
    ASSUME VotesTypeOK, VotesTypeOK', Accumulates,
           NEW p \in Honest, NEW u \in prevotes[p], Respects(p, u)
    PROVE  Respects(p, u)'
<1> SUFFICES ASSUME NEW v \in precommits'[p], v[1] < u[1], v[2] # u[2]
             PROVE  \E pol \in Rounds : v[1] <= pol /\ pol < u[1] /\ HasPolka(pol, u[2])'
  BY DEF Respects
<1>1. v[1] \in Rounds /\ u[1] \in Rounds
  BY DEF VotesTypeOK, Votes
<1>2. v \in precommits[p]
  BY <1>1, RulesAssumption DEF Accumulates, Rounds
<1>3. PICK pol \in Rounds : v[1] <= pol /\ pol < u[1] /\ HasPolka(pol, u[2])
  BY <1>2 DEF Respects
<1> QED
  BY <1>3, PolkaStable

\* No step makes a precommit possible again.
LEMMA MayStillPrecommitShrinks ==
    ASSUME Accumulates, NEW p \in Honest, NEW r \in Rounds, NEW id \in Transitions,
           MayStillPrecommit(p, r, id)'
    PROVE  MayStillPrecommit(p, r, id)
<1>1. CASE <<r, id>> \in precommits'[p]
  BY <1>1 DEF Accumulates, MayStillPrecommit
<1>2. CASE \A u \in prevotes'[p] : u[1] <= r
  BY <1>2 DEF Accumulates, MayStillPrecommit
<1> QED
  BY <1>1, <1>2 DEF MayStillPrecommit

\* One polka a round: an honest member of two would have prevoted twice.
LEMMA OnePolkaPerRound ==
    ASSUME VotesTypeOK, OneVotePerRound,
           NEW r \in Rounds, NEW a, NEW b, HasPolka(r, a), HasPolka(r, b)
    PROVE  a = b
<1>1. PICK p \in Honest : p \in Signed(prevotes, r, a) /\ p \in Signed(prevotes, r, b)
  BY QuorumsIntersect DEF HasPolka
<1>2. <<r, a>> \in prevotes[p] /\ <<r, b>> \in prevotes[p]
  BY <1>1 DEF Signed, Honest
<1>3. <<r, a>>[1] = <<r, b>>[1] => <<r, a>> = <<r, b>>
  BY <1>2 DEF OneVotePerRound
<1> QED
  BY <1>3

---------------------------------------------------------------------------
(* The invariant is inductive.                                              *)

\* One prevote and one precommit a round, whatever a member signs next.
LEMMA OneVoteStep ==
    ASSUME RulesInv, RulesNext
    PROVE  OneVotePerRound'
<1>1. PICK p \in Honest, r \in Rounds, id \in Transitions :
          SignPrevote(p, r, id) \/ SignPrecommit(p, r, id) \/ SignBoth(p, r, id)
  BY DEF RulesNext
<1>2. VotesTypeOK /\ OneVotePerRound
  BY DEF RulesInv
<1>3. \A q \in Honest : /\ \A v \in prevotes[q] : v[1] \in Int
                        /\ \A v \in precommits[q] : v[1] \in Int
  BY <1>2, RulesAssumption DEF VotesTypeOK, Votes, Rounds
<1>4. r \in Int
  BY RulesAssumption DEF Rounds
<1>5. CASE SignPrevote(p, r, id)
  BY <1>2, <1>3, <1>4, <1>5 DEF SignPrevote, MaySignPrevote, OneVotePerRound, VotesTypeOK
<1>6. CASE SignPrecommit(p, r, id)
  BY <1>2, <1>3, <1>4, <1>6 DEF SignPrecommit, MaySignPrecommit, OneVotePerRound, VotesTypeOK
<1>7. CASE SignBoth(p, r, id)
  BY <1>2, <1>3, <1>4, <1>7 DEF SignBoth, MaySignPrecommit, OneVotePerRound, VotesTypeOK
<1> QED
  BY <1>1, <1>5, <1>6, <1>7

\* A precommit is signed on a polka, and polkas last.
LEMMA PrecommitPolkaStep ==
    ASSUME RulesInv, RulesNext
    PROVE  PrecommitsHavePolkas'
<1>1. VotesTypeOK /\ PrecommitsHavePolkas
  BY DEF RulesInv
<1>2. VotesTypeOK' /\ Accumulates
  BY <1>1, StepAccumulates
<1>3. PICK p \in Honest, r \in Rounds, id \in Transitions :
          SignPrevote(p, r, id) \/ SignPrecommit(p, r, id) \/ SignBoth(p, r, id)
  BY DEF RulesNext
<1> SUFFICES ASSUME NEW q \in Honest, NEW v \in precommits'[q]
             PROVE  HasPolka(v[1], v[2])'
  BY DEF PrecommitsHavePolkas
<1>4. CASE v \in precommits[q]
  BY <1>1, <1>2, <1>4, PolkaStable DEF PrecommitsHavePolkas
<1>5. CASE v \notin precommits[q]
  <2>1. MaySignPrecommit(prevotes[p], precommits[p], r, id) /\ v = <<r, id>>
    BY <1>1, <1>3, <1>5 DEF SignPrevote, SignPrecommit, SignBoth, VotesTypeOK
  <2>2. HasPolka(r, id)
    BY <2>1 DEF MaySignPrecommit
  <2> QED
    BY <1>2, <2>1, <2>2, PolkaStable
<1> QED
  BY <1>4, <1>5

\* The lock rule: a new prevote respects the precommits of its caster, or its
\* transition already has the round's polka.
LEMMA NewPrevoteRespectsLock ==
    ASSUME RulesInv, NEW p \in Honest, NEW r \in Rounds, NEW id \in Transitions,
           MaySignPrevote(prevotes[p], precommits[p], r, id)
    PROVE  Respects(p, <<r, id>>) \/ HasPolka(r, id)
<1>1. VotesTypeOK /\ OneVotePerRound /\ PrecommitsHavePolkas
  BY DEF RulesInv
<1>2. CASE precommits[p] = {}
  BY <1>2 DEF Respects
<1>3. CASE precommits[p] # {}
  <2>1. PICK k \in precommits[p] :
            /\ IsLock(precommits[p], k)
            /\ \/ k[2] = id
               \/ \E pol \in Rounds : k[1] <= pol /\ pol < r /\ HasPolka(pol, id)
    BY <1>3 DEF MaySignPrevote, LockPermits
  <2>2. HasPolka(k[1], k[2]) /\ k[1] <= r
    BY <1>1 DEF PrecommitsHavePolkas, MaySignPrevote
  <2> SUFFICES ASSUME ~HasPolka(r, id), NEW v \in precommits[p], v[1] < r, v[2] # id
               PROVE  \E pol \in Rounds : v[1] <= pol /\ pol < r /\ HasPolka(pol, id)
    BY DEF Respects
  <2>3. v[1] \in Rounds /\ k[1] \in Rounds /\ v[1] <= k[1]
    BY <1>1, <2>1 DEF VotesTypeOK, Votes, IsLock
  <2>4. CASE k[2] = id
    <3>1. k[1] # r
      BY <2>2, <2>4
    <3> QED
      BY <2>2, <2>3, <2>4, <3>1, RulesAssumption DEF Rounds
  <2>5. CASE \E pol \in Rounds : k[1] <= pol /\ pol < r /\ HasPolka(pol, id)
    BY <2>3, <2>5, RulesAssumption DEF Rounds
  <2> QED
    BY <2>1, <2>4, <2>5
<1> QED
  BY <1>2, <1>3

LEMMA PrevotesRespectLocksStep ==
    ASSUME RulesInv, RulesNext
    PROVE  PrevotesRespectLocks'
<1>1. VotesTypeOK /\ PrevotesRespectLocks
  BY DEF RulesInv
<1>2. VotesTypeOK' /\ Accumulates
  BY <1>1, StepAccumulates
<1>3. PICK p \in Honest, r \in Rounds, id \in Transitions :
          SignPrevote(p, r, id) \/ SignPrecommit(p, r, id) \/ SignBoth(p, r, id)
  BY DEF RulesNext
<1> SUFFICES ASSUME NEW q \in Honest, NEW u \in prevotes'[q]
             PROVE  Respects(q, u)' \/ HasPolka(u[1], u[2])'
  BY DEF PrevotesRespectLocks
<1>4. CASE u \in prevotes[q]
  BY <1>1, <1>2, <1>4, PolkaStable, RespectsStable DEF PrevotesRespectLocks
<1>5. CASE u \notin prevotes[q]
  <2>1. /\ q = p
        /\ u = <<r, id>>
        /\ SignPrevote(p, r, id) \/ SignBoth(p, r, id)
    BY <1>1, <1>3, <1>5 DEF SignPrevote, SignPrecommit, SignBoth, VotesTypeOK
  <2>2. CASE SignBoth(p, r, id)
    <3>1. HasPolka(r, id)
      BY <2>2 DEF SignBoth, MaySignPrecommit
    <3> QED
      BY <1>2, <2>1, <3>1, PolkaStable
  <2>3. CASE SignPrevote(p, r, id)
    <3>1. Respects(p, u) \/ HasPolka(r, id)
      BY <2>1, <2>3, NewPrevoteRespectsLock DEF SignPrevote
    <3>2. CASE HasPolka(r, id)
      BY <1>2, <2>1, <3>2, PolkaStable
    <3>3. CASE Respects(p, u)
      <4>1. precommits' = precommits
        BY <2>3 DEF SignPrevote
      <4> QED
        BY <1>2, <2>1, <3>3, <4>1, PolkaStable DEF Respects
    <3> QED
      BY <3>1, <3>2, <3>3
  <2> QED
    BY <2>1, <2>2, <2>3
<1> QED
  BY <1>4, <1>5

\* A step that completes a polka signs a prevote for it, and every prevote of
\* that polka then respects its caster's lock.
LEMMA NewPolka ==
    ASSUME RulesInv, RulesNext, PrevotesRespectLocks',
           NEW r \in Rounds, NEW id \in Transitions,
           HasPolka(r, id)', ~HasPolka(r, id)
    PROVE  /\ UNCHANGED precommits
           /\ \A q \in Rounds, b \in Transitions : q # r => (HasPolka(q, b)' <=> HasPolka(q, b))
           /\ \A q \in Honest : <<r, id>> \in prevotes'[q] => Respects(q, <<r, id>>)'
<1>1. VotesTypeOK /\ PrevotesRespectLocks
  BY DEF RulesInv
<1>2. VotesTypeOK' /\ Accumulates
  BY <1>1, StepAccumulates
<1>3. PICK p \in Honest, s \in Rounds, t \in Transitions :
          SignPrevote(p, s, t) \/ SignPrecommit(p, s, t) \/ SignBoth(p, s, t)
  BY DEF RulesNext
<1>4. \A q \in Rounds, b \in Transitions :
          <<q, b>> # <<s, t>> => Signed(prevotes', q, b) = Signed(prevotes, q, b)
  BY <1>1, <1>3 DEF SignPrevote, SignPrecommit, SignBoth, VotesTypeOK, Signed
<1>5. <<r, id>> = <<s, t>>
  BY <1>4 DEF HasPolka
<1>6. SignPrevote(p, r, id)
  <2>1. ~SignBoth(p, s, t)
    BY <1>5 DEF SignBoth, MaySignPrecommit
  <2>2. ~SignPrecommit(p, s, t)
    BY <1>5 DEF SignPrecommit, MaySignPrecommit
  <2> QED
    BY <1>3, <1>5, <2>1, <2>2
<1>7. UNCHANGED precommits
  BY <1>6 DEF SignPrevote
<1>8. \A q \in Rounds, b \in Transitions : q # r => (HasPolka(q, b)' <=> HasPolka(q, b))
  BY <1>4, <1>5 DEF HasPolka
<1>9. ASSUME NEW q \in Honest, <<r, id>> \in prevotes'[q]
      PROVE  Respects(q, <<r, id>>)'
  <2>1. CASE <<r, id>> \in prevotes[q]
    <3>1. Respects(q, <<r, id>>)
      BY <1>1, <2>1 DEF PrevotesRespectLocks
    <3> QED
      BY <1>1, <1>2, <2>1, <3>1, RespectsStable
  <2>2. CASE <<r, id>> \notin prevotes[q]
    <3>1. q = p
      BY <1>1, <1>6, <1>9, <2>2 DEF SignPrevote, VotesTypeOK
    <3>2. Respects(p, <<r, id>>)
      BY <1>6, NewPrevoteRespectsLock DEF SignPrevote
    <3> QED
      BY <1>2, <1>7, <3>1, <3>2, PolkaStable DEF Respects
  <2> QED
    BY <2>1, <2>2
<1> QED
  BY <1>7, <1>8, <1>9

LEMMA PolkasRespectLocksStep ==
    ASSUME RulesInv, RulesNext, PrevotesRespectLocks'
    PROVE  PolkasRespectLocks'
<1> DEFINE Keepers(r, id) ==
              {p \in Honest : <<r, id>> \in prevotes[p] /\ Respects(p, <<r, id>>)} \cup Faulty
<1>1. VotesTypeOK /\ PolkasRespectLocks
  BY DEF RulesInv
<1>2. VotesTypeOK' /\ Accumulates
  BY <1>1, StepAccumulates
<1> SUFFICES ASSUME NEW r \in Rounds, NEW id \in Transitions, HasPolka(r, id)'
             PROVE  IsQuorum(Keepers(r, id)')
  BY DEF PolkasRespectLocks, IsQuorum
<1>3. CASE HasPolka(r, id)
  <2>1. IsQuorum(Keepers(r, id))
    BY <1>1, <1>3 DEF PolkasRespectLocks
  <2>2. Keepers(r, id) \subseteq Keepers(r, id)'
    BY <1>1, <1>2, RespectsStable DEF Accumulates
  <2> HIDE DEF Keepers
  <2> QED
    BY <2>1, <2>2, QuorumMonotone
<1>4. CASE ~HasPolka(r, id)
  <2>1. Signed(prevotes', r, id) \subseteq Keepers(r, id)'
    BY <1>4, NewPolka DEF Signed
  <2>2. IsQuorum(Signed(prevotes', r, id))
    BY DEF HasPolka
  <2> HIDE DEF Keepers
  <2> QED
    BY <2>1, <2>2, QuorumMonotone
<1> QED
  BY <1>3, <1>4

\* The heart of the argument.  A polka for b completed at round q while a quorum
\* for a at an earlier round r is still possible would have an honest prevote by
\* a member that precommitted a at r: it respects that precommit, so b had a
\* polka between r and q, and r was closed to a already.
LEMMA NoPolkaPastOpenQuorumStep ==
    ASSUME RulesInv, RulesNext, OneVotePerRound', PrecommitsHavePolkas',
           PrevotesRespectLocks'
    PROVE  NoPolkaPastOpenQuorum'
<1> DEFINE MayStill(r, a) == {p \in Honest : MayStillPrecommit(p, r, a)} \cup Faulty
<1>1. VotesTypeOK /\ NoPolkaPastOpenQuorum
  BY DEF RulesInv
<1>2. VotesTypeOK' /\ Accumulates
  BY <1>1, StepAccumulates
<1> SUFFICES ASSUME NEW r \in Rounds, NEW q \in Rounds,
                    NEW a \in Transitions, NEW b \in Transitions,
                    r < q, a # b, HasPolka(q, b)', IsQuorum(MayStill(r, a)')
             PROVE  FALSE
  BY DEF NoPolkaPastOpenQuorum, IsQuorum
<1>3. IsQuorum(MayStill(r, a))
  <2>1. MayStill(r, a)' \subseteq MayStill(r, a)
    BY <1>2, MayStillPrecommitShrinks
  <2> HIDE DEF MayStill
  <2> QED
    BY <2>1, QuorumMonotone
<1>4. CASE HasPolka(q, b)
  BY <1>1, <1>3, <1>4 DEF NoPolkaPastOpenQuorum
<1>5. CASE ~HasPolka(q, b)
  <2>1. PICK p \in Honest : p \in Signed(prevotes', q, b) /\ p \in MayStill(r, a)'
    <3>1. IsQuorum(Signed(prevotes', q, b))
      BY DEF HasPolka
    <3> HIDE DEF MayStill
    <3> QED
      BY <3>1, QuorumsIntersect
  <2>2. <<q, b>> \in prevotes'[p] /\ MayStillPrecommit(p, r, a)'
    BY <2>1 DEF Signed, Honest
  <2>3. <<r, a>> \in precommits'[p]
    <3>1. ~(<<q, b>>[1] <= r)
      BY RulesAssumption DEF Rounds
    <3> QED
      BY <2>2, <3>1 DEF MayStillPrecommit
  <2>4. Respects(p, <<q, b>>)'
    BY <1>5, <2>2, NewPolka
  <2>5. PICK pol \in Rounds : r <= pol /\ pol < q /\ HasPolka(pol, b)'
    BY <2>3, <2>4 DEF Respects
  <2>6. HasPolka(pol, b)
    <3>1. pol # q
      BY <2>5, RulesAssumption DEF Rounds
    <3> QED
      BY <1>5, <2>5, <3>1, NewPolka
  <2>7. CASE pol = r
    <3>1. HasPolka(r, a)'
      BY <2>3 DEF PrecommitsHavePolkas
    <3>2. PICK h \in Honest : h \in Signed(prevotes', r, a) /\ h \in Signed(prevotes', r, b)
      BY <2>5, <2>7, <3>1, QuorumsIntersect DEF HasPolka
    <3>3. <<r, a>> \in prevotes'[h] /\ <<r, b>> \in prevotes'[h]
      BY <3>2 DEF Signed, Honest
    <3> QED
      BY <3>3 DEF OneVotePerRound
  <2>8. CASE pol # r
    <3>1. r < pol
      BY <2>5, <2>8, RulesAssumption DEF Rounds
    <3> QED
      BY <1>1, <1>3, <2>6, <3>1 DEF NoPolkaPastOpenQuorum
  <2> QED
    BY <2>7, <2>8
<1> QED
  BY <1>4, <1>5

LEMMA RulesInvInit ==
    ASSUME RulesInit
    PROVE  RulesInv
<1>1. \A p \in Honest : prevotes[p] = {} /\ precommits[p] = {}
  BY DEF RulesInit
<1>2. VotesTypeOK
  BY DEF RulesInit, VotesTypeOK, Votes
<1>3. ASSUME NEW r, NEW id, HasPolka(r, id)
      PROVE  FALSE
  <2>1. Signed(prevotes, r, id) = Faulty
    BY <1>1 DEF Signed
  <2>2. IsQuorum(Faulty)
    BY <1>3, <2>1 DEF HasPolka
  <2> QED
    BY <2>2, QuorumsIntersect DEF Honest
<1> QED
  BY <1>1, <1>2, <1>3 DEF RulesInv, OneVotePerRound, PrecommitsHavePolkas,
     PrevotesRespectLocks, PolkasRespectLocks, NoPolkaPastOpenQuorum

LEMMA RulesInvStep ==
    ASSUME RulesInv, [RulesNext]_votes
    PROVE  RulesInv'
<1>1. CASE RulesNext
  <2>1. VotesTypeOK'
    BY <1>1, StepAccumulates DEF RulesInv
  <2>2. OneVotePerRound'
    BY <1>1, OneVoteStep
  <2>3. PrecommitsHavePolkas'
    BY <1>1, PrecommitPolkaStep
  <2>4. PrevotesRespectLocks'
    BY <1>1, PrevotesRespectLocksStep
  <2>5. PolkasRespectLocks'
    BY <1>1, <2>4, PolkasRespectLocksStep
  <2>6. NoPolkaPastOpenQuorum'
    BY <1>1, <2>2, <2>3, <2>4, NoPolkaPastOpenQuorumStep
  <2> QED
    BY <2>1, <2>2, <2>3, <2>4, <2>5, <2>6 DEF RulesInv
<1>2. CASE UNCHANGED votes
  <2>1. prevotes' = prevotes /\ precommits' = precommits
    BY <1>2 DEF votes
  <2>2. \A r, id : HasPolka(r, id)' <=> HasPolka(r, id)
    BY <2>1 DEF HasPolka, Signed
  <2>3. \A p, u : Respects(p, u)' <=> Respects(p, u)
    BY <2>1, <2>2 DEF Respects
  <2>4. \A p, r, id : MayStillPrecommit(p, r, id)' <=> MayStillPrecommit(p, r, id)
    BY <2>1 DEF MayStillPrecommit
  <2>5. VotesTypeOK' /\ OneVotePerRound'
    BY <2>1 DEF RulesInv, VotesTypeOK, OneVotePerRound
  <2>6. PrecommitsHavePolkas' /\ PrevotesRespectLocks'
    BY <2>1, <2>2, <2>3 DEF RulesInv, PrecommitsHavePolkas, PrevotesRespectLocks
  <2>7. PolkasRespectLocks'
    <3>1. \A r, id : {p \in Honest : <<r, id>> \in prevotes'[p] /\ Respects(p, <<r, id>>)'}
                    = {p \in Honest : <<r, id>> \in prevotes[p] /\ Respects(p, <<r, id>>)}
      BY <2>1, <2>3
    <3> QED
      BY <2>2, <3>1 DEF RulesInv, PolkasRespectLocks
  <2>8. NoPolkaPastOpenQuorum'
    <3>1. \A r, id : {p \in Honest : MayStillPrecommit(p, r, id)'}
                    = {p \in Honest : MayStillPrecommit(p, r, id)}
      BY <2>4
    <3> QED
      BY <2>2, <3>1 DEF RulesInv, NoPolkaPastOpenQuorum
  <2> QED
    BY <2>5, <2>6, <2>7, <2>8 DEF RulesInv
<1> QED
  BY <1>1, <1>2

---------------------------------------------------------------------------

\* The voting rules of can_prevote_locked, lock_on_polka_locked and the vote-round
\* floor keep the invariant: every polka rests on prevotes that respect the locks
\* of their casters, for any committee and any number of rounds.
THEOREM RulesInvariant == RulesSpec => []RulesInv
  BY RulesInvInit, RulesInvStep, PTL DEF RulesSpec

\* From the invariant, two precommit quorums are for one transition.
LEMMA InvariantGivesAgreement ==
    ASSUME RulesInv
    PROVE  CertificateAgreement
<1>1. VotesTypeOK /\ OneVotePerRound /\ PrecommitsHavePolkas /\ NoPolkaPastOpenQuorum
  BY DEF RulesInv
<1>2. ASSUME NEW r \in Rounds, NEW a \in Transitions, HasPrecommitQuorum(r, a)
      PROVE  /\ HasPolka(r, a)
             /\ IsQuorum({p \in Honest : MayStillPrecommit(p, r, a)} \cup Faulty)
  <2>1. IsQuorum(Signed(precommits, r, a))
    BY <1>2 DEF HasPrecommitQuorum
  <2>2. PICK h \in Honest : h \in Signed(precommits, r, a)
    BY <2>1, QuorumsIntersect
  <2>3. HasPolka(r, a)
    BY <1>1, <2>2 DEF Signed, Honest, PrecommitsHavePolkas
  <2>4. Signed(precommits, r, a)
            \subseteq {p \in Honest : MayStillPrecommit(p, r, a)} \cup Faulty
    BY DEF Signed, MayStillPrecommit
  <2> QED
    BY <2>1, <2>3, <2>4, QuorumMonotone
<1>3. ASSUME NEW r \in Rounds, NEW q \in Rounds, NEW a \in Transitions, NEW b \in Transitions,
             r <= q, HasPrecommitQuorum(r, a), HasPrecommitQuorum(q, b)
      PROVE  a = b
  <2>1. CASE r = q
    BY <1>1, <1>2, <1>3, <2>1, OnePolkaPerRound
  <2>2. CASE r # q
    <3>1. r < q
      BY <1>3, <2>2, RulesAssumption DEF Rounds
    <3> QED
      BY <1>1, <1>2, <1>3, <3>1 DEF NoPolkaPastOpenQuorum
  <2> QED
    BY <2>1, <2>2
<1>4. \A r, q \in Rounds : r <= q \/ q <= r
  BY RulesAssumption DEF Rounds
<1> QED
  BY <1>3, <1>4 DEF CertificateAgreement

\* At most one transition per height can be certified final, in any round, for
\* every committee in which fewer than a third of the members are faulty.
THEOREM CertificatesAgree == RulesSpec => []CertificateAgreement
  BY RulesInvariant, InvariantGivesAgreement, PTL


---------------------------------------------------------------------------
(* Writes.                                                                  *)

\* A write ends in one of three ways.
GoodWrite(w) == \A kind \in {"valid", "lock", "prevote", "final"} :
                    Outcome(w, kind) \in {"durable", "lost", "replayed"}

LEMMA OutcomeType ==
    ASSUME NEW kinds, NEW w \in Writes(kinds)
    PROVE  GoodWrite(w)
<1>1. CASE w = [at |-> "none", outcome |-> "durable"]
  BY <1>1 DEF Outcome, GoodWrite
<1>2. CASE w \in [at : kinds, outcome : WriteFailures]
  BY <1>2, VotingAssumption DEF Outcome, GoodWrite
<1> QED
  BY <1>1, <1>2 DEF Writes

LEMMA RoundBasics ==
    /\ NoRound \notin Rounds
    /\ \A r \in Rounds : r \in Int /\ r > NoRound /\ r >= 0
    /\ \A r \in Rounds \cup {NoRound} : r \in Int /\ r >= NoRound
  BY RulesAssumption DEF Rounds, NoRound

LEMMA RowTypes ==
    /\ EmptyRow \in SafetyRow
    /\ \A id \in Transitions : FinalRow(id) \in SafetyRow
    /\ NoPoint \in VotePoint
  BY DEF EmptyRow, FinalRow, SafetyRow, VotePoint, NoPoint, NoRound

\* A write is durable and published, or it fences the store; then the disk holds
\* the old row or the new one.
LEMMA PersistCases ==
    ASSUME NEW s \in Stores, ~s.failed, NEW row \in SafetyRow,
           NEW outcome \in {"durable", "lost", "replayed"}
    PROVE  /\ Persist(s, row, outcome) \in Stores
           /\ \/ Persist(s, row, outcome) = [mem |-> row, disk |-> row, failed |-> FALSE]
              \/ /\ Persist(s, row, outcome).failed
                 /\ Persist(s, row, outcome).mem = s.mem
                 /\ Persist(s, row, outcome).disk \in {s.disk, row}
<1>1. CASE outcome = "durable"
  BY <1>1 DEF Persist, Stores
<1>2. CASE outcome = "lost"
  BY <1>2 DEF Persist, Stores
<1>3. CASE outcome = "replayed"
  BY <1>3 DEF Persist, Stores
<1> QED
  BY <1>1, <1>2, <1>3

---------------------------------------------------------------------------
(* A row that agrees with another on what was voted.                        *)

SameVotes(a, b) ==
    /\ a.lock = b.lock
    /\ a.prevotes = b.prevotes
    /\ a.abstain = b.abstain
    /\ a.final = b.final

LEMMA SameVotesBacked ==
    ASSUME NEW s, NEW t, NEW pre, NEW com,
           Backed(s, pre, com), SameVotes(t.disk, s.disk),
           t.failed \/ ~s.failed,
           IF t.failed THEN t.mem.final = None ELSE t.mem = t.disk
    PROVE  Backed(t, pre, com)
<1>1. RowWellFormed(t.disk) <=> RowWellFormed(s.disk)
  BY DEF SameVotes, RowWellFormed
<1>2. RowCovers(t.disk, pre, com) <=> RowCovers(s.disk, pre, com)
  BY DEF SameVotes, RowCovers
<1>3. /\ OwnPrevotes(t.disk) = OwnPrevotes(s.disk)
      /\ OwnPrecommits(t.disk) = OwnPrecommits(s.disk)
  BY DEF SameVotes, OwnPrevotes, OwnPrecommits
<1>4. RowSigned(t.disk, pre, com) <=> RowSigned(s.disk, pre, com)
  BY <1>3 DEF RowSigned
<1>5. RowAhead(t.disk, pre, com) <=> RowAhead(s.disk, pre, com)
  BY <1>3 DEF RowAhead, SameVotes
<1> QED
  BY <1>1, <1>2, <1>4, <1>5 DEF Backed, SameVotes

\* Recording the valid value touches nothing that was voted.
LEMMA ValidValueKeepsVotes ==
    ASSUME NEW s \in Stores, ~s.failed, s.mem.final = None,
           NEW pre, NEW com, Backed(s, pre, com),
           NEW id \in Transitions, NEW r \in Rounds, NEW w, GoodWrite(w),
           NEW t, t = ValidValueStored(s, id, r, w)
    PROVE  /\ t \in Stores
           /\ Backed(t, pre, com)
           /\ SameVotes(t.mem, s.mem)
           /\ SameVotes(t.disk, s.disk)
<1> DEFINE row == [s.mem EXCEPT !.valid = [id |-> id, round |-> r]]
<1>1. row \in SafetyRow /\ SameVotes(row, s.mem) /\ s.mem = s.disk
  BY DEF Stores, SafetyRow, VotePoint, SameVotes, Backed
<1>2. /\ r > s.mem.valid.round => t = Persist(s, row, Outcome(w, "valid"))
      /\ ~(r > s.mem.valid.round) => t = s
  BY DEF ValidValueStored
<1> HIDE DEF row
<1>3. CASE r > s.mem.valid.round
  <2>1. t = Persist(s, row, Outcome(w, "valid"))
    BY <1>2, <1>3
  <2>2. /\ t \in Stores
        /\ \/ t = [mem |-> row, disk |-> row, failed |-> FALSE]
           \/ t.failed /\ t.mem = s.mem /\ t.disk \in {s.disk, row}
    BY <1>1, <2>1, PersistCases DEF GoodWrite
  <2>3. SameVotes(t.mem, s.mem) /\ SameVotes(t.disk, s.disk)
    BY <1>1, <2>2 DEF SameVotes
  <2>4. IF t.failed THEN t.mem.final = None ELSE t.mem = t.disk
    BY <2>2
  <2> QED
    BY <2>2, <2>3, <2>4, SameVotesBacked
<1>4. CASE ~(r > s.mem.valid.round)
  BY <1>2, <1>4 DEF SameVotes
<1> QED
  BY <1>3, <1>4

---------------------------------------------------------------------------
(* What the row says of the votes signed so far.                            *)

LEMMA RowBoundsVotes ==
    ASSUME NEW row \in SafetyRow, NEW pre \in Votes, NEW com \in Votes,
           RowCovers(row, pre, com)
    PROVE  /\ \A u \in pre : u[1] \in Rounds /\ row.prevotes[u[1]] # None
           /\ \A v \in com : v[1] \in Rounds /\ v[1] <= row.lock.round
           /\ row.lock = NoPoint => com = {}
           /\ row.lock.round \in Int
<1>1. row.lock.round \in Rounds \cup {NoRound} /\ row.lock.round \in Int
  BY RoundBasics DEF SafetyRow, VotePoint, NoPoint
<1>2. ASSUME NEW u \in pre
      PROVE  u[1] \in Rounds /\ row.prevotes[u[1]] # None
  BY VotingAssumption DEF Votes, RowCovers
<1>3. ASSUME NEW v \in com
      PROVE  v[1] \in Rounds /\ v[1] <= row.lock.round
  <2>1. v[1] \in Rounds /\ v[1] \in Int
    BY RoundBasics DEF Votes
  <2>2. row.lock.round > v[1] \/ v = AsVote(row.lock)
    BY DEF RowCovers
  <2>3. CASE row.lock.round > v[1]
    BY <1>1, <2>1, <2>3
  <2>4. CASE v = AsVote(row.lock)
    BY <1>1, <2>1, <2>4 DEF AsVote
  <2> QED
    BY <2>2, <2>3, <2>4
<1>4. ASSUME row.lock = NoPoint, NEW v \in com
      PROVE  FALSE
  BY <1>3, <1>4, RoundBasics DEF NoPoint
<1> QED
  BY <1>1, <1>2, <1>3, <1>4

\* Above the vote-round floor every earlier vote is in this round or before it.
LEMMA AboveFloor ==
    ASSUME NEW row \in SafetyRow, NEW pre \in Votes, NEW com \in Votes,
           RowCovers(row, pre, com), NEW r \in Rounds, ~BelowVoteFloor(row, r)
    PROVE  /\ \A u \in pre : u[1] <= r
           /\ \A v \in com : v[1] <= r
           /\ row.lock.round <= r
<1>1. row.lock.round \in Int /\ r \in Int /\ row.lock.round <= r
  BY RowBoundsVotes, RoundBasics DEF BelowVoteFloor
<1>2. ASSUME NEW u \in pre
      PROVE  u[1] <= r
  BY <1>1, RowBoundsVotes, RoundBasics DEF BelowVoteFloor
<1>3. ASSUME NEW v \in com
      PROVE  v[1] <= r
  <2>1. v[1] \in Int /\ v[1] <= row.lock.round
    BY RowBoundsVotes, RoundBasics
  <2> QED
    BY <1>1, <2>1
<1> QED
  BY <1>1, <1>2, <1>3

\* The lock is durable before the precommit is signed; a failed write of the lock
\* leaves at most a lock that may still be precommitted.
LockKept(s, pre, com, id, r, w) ==
    LET t == lock_on_polka(s, id, r, w)
        c == LockedVote(t, id, r)
    IN  /\ t \in Stores
        /\ Backed(t, pre, com \cup c)
        /\ c \in {{}, {<<r, id>>}}
        /\ com \cup c = com \/ MaySignPrecommit(pre, com, r, id)
        /\ t.mem.final = None /\ t.disk.final = None

LEMMA LockStep ==
    ASSUME NEW s \in Stores, ~s.failed, s.mem.final = None, ~s.mem.abstain,
           NEW pre \in Votes, NEW com \in Votes, Backed(s, pre, com),
           NEW id \in Transitions, NEW r \in Rounds,
           HasPolka(r, id), ~BelowVoteFloor(s.mem, r), NEW w, GoodWrite(w)
    PROVE  LockKept(s, pre, com, id, r, w)
<1>t. PICK t : t = lock_on_polka(s, id, r, w)
  OBVIOUS
<1>c. PICK c : c = LockedVote(t, id, r)
  OBVIOUS
<1> SUFFICES /\ t \in Stores
             /\ Backed(t, pre, com \cup c)
             /\ c \in {{}, {<<r, id>>}}
             /\ com \cup c = com \/ MaySignPrecommit(pre, com, r, id)
             /\ t.mem.final = None /\ t.disk.final = None
  BY <1>t, <1>c DEF LockKept
<1> DEFINE row == [s.mem EXCEPT !.lock = [id |-> id, round |-> r]]
<1>1. /\ s.mem = s.disk /\ s.mem \in SafetyRow
      /\ RowCovers(s.disk, pre, com) /\ RowSigned(s.disk, pre, com)
  BY DEF Backed, Stores
<1>2. /\ row \in SafetyRow
      /\ row.lock = [id |-> id, round |-> r]
      /\ row.prevotes = s.mem.prevotes /\ row.final = None /\ row.abstain = FALSE
  BY <1>1 DEF SafetyRow, VotePoint
<1>3. /\ r > s.mem.lock.round => t = Persist(s, row, Outcome(w, "lock"))
      /\ ~(r > s.mem.lock.round) => t = s
  BY <1>t DEF lock_on_polka
<1>4. IF ~t.failed /\ t.mem.lock = [id |-> id, round |-> r] THEN c = {<<r, id>>} ELSE c = {}
  BY <1>c DEF LockedVote
<1> HIDE DEF row
<1>5. CASE r > s.mem.lock.round
  <2>1. MaySignPrecommit(pre, com, r, id)
    <3>1. \A u \in pre : u[1] <= r
      BY <1>1, AboveFloor
    <3>2. \A v \in com : v[1] < r
      BY <1>1, <1>5, RowBoundsVotes, RoundBasics
    <3> QED
      BY <3>1, <3>2 DEF MaySignPrecommit
  <2>2. /\ t \in Stores
        /\ \/ t = [mem |-> row, disk |-> row, failed |-> FALSE]
           \/ t.failed /\ t.mem = s.mem /\ t.disk \in {s.disk, row}
    BY <1>2, <1>3, <1>5, PersistCases DEF GoodWrite
  <2>3. RowWellFormed(row) /\ row.lock # NoPoint
    BY <1>2, RoundBasics DEF RowWellFormed, NoPoint
  <2>4. \A d \in SUBSET {<<r, id>>} : RowCovers(row, pre, com \cup d)
    <3>1. \A u \in pre : row.prevotes[u[1]] = u[2]
      BY <1>1, <1>2 DEF RowCovers
    <3>2. \A v \in com : row.lock.round > v[1]
      BY <1>2, <2>1, RoundBasics DEF MaySignPrecommit, Votes
    <3>3. <<r, id>> = AsVote(row.lock)
      BY <1>2 DEF AsVote
    <3> QED
      BY <3>1, <3>2, <3>3 DEF RowCovers
  <2>5. OwnPrevotes(row) \subseteq pre /\ OwnPrecommits(row) = {<<r, id>>}
    BY <1>1, <1>2, <2>3 DEF RowSigned, OwnPrevotes, OwnPrecommits
  <2>6. CASE t = [mem |-> row, disk |-> row, failed |-> FALSE]
    <3>stored. ~t.failed /\ t.mem = row /\ t.disk = row
      BY <2>6
    <3>1. c = {<<r, id>>}
      BY <1>2, <1>4, <3>stored
    <3>2. RowCovers(row, pre, com \cup c) /\ RowSigned(row, pre, com \cup c)
      BY <2>4, <2>5, <3>1 DEF RowSigned
    <3>3. Backed(t, pre, com \cup c)
      BY <1>2, <2>3, <2>6, <3>2 DEF Backed
    <3> QED
      BY <1>2, <2>1, <2>2, <3>stored, <3>1, <3>3
  <2>7. CASE t.failed /\ t.mem = s.mem /\ t.disk = s.disk
    <3>1. c = {} /\ com \cup c = com
      BY <1>4, <2>7
    <3>2. Backed(t, pre, com)
      BY <2>7, SameVotesBacked DEF SameVotes
    <3> QED
      BY <1>1, <2>2, <2>7, <3>1, <3>2
  <2>8. CASE t.failed /\ t.mem = s.mem /\ t.disk = row
    <3>1. c = {} /\ com \cup c = com
      BY <1>4, <2>8
    <3>2. RowAhead(row, pre, com)
      BY <1>2, <2>1, <2>3, <2>5 DEF RowAhead
    <3>3. RowCovers(row, pre, com)
      BY <2>4, <3>1
    <3>4. Backed(t, pre, com)
      BY <1>2, <2>3, <2>8, <3>2, <3>3 DEF Backed
    <3> QED
      BY <1>1, <1>2, <2>2, <2>8, <3>1, <3>4
  <2> QED
    BY <2>2, <2>6, <2>7, <2>8
<1>6. CASE ~(r > s.mem.lock.round)
  <2>1. t = s
    BY <1>3, <1>6
  <2>2. c \subseteq com
    <3>1. CASE s.mem.lock = [id |-> id, round |-> r]
      <4>1. <<r, id>> \in OwnPrecommits(s.disk)
        BY <1>1, <3>1, RoundBasics DEF OwnPrecommits, NoPoint
      <4> QED
        BY <1>1, <1>4, <4>1 DEF RowSigned
    <3> QED
      BY <1>4, <2>1, <3>1
  <2>3. com \cup c = com
    BY <2>2
  <2> QED
    BY <1>1, <1>4, <2>1, <2>3
<1> QED
  BY <1>5, <1>6

\* The prevote is durable before it is signed, one a round and within the lock; a
\* failed write leaves at most a prevote that may still be signed.
PrevoteKept(s, pre, com, id, r, w) ==
    LET t == record_local_prevote(s, id, r, w)
        d == RecordedVote(t, id, r)
    IN  /\ t \in Stores
        /\ Backed(t, pre \cup d, com)
        /\ d \in {{}, {<<r, id>>}}
        /\ MaySignPrevote(pre, com, r, id)
        /\ t.mem.final = None /\ t.disk.final = None

LEMMA PrevoteStep ==
    ASSUME NEW s \in Stores, ~s.failed, s.mem.final = None,
           NEW pre \in Votes, NEW com \in Votes, Backed(s, pre, com),
           NEW id \in Transitions, NEW r \in Rounds, NEW pol \in Rounds \cup {NoRound},
           s.mem.prevotes[r] = None, ~BelowVoteFloor(s.mem, r), CanPrevote(s.mem, id, pol),
           pol # NoRound => pol < r /\ HasPolka(pol, id), NEW w, GoodWrite(w)
    PROVE  PrevoteKept(s, pre, com, id, r, w)
<1>t. PICK t : t = record_local_prevote(s, id, r, w)
  OBVIOUS
<1>d. PICK d : d = RecordedVote(t, id, r)
  OBVIOUS
<1> SUFFICES /\ t \in Stores
             /\ Backed(t, pre \cup d, com)
             /\ d \in {{}, {<<r, id>>}}
             /\ MaySignPrevote(pre, com, r, id)
             /\ t.mem.final = None /\ t.disk.final = None
  BY <1>t, <1>d DEF PrevoteKept
<1> DEFINE row == [s.mem EXCEPT !.prevotes[r] = id]
<1>1. /\ s.mem = s.disk /\ s.mem \in SafetyRow /\ ~s.mem.abstain
      /\ RowCovers(s.disk, pre, com) /\ RowSigned(s.disk, pre, com)
      /\ RowWellFormed(s.disk)
  BY DEF Backed, Stores, CanPrevote
<1>2. /\ row \in SafetyRow
      /\ row.lock = s.mem.lock /\ row.final = None /\ row.abstain = s.mem.abstain
      /\ row.prevotes = [s.mem.prevotes EXCEPT ![r] = id]
      /\ s.mem.prevotes \in [Rounds -> Transitions \cup {None}]
  BY <1>1 DEF SafetyRow
<1>3. t = Persist(s, row, Outcome(w, "prevote"))
  BY <1>t DEF record_local_prevote
<1>4. d = IF t.failed THEN {} ELSE {<<r, id>>}
  BY <1>d DEF RecordedVote
<1> HIDE DEF row
<1>5. MaySignPrevote(pre, com, r, id)
  <2>1. \A u \in pre : u[1] < r
    BY <1>1, AboveFloor, RowBoundsVotes, RoundBasics
  <2>2. \A v \in com : v[1] <= r
    BY <1>1, AboveFloor
  <2>3. CASE s.mem.lock = NoPoint
    BY <1>1, <2>1, <2>2, <2>3, RowBoundsVotes DEF MaySignPrevote, LockPermits
  <2>4. CASE s.mem.lock # NoPoint
    <3> DEFINE v == AsVote(s.mem.lock)
    <3>1. v \in com /\ v[1] = s.mem.lock.round /\ v[2] = s.mem.lock.id
      BY <1>1, <2>4 DEF RowSigned, OwnPrecommits, AsVote
    <3>2. IsLock(com, v)
      BY <1>1, <3>1, RowBoundsVotes DEF IsLock
    <3>3. v[2] = id \/ (pol \in Rounds /\ v[1] <= pol /\ pol < r /\ HasPolka(pol, id))
      BY <2>4, <3>1 DEF CanPrevote
    <3>4. LockPermits(com, r, id)
      BY <3>1, <3>2, <3>3 DEF LockPermits
    <3> QED
      BY <2>1, <2>2, <3>4 DEF MaySignPrevote
  <2> QED
    BY <2>3, <2>4
<1>6. /\ t \in Stores
      /\ \/ t = [mem |-> row, disk |-> row, failed |-> FALSE]
         \/ t.failed /\ t.mem = s.mem /\ t.disk \in {s.disk, row}
  BY <1>2, <1>3, PersistCases DEF GoodWrite
<1>7. RowWellFormed(row)
  BY <1>1, <1>2 DEF RowWellFormed
<1>8. \A e \in SUBSET {<<r, id>>} : RowCovers(row, pre \cup e, com)
  <2>1. \A u \in pre : row.prevotes[u[1]] = u[2]
    <3> SUFFICES ASSUME NEW u \in pre
                 PROVE  row.prevotes[u[1]] = u[2]
      OBVIOUS
    <3>1. u[1] \in Rounds /\ u[1] # r /\ s.mem.prevotes[u[1]] = u[2]
      BY <1>1, <1>5, RowBoundsVotes, RoundBasics DEF RowCovers, MaySignPrevote
    <3> QED
      BY <1>2, <3>1
  <2>2. row.prevotes[r] = id
    BY <1>2
  <2>3. \A v \in com : row.lock.round > v[1] \/ v = AsVote(row.lock)
    BY <1>1, <1>2 DEF RowCovers
  <2> QED
    BY <2>1, <2>2, <2>3 DEF RowCovers
<1>9. /\ OwnPrevotes(row) \subseteq pre \cup {<<r, id>>}
      /\ OwnPrecommits(row) \subseteq com
  <2>1. OwnPrecommits(row) = OwnPrecommits(s.disk)
    BY <1>1, <1>2 DEF OwnPrecommits
  <2>2. ASSUME NEW q \in Rounds, row.prevotes[q] # None
        PROVE  <<q, row.prevotes[q]>> \in pre \cup {<<r, id>>}
    <3>1. CASE q = r
      BY <1>2, <3>1
    <3>2. CASE q # r
      <4>1. row.prevotes[q] = s.disk.prevotes[q]
        BY <1>1, <1>2, <3>2
      <4>2. <<q, s.disk.prevotes[q]>> \in OwnPrevotes(s.disk)
        BY <2>2, <4>1 DEF OwnPrevotes
      <4> QED
        BY <1>1, <4>1, <4>2 DEF RowSigned
    <3> QED
      BY <3>1, <3>2
  <2> QED
    BY <1>1, <2>1, <2>2 DEF RowSigned, OwnPrevotes
<1>10. CASE t = [mem |-> row, disk |-> row, failed |-> FALSE]
  <2>stored. ~t.failed /\ t.mem = row /\ t.disk = row
    BY <1>10
  <2>1. d = {<<r, id>>}
    BY <1>4, <2>stored
  <2>2. RowCovers(row, pre \cup d, com) /\ RowSigned(row, pre \cup d, com)
    BY <1>8, <1>9, <2>1 DEF RowSigned
  <2>3. Backed(t, pre \cup d, com)
    BY <1>7, <1>10, <2>2 DEF Backed
  <2> QED
    BY <1>2, <1>5, <1>6, <2>stored, <2>1, <2>3
<1>11. CASE t.failed /\ t.mem = s.mem /\ t.disk = s.disk
  <2>1. pre \cup d = pre /\ d = {}
    BY <1>11, <1>4
  <2>2. Backed(t, pre, com)
    BY <1>11, SameVotesBacked DEF SameVotes
  <2> QED
    BY <1>1, <1>5, <1>6, <1>11, <2>1, <2>2
<1>12. CASE t.failed /\ t.mem = s.mem /\ t.disk = row
  <2>1. pre \cup d = pre /\ d = {}
    BY <1>12, <1>4
  <2>2. RowAhead(row, pre, com)
    BY <1>2, <1>5, <1>9 DEF RowAhead
  <2>3. RowCovers(row, pre \cup {}, com) /\ pre \cup {} = pre
    BY <1>8
  <2>4. Backed(t, pre, com)
    BY <1>2, <1>7, <1>12, <2>2, <2>3 DEF Backed
  <2> QED
    BY <1>1, <1>2, <1>5, <1>6, <1>12, <2>1, <2>4
<1> QED
  BY <1>6, <1>10, <1>11, <1>12

\* The batch of a finalization clears the row with the record of the transition.
LEMMA FinalStep ==
    ASSUME NEW s \in Stores, s.mem.final = None,
           NEW pre, NEW com, Backed(s, pre, com),
           NEW id \in Transitions, NEW w, GoodWrite(w),
           NEW t, t = FinalStored(s, id, w)
    PROVE  /\ t \in Stores
           /\ Backed(t, pre, com)
           /\ t.mem.final \in {None, id}
           /\ t.disk.final \in {s.disk.final, id}
<1>1. t = Persist(s, FinalRow(id), Outcome(w, "final"))
  BY DEF FinalStored
<1>2. CASE s.failed
  <2>1. t = s
    BY <1>1, <1>2 DEF Persist
  <2> QED
    BY <2>1
<1>3. CASE ~s.failed
  <2>1. FinalRow(id) \in SafetyRow /\ FinalRow(id).final = id /\ id # None
    BY RowTypes, VotingAssumption DEF FinalRow, EmptyRow
  <2>2. RowWellFormed(FinalRow(id))
    BY DEF FinalRow, EmptyRow, RowWellFormed
  <2>3. /\ t \in Stores
        /\ \/ t = [mem |-> FinalRow(id), disk |-> FinalRow(id), failed |-> FALSE]
           \/ t.failed /\ t.mem = s.mem /\ t.disk \in {s.disk, FinalRow(id)}
    BY <1>1, <1>3, <2>1, PersistCases DEF GoodWrite
  <2>4. CASE t = [mem |-> FinalRow(id), disk |-> FinalRow(id), failed |-> FALSE]
    BY <2>1, <2>2, <2>3, <2>4 DEF Backed
  <2>5. CASE t.failed /\ t.mem = s.mem /\ t.disk = s.disk
    BY <1>3, <2>3, <2>5, SameVotesBacked DEF SameVotes
  <2>6. CASE t.failed /\ t.mem = s.mem /\ t.disk = FinalRow(id)
    BY <2>1, <2>2, <2>3, <2>6 DEF Backed
  <2> QED
    BY <2>3, <2>4, <2>5, <2>6
<1> QED
  BY <1>2, <1>3

---------------------------------------------------------------------------
(* A handler's outcome: the votes it signs are allowed by the rules, and    *)
(* the store it leaves backs all votes signed so far.                       *)

Allowed(pre, com, pre2, com2) ==
    \/ pre2 = pre /\ com2 = com
    \/ \E r \in Rounds, id \in Transitions :
          \/ /\ MaySignPrevote(pre, com, r, id)
             /\ pre2 = pre \cup {<<r, id>>} /\ com2 = com
          \/ /\ MaySignPrecommit(pre, com, r, id)
             /\ pre2 = pre /\ com2 = com \cup {<<r, id>>}
          \/ /\ MaySignPrecommit(pre, com, r, id)
             /\ \A u \in pre : u[1] < r
             /\ pre2 = pre \cup {<<r, id>>} /\ com2 = com \cup {<<r, id>>}

\* on_prevotes_changed_locked
PolkaKept(p, s, pre, com, id, r, round, ready, w) ==
    LET out == OnPolka(p, s, id, r, round, ready, w)
    IN  /\ out = Outcomes(out.store, {}, out.precommits)
        /\ out.store \in Stores
        /\ Backed(out.store, pre, com \cup out.precommits)
        /\ out.precommits \in {{}, {<<r, id>>}}
        /\ \/ com \cup out.precommits = com
           \/ MaySignPrecommit(pre, com, r, id) /\ r = round
        /\ out.store.mem.final = None /\ out.store.disk.final = None

LEMMA PolkaOutcome ==
    ASSUME NEW p \in Honest, NEW s \in Stores, ~s.failed, s.mem.final = None,
           NEW pre \in Votes, NEW com \in Votes, Backed(s, pre, com),
           NEW id \in Transitions, NEW r \in Rounds, NEW round, HasPolka(r, id),
           NEW ready \in BOOLEAN, NEW w, GoodWrite(w)
    PROVE  PolkaKept(p, s, pre, com, id, r, round, ready, w)
<1>out. PICK out : out = OnPolka(p, s, id, r, round, ready, w)
  OBVIOUS
<1> SUFFICES /\ out = Outcomes(out.store, {}, out.precommits)
             /\ out.store \in Stores
             /\ Backed(out.store, pre, com \cup out.precommits)
             /\ out.precommits \in {{}, {<<r, id>>}}
             /\ \/ com \cup out.precommits = com
                \/ MaySignPrecommit(pre, com, r, id) /\ r = round
             /\ out.store.mem.final = None /\ out.store.disk.final = None
  BY <1>out DEF PolkaKept
<1>1. PICK valued : valued = ValidValueStored(s, id, r, w)
  OBVIOUS
<1>2. PICK locked : locked = lock_on_polka(valued, id, r, w)
  OBVIOUS
<1>3. PICK c : c = LockedVote(locked, id, r)
  OBVIOUS
<1>4. /\ valued \in Stores
      /\ Backed(valued, pre, com)
      /\ SameVotes(valued.mem, s.mem)
      /\ SameVotes(valued.disk, s.disk)
  BY <1>1, ValidValueKeepsVotes
<1>5. valued.mem.final = None /\ valued.disk.final = None
  BY <1>4 DEF SameVotes, Backed
<1>6. CASE ready /\ MayPrecommit(p, valued, r, round)
  <2>1. out = Outcomes(locked, {}, c)
    BY <1>out, <1>1, <1>2, <1>3, <1>6 DEF OnPolka
  <2>2. r = round /\ ~valued.failed /\ ~valued.mem.abstain /\ ~BelowVoteFloor(valued.mem, r)
    BY <1>6 DEF MayPrecommit
  <2>kept. LockKept(valued, pre, com, id, r, w)
    BY <1>4, <1>5, <2>2, LockStep
  <2>3. /\ locked \in Stores
        /\ Backed(locked, pre, com \cup c)
        /\ c \in {{}, {<<r, id>>}}
        /\ com \cup c = com \/ MaySignPrecommit(pre, com, r, id)
        /\ locked.mem.final = None /\ locked.disk.final = None
    BY <1>2, <1>3, <2>kept DEF LockKept
  <2>4. out.store = locked /\ out.precommits = c
    BY <2>1 DEF Outcomes
  <2> QED
    BY <2>1, <2>2, <2>3, <2>4
<1>7. CASE ~(ready /\ MayPrecommit(p, valued, r, round))
  <2>1. out = Outcomes(valued, {}, {})
    BY <1>out, <1>1, <1>7 DEF OnPolka
  <2>2. out.store = valued /\ out.precommits = {}
    BY <2>1 DEF Outcomes
  <2>3. com \cup {} = com
    OBVIOUS
  <2> QED
    BY <1>4, <1>5, <2>1, <2>2, <2>3
<1> QED
  BY <1>6, <1>7

\* on_candidate_body_locked
BodyKept(p, m, polka, quorum, ready, w, pre, com) ==
    LET out == OnCandidateBody(p, m, polka, quorum, ready, w)
    IN  /\ out = Outcomes(out.store, {}, out.precommits)
        /\ out.store \in Stores
        /\ Backed(out.store, pre, com \cup out.precommits)
        /\ out.precommits \in {{}, {<<polka, m.id>>}}
        /\ out.precommits # {} => polka \in Rounds
        /\ \/ com \cup out.precommits = com
           \/ MaySignPrecommit(pre, com, polka, m.id) /\ polka = m.round
        /\ out.store.mem.final # None \/ out.store.disk.final # None => quorum # NoRound
        /\ out.store.mem.final \in {None, m.id}
        /\ out.store.disk.final \in {None, m.id}

LEMMA BodyOutcome ==
    ASSUME NEW p \in Honest, store[p] \in Stores, Open(p),
           NEW pre \in Votes, NEW com \in Votes, Backed(store[p], pre, com),
           NEW m \in ProposeMsg,
           NEW polka \in PolkaRounds(m) \cup {NoRound}, NEW quorum,
           NEW ready \in BOOLEAN, NEW w, GoodWrite(w)
    PROVE  BodyKept(p, m, polka, quorum, ready, w, pre, com)
<1>out. PICK out : out = OnCandidateBody(p, m, polka, quorum, ready, w)
  OBVIOUS
<1> SUFFICES /\ out = Outcomes(out.store, {}, out.precommits)
             /\ out.store \in Stores
             /\ Backed(out.store, pre, com \cup out.precommits)
             /\ out.precommits \in {{}, {<<polka, m.id>>}}
             /\ out.precommits # {} => polka \in Rounds
             /\ \/ com \cup out.precommits = com
                \/ MaySignPrecommit(pre, com, polka, m.id) /\ polka = m.round
             /\ out.store.mem.final # None \/ out.store.disk.final # None => quorum # NoRound
             /\ out.store.mem.final \in {None, m.id}
             /\ out.store.disk.final \in {None, m.id}
  BY <1>out DEF BodyKept
<1>1. m.id \in Transitions /\ m.round \in Rounds
  BY DEF ProposeMsg
<1>2. ~store[p].failed /\ store[p].mem.final = None /\ store[p].disk = store[p].mem
  BY DEF Open, Backed
<1>3. PICK first : first = IF polka = NoRound THEN Outcomes(store[p], {}, {})
                           ELSE OnPolka(p, store[p], m.id, polka, m.round, ready, w)
  OBVIOUS
<1>4. /\ first = Outcomes(first.store, {}, first.precommits)
      /\ first.store \in Stores
      /\ Backed(first.store, pre, com \cup first.precommits)
      /\ first.precommits \in {{}, {<<polka, m.id>>}}
      /\ first.precommits # {} => polka \in Rounds
      /\ \/ com \cup first.precommits = com
         \/ MaySignPrecommit(pre, com, polka, m.id) /\ polka = m.round
      /\ first.store.mem.final = None /\ first.store.disk.final = None
  <2>1. CASE polka = NoRound
    <3>1. first = Outcomes(store[p], {}, {})
      BY <1>3, <2>1
    <3>2. first.store = store[p] /\ first.precommits = {} /\ com \cup {} = com
      BY <3>1 DEF Outcomes
    <3> QED
      BY <1>2, <3>1, <3>2
  <2>2. CASE polka # NoRound
    <3>1. polka \in Rounds /\ HasPolka(polka, m.id)
      BY <1>1, <2>2, VotingAssumption, RulesAssumption DEF PolkaRounds, CoveredRounds, Rounds
    <3>2. first = OnPolka(p, store[p], m.id, polka, m.round, ready, w)
      BY <1>3, <2>2
    <3>kept. PolkaKept(p, store[p], pre, com, m.id, polka, m.round, ready, w)
      BY <1>1, <1>2, <3>1, PolkaOutcome
    <3>3. /\ first = Outcomes(first.store, {}, first.precommits)
          /\ first.store \in Stores
          /\ Backed(first.store, pre, com \cup first.precommits)
          /\ first.precommits \in {{}, {<<polka, m.id>>}}
          /\ \/ com \cup first.precommits = com
             \/ MaySignPrecommit(pre, com, polka, m.id) /\ polka = m.round
          /\ first.store.mem.final = None /\ first.store.disk.final = None
      BY <3>2, <3>kept DEF PolkaKept
    <3> QED
      BY <3>1, <3>3
  <2> QED
    BY <2>1, <2>2
<1>5. CASE quorum = NoRound
  <2>1. out = first
    BY <1>out, <1>3, <1>5 DEF OnCandidateBody
  <2> QED
    BY <1>4, <2>1
<1>6. CASE quorum # NoRound
  <2>1. PICK t : t = FinalStored(first.store, m.id, w)
    OBVIOUS
  <2>2. out = Outcomes(t, {}, first.precommits)
    BY <1>out, <1>3, <1>6, <2>1 DEF OnCandidateBody
  <2>3. out.store = t /\ out.precommits = first.precommits
    BY <2>2 DEF Outcomes
  <2>4. /\ t \in Stores
        /\ Backed(t, pre, com \cup first.precommits)
        /\ t.mem.final \in {None, m.id}
        /\ t.disk.final \in {first.store.disk.final, m.id}
    BY <1>1, <1>4, <2>1, FinalStep
  <2> QED
    BY <1>4, <1>6, <2>2, <2>3, <2>4
<1> QED
  BY <1>5, <1>6

\* The store and the votes of one node, after a handler's outcome.
OutcomeKept(out, pre, com, finals) ==
    /\ out.store \in Stores
    /\ out.prevotes \in Votes
    /\ out.precommits \in Votes
    /\ Backed(out.store, pre \cup out.prevotes, com \cup out.precommits)
    /\ Allowed(pre, com, pre \cup out.prevotes, com \cup out.precommits)
    /\ {out.store.mem.final, out.store.disk.final} \subseteq {None} \cup finals

\* handle_propose_result: nothing, the prevote, the precommit, or both.
LEMMA ProposalOutcome ==
    ASSUME NEW p \in Honest, store[p] \in Stores,
           NEW pre \in Votes, NEW com \in Votes, Backed(store[p], pre, com),
           NEW m \in ProposeMsg, Acceptable(p, m),
           NEW polka \in PolkaRounds(m) \cup {NoRound}, NEW quorum,
           NEW ready \in BOOLEAN, NEW w, GoodWrite(w)
    PROVE  OutcomeKept(OnProposal(p, m, polka, quorum, ready, w), pre, com,
                       IF quorum = NoRound THEN {} ELSE {m.id})
<1>1. PICK body : body = OnCandidateBody(p, m, polka, quorum, ready, w)
  OBVIOUS
<1>2. PICK voted : voted = record_local_prevote(body.store, m.id, m.round, w)
  OBVIOUS
<1>3. PICK d : d = RecordedVote(voted, m.id, m.round)
  OBVIOUS
<1>4. PICK out : out = OnProposal(p, m, polka, quorum, ready, w)
  OBVIOUS
<1>5. PICK finals : finals = IF quorum = NoRound THEN {} ELSE {m.id}
  OBVIOUS
<1> SUFFICES OutcomeKept(out, pre, com, finals)
  BY <1>4, <1>5
<1>6. /\ Open(p) /\ m.id \in Transitions /\ m.round \in Rounds
      /\ m.pol \in Rounds \cup {NoRound}
      /\ m.pol # NoRound => m.pol < m.round /\ HasPolka(m.pol, m.id)
  BY DEF Acceptable, ShapeOk, Justified, ProposeMsg
<1>7. BodyKept(p, m, polka, quorum, ready, w, pre, com)
  BY <1>6, BodyOutcome
<1>8. /\ body = Outcomes(body.store, {}, body.precommits)
      /\ body.store \in Stores
      /\ Backed(body.store, pre, com \cup body.precommits)
      /\ body.precommits \in {{}, {<<polka, m.id>>}}
      /\ body.precommits # {} => polka \in Rounds
      /\ \/ com \cup body.precommits = com
         \/ MaySignPrecommit(pre, com, polka, m.id) /\ polka = m.round
      /\ body.store.mem.final # None \/ body.store.disk.final # None => quorum # NoRound
      /\ body.store.mem.final \in {None, m.id}
      /\ body.store.disk.final \in {None, m.id}
  BY <1>1, <1>7 DEF BodyKept
<1>9. body.precommits \in Votes /\ com \cup body.precommits \in Votes /\ {} \in Votes
  BY <1>6, <1>8 DEF Votes
<1>10. {body.store.mem.final, body.store.disk.final} \subseteq {None} \cup finals
  BY <1>5, <1>8
<1>11. body.prevotes = {}
  BY <1>8 DEF Outcomes
<1>12. CASE ready /\ MayPrevote(p, body.store, m)
  <2>1. out = Outcomes(voted, d, body.precommits)
    BY <1>1, <1>2, <1>3, <1>4, <1>12 DEF OnProposal
  <2>2. out.store = voted /\ out.prevotes = d /\ out.precommits = body.precommits
    BY <2>1 DEF Outcomes
  <2>3. /\ ~body.store.failed
        /\ body.store.mem.final = None
        /\ body.store.mem.prevotes[m.round] = None
        /\ ~BelowVoteFloor(body.store.mem, m.round)
        /\ CanPrevote(body.store.mem, m.id, m.pol)
    BY <1>12 DEF MayPrevote
  <2>4. PrevoteKept(body.store, pre, com \cup body.precommits, m.id, m.round, w)
    BY <1>6, <1>8, <1>9, <2>3, PrevoteStep
  <2>5. /\ voted \in Stores
        /\ Backed(voted, pre \cup d, com \cup body.precommits)
        /\ d \in {{}, {<<m.round, m.id>>}}
        /\ MaySignPrevote(pre, com \cup body.precommits, m.round, m.id)
        /\ voted.mem.final = None /\ voted.disk.final = None
    BY <1>2, <1>3, <2>4 DEF PrevoteKept
  <2>6. Allowed(pre, com, pre \cup d, com \cup body.precommits)
    <3>1. \A u \in pre : u[1] < m.round
      BY <2>5 DEF MaySignPrevote
    <3>2. CASE com \cup body.precommits = com
      BY <1>6, <2>5, <3>2 DEF Allowed
    <3>3. CASE MaySignPrecommit(pre, com, polka, m.id) /\ polka = m.round
      BY <1>6, <1>8, <2>5, <3>1, <3>3 DEF Allowed
    <3> QED
      BY <1>8, <3>2, <3>3
  <2>7. d \in Votes
    BY <1>6, <2>5 DEF Votes
  <2> QED
    BY <1>9, <2>2, <2>5, <2>6, <2>7 DEF OutcomeKept
<1>13. CASE ~(ready /\ MayPrevote(p, body.store, m))
  <2>1. out = body
    BY <1>1, <1>4, <1>13 DEF OnProposal
  <2>2. pre \cup {} = pre
    OBVIOUS
  <2>3. Allowed(pre, com, pre, com \cup body.precommits)
    <3>1. CASE com \cup body.precommits = com
      BY <3>1 DEF Allowed
    <3>2. CASE MaySignPrecommit(pre, com, polka, m.id) /\ polka = m.round
      BY <1>6, <1>8, <3>2 DEF Allowed
    <3> QED
      BY <1>8, <3>1, <3>2
  <2> QED
    BY <1>8, <1>9, <1>10, <1>11, <2>1, <2>2, <2>3 DEF OutcomeKept
<1> QED
  BY <1>12, <1>13

---------------------------------------------------------------------------
(* Steps of one node.                                                       *)

VoteState ==
    /\ store \in [Honest -> Stores]
    /\ VotesTypeOK
    /\ StoreMatchesVotes
    /\ FinalsHaveCertificates

\* What the rules allow is a step of the rules.
LEMMA AllowedIsRule ==
    ASSUME NEW p \in Honest, NEW pre, NEW com,
           Allowed(prevotes[p], precommits[p], pre, com), VotesTypeOK,
           prevotes' = [prevotes EXCEPT ![p] = pre],
           precommits' = [precommits EXCEPT ![p] = com]
    PROVE  [RulesNext]_votes
<1>1. CASE pre = prevotes[p] /\ com = precommits[p]
  <2>1. prevotes' = prevotes /\ precommits' = precommits
    BY <1>1 DEF VotesTypeOK
  <2> QED
    BY <2>1 DEF votes
<1>2. ASSUME NEW r \in Rounds, NEW id \in Transitions,
             MaySignPrevote(prevotes[p], precommits[p], r, id),
             pre = prevotes[p] \cup {<<r, id>>}, com = precommits[p]
      PROVE  RulesNext
  <2>1. precommits' = precommits
    BY <1>2 DEF VotesTypeOK
  <2>2. SignPrevote(p, r, id)
    BY <1>2, <2>1 DEF SignPrevote
  <2> QED
    BY <2>2 DEF RulesNext
<1>3. ASSUME NEW r \in Rounds, NEW id \in Transitions,
             MaySignPrecommit(prevotes[p], precommits[p], r, id),
             pre = prevotes[p], com = precommits[p] \cup {<<r, id>>}
      PROVE  RulesNext
  <2>1. prevotes' = prevotes
    BY <1>3 DEF VotesTypeOK
  <2>2. SignPrecommit(p, r, id)
    BY <1>3, <2>1 DEF SignPrecommit
  <2> QED
    BY <2>2 DEF RulesNext
<1>4. ASSUME NEW r \in Rounds, NEW id \in Transitions,
             MaySignPrecommit(prevotes[p], precommits[p], r, id),
             \A u \in prevotes[p] : u[1] < r,
             pre = prevotes[p] \cup {<<r, id>>}, com = precommits[p] \cup {<<r, id>>}
      PROVE  RulesNext
  <2>1. SignBoth(p, r, id)
    BY <1>4 DEF SignBoth
  <2> QED
    BY <2>1 DEF RulesNext
<1> QED
  BY <1>1, <1>2, <1>3, <1>4 DEF Allowed

\* A store stays backed while others sign votes: polkas do not go away.
LEMMA BackedStays ==
    ASSUME Accumulates, NEW p \in Honest, NEW s, NEW pre, NEW com, Backed(s, pre, com),
           store'[p] = s, prevotes'[p] = pre, precommits'[p] = com
    PROVE  Backed(store[p], prevotes[p], precommits[p])'
<1>1. ASSUME NEW r, NEW id, HasPolka(r, id)
      PROVE  IsQuorum(Signed(prevotes', r, id))
  BY <1>1, PolkaStable DEF HasPolka
<1>2. ASSUME NEW r, NEW id, MaySignPrevote(pre, com, r, id)
      PROVE  MaySignPrevote(prevotes[p], precommits[p], r, id)'
  BY <1>1, <1>2 DEF MaySignPrevote, LockPermits, HasPolka
<1>3. RowAhead(s.disk, pre, com) => RowAhead(store[p].disk, prevotes[p], precommits[p])'
  <2>1. CASE \E r \in Rounds, id \in Transitions :
                /\ MaySignPrevote(pre, com, r, id)
                /\ s.disk.prevotes[r] = id
                /\ OwnPrevotes(s.disk) \subseteq pre \cup {<<r, id>>}
                /\ OwnPrecommits(s.disk) \subseteq com
    BY <1>2, <2>1 DEF RowAhead
  <2>2. CASE /\ s.disk.lock # NoPoint
             /\ MaySignPrecommit(pre, com, s.disk.lock.round, s.disk.lock.id)
             /\ OwnPrevotes(s.disk) \subseteq pre
    <3>1. IsQuorum(Signed(prevotes', s.disk.lock.round, s.disk.lock.id))
      BY <1>1, <2>2 DEF MaySignPrecommit
    <3> QED
      BY <2>2, <3>1 DEF RowAhead, MaySignPrecommit, HasPolka
  <2> QED
    BY <2>1, <2>2 DEF RowAhead
<1> QED
  BY <1>3 DEF Backed

\* One node moves to a store that backs its votes, within the rules.
LEMMA NodeStep ==
    ASSUME VoteState, NEW p \in Honest, NEW t \in Stores, NEW pre \in Votes, NEW com \in Votes,
           Backed(t, pre, com), Allowed(prevotes[p], precommits[p], pre, com),
           \A id \in Transitions : id \in {t.mem.final, t.disk.final} =>
               \E r \in Rounds : HasPrecommitQuorum(r, id),
           store' = [store EXCEPT ![p] = t],
           prevotes' = [prevotes EXCEPT ![p] = pre],
           precommits' = [precommits EXCEPT ![p] = com]
    PROVE  VoteState' /\ [RulesNext]_votes
<1>1. [RulesNext]_votes
  BY AllowedIsRule DEF VoteState
<1>2. VotesTypeOK' /\ Accumulates
  <2>1. CASE RulesNext
    BY <2>1, StepAccumulates DEF VoteState
  <2>2. CASE UNCHANGED votes
    BY <2>2 DEF votes, VoteState, VotesTypeOK, Accumulates
  <2> QED
    BY <1>1, <2>1, <2>2
<1>3. store' \in [Honest -> Stores]
  BY DEF VoteState
<1>4. StoreMatchesVotes'
  <2> SUFFICES ASSUME NEW q \in Honest
               PROVE  Backed(store[q], prevotes[q], precommits[q])'
    BY DEF StoreMatchesVotes
  <2>1. CASE q = p
    <3>1. store'[q] = t /\ prevotes'[q] = pre /\ precommits'[q] = com
      BY <2>1 DEF VoteState, VotesTypeOK
    <3> QED
      BY <1>2, <3>1, BackedStays
  <2>2. CASE q # p
    <3>1. store'[q] = store[q] /\ prevotes'[q] = prevotes[q] /\ precommits'[q] = precommits[q]
      BY <2>2 DEF VoteState, VotesTypeOK
    <3>2. Backed(store[q], prevotes[q], precommits[q])
      BY DEF VoteState, StoreMatchesVotes
    <3> QED
      BY <1>2, <3>1, <3>2, BackedStays
  <2> QED
    BY <2>1, <2>2
<1>5. \A r \in Rounds, id \in Transitions : HasPrecommitQuorum(r, id) => HasPrecommitQuorum(r, id)'
  <2> SUFFICES ASSUME NEW r \in Rounds, NEW id \in Transitions, HasPrecommitQuorum(r, id)
               PROVE  IsQuorum(Signed(precommits', r, id))
    BY DEF HasPrecommitQuorum
  <2>1. Signed(precommits, r, id) \subseteq Signed(precommits', r, id)
    BY <1>2 DEF Accumulates, Signed
  <2> QED
    BY <2>1, QuorumMonotone DEF HasPrecommitQuorum
<1>6. FinalsHaveCertificates'
  <2> SUFFICES ASSUME NEW q \in Honest, NEW id \in Transitions,
                      id \in {store'[q].mem.final, store'[q].disk.final}
               PROVE  \E r \in Rounds : HasPrecommitQuorum(r, id)'
    BY DEF FinalsHaveCertificates
  <2>1. \E r \in Rounds : HasPrecommitQuorum(r, id)
    <3>1. CASE q = p
      BY <3>1 DEF VoteState
    <3>2. CASE q # p
      BY <3>2 DEF VoteState, FinalsHaveCertificates
    <3> QED
      BY <3>1, <3>2
  <2> QED
    BY <1>5, <2>1
<1> QED
  BY <1>1, <1>2, <1>3, <1>4, <1>6 DEF VoteState

LEMMA CommitStep ==
    ASSUME VoteState, NEW p \in Honest, NEW out, NEW finals \in SUBSET Transitions,
           OutcomeKept(out, prevotes[p], precommits[p], finals), Commit(p, out),
           \A id \in finals : \E r \in Rounds : HasPrecommitQuorum(r, id)
    PROVE  VoteState' /\ [RulesNext]_votes
<1>1. PICK pre : pre = prevotes[p] \cup out.prevotes
  OBVIOUS
<1>2. PICK com : com = precommits[p] \cup out.precommits
  OBVIOUS
<1>3. /\ out.store \in Stores /\ pre \in Votes /\ com \in Votes
      /\ Backed(out.store, pre, com)
      /\ Allowed(prevotes[p], precommits[p], pre, com)
      /\ {out.store.mem.final, out.store.disk.final} \subseteq {None} \cup finals
  BY <1>1, <1>2 DEF OutcomeKept, VoteState, VotesTypeOK, Votes
<1>4. \A id \in Transitions : id \in {out.store.mem.final, out.store.disk.final} =>
          \E r \in Rounds : HasPrecommitQuorum(r, id)
  BY <1>3, VotingAssumption
<1>5. /\ store' = [store EXCEPT ![p] = out.store]
      /\ prevotes' = [prevotes EXCEPT ![p] = pre]
      /\ precommits' = [precommits EXCEPT ![p] = com]
  BY <1>1, <1>2 DEF Commit
<1> QED
  BY <1>3, <1>4, <1>5, NodeStep

LEMMA NodeFacts ==
    ASSUME VoteState, NEW p \in Honest
    PROVE  /\ store[p] \in Stores
           /\ prevotes[p] \in Votes /\ precommits[p] \in Votes
           /\ Backed(store[p], prevotes[p], precommits[p])
  BY DEF VoteState, VotesTypeOK, StoreMatchesVotes

LEMMA HandleProposeStep ==
    ASSUME VoteState, NEW p \in Honest, NEW m \in ProposeMsg, HandlePropose(p, m)
    PROVE  VoteState' /\ [RulesNext]_votes
<1>1. PICK polka \in PolkaRounds(m) \cup {NoRound}, quorum \in QuorumRounds(m) \cup {NoRound},
           ready \in BOOLEAN, w \in Writes({"valid", "lock", "prevote", "final"}) :
           AcceptProposal(p, m, OnProposal(p, m, polka, quorum, ready, w))
  BY DEF HandlePropose
<1>2. GoodWrite(w) /\ Acceptable(p, m) /\ m.id \in Transitions
  BY OutcomeType DEF HandlePropose, ProposeMsg
<1>3. PICK out : out = OnProposal(p, m, polka, quorum, ready, w)
  OBVIOUS
<1>4. PICK finals : finals = IF quorum = NoRound THEN {} ELSE {m.id}
  OBVIOUS
<1>5. OutcomeKept(out, prevotes[p], precommits[p], finals)
  BY <1>2, <1>3, <1>4, NodeFacts, ProposalOutcome
<1>6. Commit(p, out)
  BY <1>1, <1>3 DEF AcceptProposal
<1>7. finals \in SUBSET Transitions
  BY <1>2, <1>4
<1>8. \A id \in finals : \E r \in Rounds : HasPrecommitQuorum(r, id)
  <2>1. QuorumRounds(m) \subseteq {r \in Rounds : HasPrecommitQuorum(r, m.id)}
    BY <1>2, VotingAssumption, RulesAssumption DEF QuorumRounds, CoveredRounds, ProposeMsg, Rounds
  <2> QED
    BY <1>4, <2>1
<1> QED
  BY <1>5, <1>6, <1>7, <1>8, CommitStep

LEMMA HandlePrevoteStep ==
    ASSUME VoteState, NEW p \in Honest, NEW id \in Transitions, NEW r \in Rounds,
           NEW ready \in BOOLEAN, NEW w \in Writes({"valid", "lock"}),
           HandlePrevote(p, id, r, ready, w)
    PROVE  VoteState' /\ [RulesNext]_votes
<1>1. PICK out : out = OnPolka(p, store[p], id, r, current_round[p], ready, w)
  OBVIOUS
<1>2. /\ HasPolka(r, id) /\ Commit(p, out) /\ GoodWrite(w)
      /\ ~store[p].failed /\ store[p].mem.final = None
  BY <1>1, OutcomeType DEF HandlePrevote, Open
<1>3. PolkaKept(p, store[p], prevotes[p], precommits[p], id, r, current_round[p], ready, w)
  BY <1>2, NodeFacts, PolkaOutcome
<1>4. /\ out = Outcomes(out.store, {}, out.precommits)
      /\ out.store \in Stores
      /\ Backed(out.store, prevotes[p], precommits[p] \cup out.precommits)
      /\ out.precommits \in {{}, {<<r, id>>}}
      /\ \/ precommits[p] \cup out.precommits = precommits[p]
         \/ MaySignPrecommit(prevotes[p], precommits[p], r, id)
      /\ out.store.mem.final = None /\ out.store.disk.final = None
  BY <1>1, <1>3 DEF PolkaKept
<1>5. out.prevotes = {} /\ prevotes[p] \cup {} = prevotes[p]
  BY <1>4 DEF Outcomes
<1>6. {} \in Votes /\ out.precommits \in Votes
  BY <1>4 DEF Votes
<1>7. Allowed(prevotes[p], precommits[p], prevotes[p], precommits[p] \cup out.precommits)
  BY <1>4 DEF Allowed
<1>8. PICK finals : finals = {}
  OBVIOUS
<1>9. OutcomeKept(out, prevotes[p], precommits[p], finals)
  BY <1>4, <1>5, <1>6, <1>7, <1>8 DEF OutcomeKept
<1>10. /\ finals \in SUBSET Transitions
       /\ \A f \in finals : \E q \in Rounds : HasPrecommitQuorum(q, f)
  BY <1>8
<1> QED
  BY <1>2, <1>9, <1>10, CommitStep

LEMMA ApplyFinalizedStep ==
    ASSUME VoteState, NEW p \in Honest, NEW id \in Transitions, NEW r \in Rounds,
           NEW w \in Writes({"final"}), Open(p), HasPrecommitQuorum(r, id),
           ApplyFinalized(p, id, w)
    PROVE  VoteState' /\ [RulesNext]_votes
<1>1. PICK t : t = FinalStored(store[p], id, w)
  OBVIOUS
<1>2. PICK out : out = Outcomes(t, {}, {})
  OBVIOUS
<1>3. GoodWrite(w) /\ store[p].mem.final = None /\ store[p].disk.final = None
  BY OutcomeType, NodeFacts DEF Open, Backed
<1>4. /\ t \in Stores
      /\ Backed(t, prevotes[p], precommits[p])
      /\ t.mem.final \in {None, id}
      /\ t.disk.final \in {store[p].disk.final, id}
  BY <1>1, <1>3, NodeFacts, FinalStep
<1>5. out.store = t /\ out.prevotes = {} /\ out.precommits = {}
  BY <1>2 DEF Outcomes
<1>6. prevotes[p] \cup {} = prevotes[p] /\ precommits[p] \cup {} = precommits[p] /\ {} \in Votes
  BY DEF Votes
<1>7. Allowed(prevotes[p], precommits[p], prevotes[p], precommits[p])
  BY DEF Allowed
<1>8. OutcomeKept(out, prevotes[p], precommits[p], {id})
  BY <1>3, <1>4, <1>5, <1>6, <1>7 DEF OutcomeKept
<1>9. Commit(p, out)
  BY <1>1, <1>2 DEF ApplyFinalized
<1> QED
  BY <1>8, <1>9, CommitStep

---------------------------------------------------------------------------
(* Votes signed again from the row.                                         *)

\* Signing everything in the row a process starts from adds nothing, or the one
\* vote whose write outlived the process that failed on it.
LEMMA StartOutcome ==
    ASSUME NEW s \in Stores, NEW pre \in Votes, NEW com \in Votes, Backed(s, pre, com),
           NEW row, row = s.disk
    PROVE  /\ Backed([mem |-> row, disk |-> row, failed |-> FALSE],
                     pre \cup OwnPrevotes(row), com \cup OwnPrecommits(row))
           /\ Allowed(pre, com, pre \cup OwnPrevotes(row), com \cup OwnPrecommits(row))
           /\ pre \cup OwnPrevotes(row) \in Votes
           /\ com \cup OwnPrecommits(row) \in Votes
           /\ ~s.failed => /\ pre \cup OwnPrevotes(row) = pre
                           /\ com \cup OwnPrecommits(row) = com
<1>1. /\ RowWellFormed(row)
      /\ row.final = None /\ ~row.abstain =>
            /\ RowCovers(row, pre, com)
            /\ RowSigned(row, pre, com) \/ (s.failed /\ RowAhead(row, pre, com))
      /\ row \in SafetyRow
  BY DEF Backed, Stores
<1> DEFINE t == [mem |-> row, disk |-> row, failed |-> FALSE]
           pre2 == pre \cup OwnPrevotes(row)
           com2 == com \cup OwnPrecommits(row)
<1>2. /\ t.mem = row /\ t.disk = row /\ ~t.failed
  OBVIOUS
<1>3. pre2 = pre \cup OwnPrevotes(row) /\ com2 = com \cup OwnPrecommits(row)
  OBVIOUS
<1> HIDE DEF t, pre2, com2
<1> SUFFICES /\ Backed(t, pre2, com2)
             /\ Allowed(pre, com, pre2, com2)
             /\ pre2 \in Votes /\ com2 \in Votes
             /\ ~s.failed => pre2 = pre /\ com2 = com
  BY DEF t, pre2, com2
<1>4. CASE row.final # None \/ row.abstain
  <2>1. OwnPrevotes(row) = {} /\ OwnPrecommits(row) = {}
    BY <1>1, <1>4 DEF RowWellFormed, OwnPrevotes, OwnPrecommits
  <2>2. pre2 = pre /\ com2 = com
    BY <1>3, <2>1
  <2>3. Backed(t, pre, com)
    BY <1>1, <1>2, <1>4 DEF Backed
  <2> QED
    BY <2>2, <2>3 DEF Allowed
<1>5. CASE row.final = None /\ ~row.abstain /\ RowSigned(row, pre, com)
  <2>1. pre2 = pre /\ com2 = com
    BY <1>3, <1>5 DEF RowSigned
  <2>2. Backed(t, pre, com)
    BY <1>1, <1>2, <1>5 DEF Backed
  <2> QED
    BY <2>1, <2>2 DEF Allowed
<1>6. CASE row.final = None /\ ~row.abstain /\ s.failed /\ RowAhead(row, pre, com)
  <2>1. RowCovers(row, pre, com)
    BY <1>1, <1>6
  <2>2. ASSUME NEW r \in Rounds, NEW id \in Transitions,
               MaySignPrevote(pre, com, r, id), row.prevotes[r] = id,
               OwnPrevotes(row) \subseteq pre \cup {<<r, id>>}, OwnPrecommits(row) \subseteq com
        PROVE  /\ Backed(t, pre2, com2)
               /\ Allowed(pre, com, pre2, com2)
               /\ pre2 \in Votes /\ com2 \in Votes
    <3>1. <<r, id>> \in OwnPrevotes(row)
      BY <2>2, VotingAssumption DEF OwnPrevotes
    <3>2. pre2 = pre \cup {<<r, id>>} /\ com2 = com
      BY <1>3, <2>2, <3>1
    <3>3. RowCovers(row, pre2, com2)
      BY <2>1, <2>2, <3>2 DEF RowCovers
    <3>4. RowSigned(row, pre2, com2)
      BY <1>3 DEF RowSigned
    <3>5. Backed(t, pre2, com2)
      BY <1>1, <1>2, <3>3, <3>4 DEF Backed
    <3>6. Allowed(pre, com, pre2, com2)
      BY <2>2, <3>2 DEF Allowed
    <3> QED
      BY <3>2, <3>5, <3>6 DEF Votes
  <2>3. ASSUME row.lock # NoPoint, OwnPrevotes(row) \subseteq pre,
               MaySignPrecommit(pre, com, row.lock.round, row.lock.id)
        PROVE  /\ Backed(t, pre2, com2)
               /\ Allowed(pre, com, pre2, com2)
               /\ pre2 \in Votes /\ com2 \in Votes
    <3>1. row.lock.round \in Rounds /\ row.lock.id \in Transitions
      BY <1>1, <2>3 DEF SafetyRow, VotePoint
    <3>2. pre2 = pre /\ com2 = com \cup {<<row.lock.round, row.lock.id>>}
      BY <1>3, <2>3 DEF OwnPrecommits
    <3>3. RowCovers(row, pre2, com2)
      BY <2>1, <3>2 DEF RowCovers, AsVote
    <3>4. RowSigned(row, pre2, com2)
      BY <1>3 DEF RowSigned
    <3>5. Backed(t, pre2, com2)
      BY <1>1, <1>2, <3>3, <3>4 DEF Backed
    <3>6. Allowed(pre, com, pre2, com2)
      BY <2>3, <3>1, <3>2 DEF Allowed
    <3> QED
      BY <3>1, <3>2, <3>5, <3>6 DEF Votes
  <2> QED
    BY <1>6, <2>2, <2>3 DEF RowAhead
<1> QED
  BY <1>1, <1>4, <1>5, <1>6

LEMMA StartFromDiskStep ==
    ASSUME VoteState, NEW p \in Honest, Restart(p)
    PROVE  VoteState' /\ [RulesNext]_votes
<1>1. PICK row : row = store[p].disk
  OBVIOUS
<1>2. PICK t : t = [mem |-> row, disk |-> row, failed |-> FALSE]
  OBVIOUS
<1>3. PICK pre : pre = prevotes[p] \cup OwnPrevotes(row)
  OBVIOUS
<1>4. PICK com : com = precommits[p] \cup OwnPrecommits(row)
  OBVIOUS
<1>5. /\ Backed(t, pre, com)
      /\ Allowed(prevotes[p], precommits[p], pre, com)
      /\ pre \in Votes /\ com \in Votes
  BY <1>1, <1>2, <1>3, <1>4, NodeFacts, StartOutcome
<1>6. t \in Stores /\ t.mem.final = row.final /\ t.disk.final = row.final
  BY <1>1, <1>2, NodeFacts DEF Stores
<1>7. \A id \in Transitions : id \in {t.mem.final, t.disk.final} =>
          \E r \in Rounds : HasPrecommitQuorum(r, id)
  BY <1>1, <1>6 DEF VoteState, FinalsHaveCertificates
<1>8. /\ store' = [store EXCEPT ![p] = t]
      /\ prevotes' = [prevotes EXCEPT ![p] = pre]
      /\ precommits' = [precommits EXCEPT ![p] = com]
  BY <1>1, <1>2, <1>3, <1>4 DEF Restart, StartFrom, Reseed
<1> QED
  BY <1>5, <1>6, <1>7, <1>8, NodeStep

LEMMA StartAbstainingStep ==
    ASSUME VoteState, NEW p \in Honest, RestartWithDamage(p)
    PROVE  VoteState' /\ [RulesNext]_votes
<1>1. PICK row : row = [EmptyRow EXCEPT !.abstain = TRUE]
  OBVIOUS
<1>2. PICK t : t = [mem |-> row, disk |-> row, failed |-> FALSE]
  OBVIOUS
<1>3. /\ row \in SafetyRow /\ row.abstain /\ row.lock = NoPoint /\ row.final = None
      /\ \A r \in Rounds : row.prevotes[r] = None
  BY <1>1 DEF EmptyRow, SafetyRow, VotePoint, NoPoint, NoRound
<1>4. OwnPrevotes(row) = {} /\ OwnPrecommits(row) = {}
  BY <1>3 DEF OwnPrevotes, OwnPrecommits
<1>5. t \in Stores /\ t.mem = row /\ t.disk = row /\ ~t.failed
  BY <1>2, <1>3 DEF Stores
<1>6. Backed(t, prevotes[p], precommits[p])
  BY <1>3, <1>5 DEF Backed, RowWellFormed
<1>7. Allowed(prevotes[p], precommits[p], prevotes[p], precommits[p])
  BY DEF Allowed
<1>8. \A id \in Transitions : id \in {t.mem.final, t.disk.final} =>
          \E r \in Rounds : HasPrecommitQuorum(r, id)
  BY <1>3, <1>5, VotingAssumption
<1>9. /\ store' = [store EXCEPT ![p] = t]
      /\ prevotes' = [prevotes EXCEPT ![p] = prevotes[p]]
      /\ precommits' = [precommits EXCEPT ![p] = precommits[p]]
  <2>1. prevotes[p] \cup {} = prevotes[p] /\ precommits[p] \cup {} = precommits[p]
    OBVIOUS
  <2> QED
    BY <1>1, <1>2, <1>4, <2>1 DEF RestartWithDamage, StartFrom, Reseed
<1> QED
  BY <1>5, <1>6, <1>7, <1>8, <1>9, NodeFacts, NodeStep

LEMMA NoVoteStep ==
    ASSUME VoteState, UNCHANGED <<store, prevotes, precommits>>
    PROVE  VoteState' /\ [RulesNext]_votes
<1>1. UNCHANGED votes /\ VotesTypeOK'
  BY DEF votes, VoteState, VotesTypeOK
<1>2. Accumulates
  BY DEF Accumulates
<1>3. StoreMatchesVotes'
  <2> SUFFICES ASSUME NEW q \in Honest
               PROVE  Backed(store[q], prevotes[q], precommits[q])'
    BY DEF StoreMatchesVotes
  <2>1. store'[q] = store[q] /\ prevotes'[q] = prevotes[q] /\ precommits'[q] = precommits[q]
    OBVIOUS
  <2> QED
    BY <1>2, <2>1, NodeFacts, BackedStays
<1>4. FinalsHaveCertificates'
  BY DEF VoteState, FinalsHaveCertificates, HasPrecommitQuorum
<1>5. store' \in [Honest -> Stores]
  BY DEF VoteState
<1> QED
  BY <1>1, <1>3, <1>4, <1>5 DEF VoteState

\* A running process signs its own votes again: they all were signed before.
LEMMA ResignStep ==
    ASSUME VoteState, NEW p \in Honest, Open(p), UNCHANGED store,
           prevotes' = [prevotes EXCEPT ![p] = @ \cup OwnPrevotes(store[p].mem)],
           precommits' = [precommits EXCEPT ![p] = @ \cup OwnPrecommits(store[p].mem)]
    PROVE  VoteState' /\ [RulesNext]_votes
<1>1. PICK row : row = store[p].disk
  OBVIOUS
<1>2. ~store[p].failed /\ store[p].mem = row
  BY <1>1, NodeFacts DEF Open, Backed
<1>3. /\ prevotes[p] \cup OwnPrevotes(row) = prevotes[p]
      /\ precommits[p] \cup OwnPrecommits(row) = precommits[p]
  <2>1. PICK s, pre, com : s = store[p] /\ pre = prevotes[p] /\ com = precommits[p]
    OBVIOUS
  <2>2. s \in Stores /\ pre \in Votes /\ com \in Votes /\ Backed(s, pre, com) /\ row = s.disk
    BY <1>1, <2>1, NodeFacts
  <2>3. ~s.failed => pre \cup OwnPrevotes(row) = pre /\ com \cup OwnPrecommits(row) = com
    BY <2>2, StartOutcome
  <2> QED
    BY <1>2, <2>1, <2>3
<1>4. prevotes' = prevotes /\ precommits' = precommits
  BY <1>2, <1>3 DEF VoteState, VotesTypeOK
<1> QED
  BY <1>4, NoVoteStep

---------------------------------------------------------------------------
(* Every step keeps the votes and the stores in agreement, and is a step of *)
(* the rules.                                                               *)

LEMMA DeliverableTyped ==
    ASSUME proposals \subseteq ProposeMsg
    PROVE  Deliverable \subseteq ProposeMsg
  BY DEF Deliverable, FaultyProposals

LEMMA VoteStep ==
    ASSUME VoteState, proposals \subseteq ProposeMsg, [Next]_vars
    PROVE  VoteState' /\ [RulesNext]_votes
<1>1. CASE UNCHANGED vars
  BY <1>1, NoVoteStep DEF vars
<1>2. ASSUME NEW p \in Honest, Proposing(p)
      PROVE  VoteState' /\ [RulesNext]_votes
  <2>1. CASE BuildProposal(p)
    BY <2>1, NoVoteStep DEF BuildProposal
  <2>2. CASE SendProposal(p)
    BY <2>2, NoVoteStep DEF SendProposal
  <2>3. ASSUME NEW m \in Deliverable, HandleProposeCacheFull(p, m)
        PROVE  VoteState' /\ [RulesNext]_votes
    BY <2>3, NoVoteStep DEF HandleProposeCacheFull
  <2>4. ASSUME NEW m \in Deliverable, HandlePropose(p, m)
        PROVE  VoteState' /\ [RulesNext]_votes
    BY <2>4, DeliverableTyped, HandleProposeStep
  <2> QED
    BY <1>2, <2>1, <2>2, <2>3, <2>4 DEF Proposing
<1>3. ASSUME NEW p \in Honest, Voting(p)
      PROVE  VoteState' /\ [RulesNext]_votes
  <2>1. PICK id \in Transitions, r \in Rounds :
            \/ \E ready \in BOOLEAN, w \in Writes({"valid", "lock"}) :
                  HandlePrevote(p, id, r, ready, w)
            \/ \E w \in Writes({"final"}) :
                  HandleVote(p, id, r, w) \/ HandleFrontierBlock(p, id, r, w)
    BY <1>3 DEF Voting
  <2>2. ASSUME NEW ready \in BOOLEAN, NEW w \in Writes({"valid", "lock"}),
               HandlePrevote(p, id, r, ready, w)
        PROVE  VoteState' /\ [RulesNext]_votes
    BY <2>2, HandlePrevoteStep
  <2>3. ASSUME NEW w \in Writes({"final"}),
               HandleVote(p, id, r, w) \/ HandleFrontierBlock(p, id, r, w)
        PROVE  VoteState' /\ [RulesNext]_votes
    <3>1. Open(p) /\ HasPrecommitQuorum(r, id) /\ ApplyFinalized(p, id, w)
      BY <2>3 DEF HandleVote, HandleFrontierBlock
    <3> QED
      BY <3>1, ApplyFinalizedStep
  <2> QED
    BY <2>1, <2>2, <2>3
<1>4. ASSUME NEW p \in Honest, ChangingRound(p)
      PROVE  VoteState' /\ [RulesNext]_votes
  <2>1. UNCHANGED <<store, prevotes, precommits>>
    BY <1>4 DEF ChangingRound, TimeoutVote, RecordTimeoutCertificate, CatchUpRound
  <2> QED
    BY <2>1, NoVoteStep
<1>5. ASSUME NEW p \in Honest, Rebroadcast(p)
      PROVE  VoteState' /\ [RulesNext]_votes
  BY <1>5, ResignStep DEF Rebroadcast
<1>6. ASSUME NEW p \in Honest, PeerLossReset(p)
      PROVE  VoteState' /\ [RulesNext]_votes
  BY <1>6, ResignStep DEF PeerLossReset, Reseed
<1>7. ASSUME NEW p \in Honest, Restart(p)
      PROVE  VoteState' /\ [RulesNext]_votes
  BY <1>7, StartFromDiskStep
<1>8. ASSUME NEW p \in Honest, RestartWithDamage(p)
      PROVE  VoteState' /\ [RulesNext]_votes
  BY <1>8, StartAbstainingStep
<1> QED
  BY <1>1, <1>2, <1>3, <1>4, <1>5, <1>6, <1>7, <1>8 DEF Next

---------------------------------------------------------------------------
(* Types of what a node keeps in memory.                                    *)

MemoryOK ==
    /\ current_round \in [Honest -> Rounds]
    /\ local_vote_reservations \in [Honest -> SUBSET Rounds]
    /\ local_timed_out_rounds \in [Honest -> SUBSET Rounds]
    /\ candidates \in [Honest -> SUBSET Transitions]
    /\ building \in [Honest -> Builds \cup {NoBuild}]
    /\ proposed_in_round \in [Honest -> SUBSET Rounds]
    /\ highest_tc \in [Honest -> Rounds \cup {NoRound}]
    /\ proposals \subseteq ProposeMsg
    /\ timeouts \in [Honest -> SUBSET Rounds]
    /\ resets \in Nat

LEMMA TypeOKParts == TypeOK <=> /\ MemoryOK
                               /\ store \in [Honest -> Stores]
                               /\ VotesTypeOK
  BY DEF TypeOK, MemoryOK, VotesTypeOK

LEMMA ForgetHeightTyped ==
    ASSUME MemoryOK, NEW p \in Honest, ForgetHeight(p), UNCHANGED <<proposals, timeouts, resets>>
    PROVE  MemoryOK'
<1>1. 0 \in Rounds
  BY RulesAssumption DEF Rounds
<1> QED
  BY <1>1 DEF MemoryOK, ForgetHeight

LEMMA RoundsOfVotes ==
    ASSUME NEW cast \in Votes
    PROVE  RoundsOf(cast) \in SUBSET Rounds
  BY DEF Votes, RoundsOf

LEMMA OwnPrecommitsTyped ==
    ASSUME NEW row \in SafetyRow
    PROVE  OwnPrecommits(row) \in Votes
  BY DEF SafetyRow, VotePoint, OwnPrecommits, Votes

LEMMA ProposingTyped ==
    ASSUME MemoryOK, VoteState, NEW p \in Honest, Proposing(p)
    PROVE  MemoryOK'
<1>1. CASE BuildProposal(p)
  <2>1. PICK id \in Transitions :
            building' = [building EXCEPT ![p] =
                [round |-> current_round[p], id |-> id,
                 pol |-> IF Reproposes(p) THEN store[p].mem.valid.round ELSE NoRound]]
    BY <1>1 DEF BuildProposal
  <2>2. store[p].mem.valid \in VotePoint
    BY NodeFacts DEF Stores, SafetyRow
  <2>3. Reproposes(p) => store[p].mem.valid.round \in Rounds
    BY <2>2 DEF Reproposes, VotePoint
  <2>4. [round |-> current_round[p], id |-> id,
         pol |-> IF Reproposes(p) THEN store[p].mem.valid.round ELSE NoRound] \in Builds
    BY <2>3 DEF MemoryOK, Builds
  <2> QED
    BY <1>1, <2>1, <2>4 DEF BuildProposal, MemoryOK
<1>2. CASE SendProposal(p)
  <2>1. building[p] \in Builds
    BY <1>2 DEF SendProposal, MemoryOK
  <2>2. /\ building[p].round \in Rounds /\ building[p].id \in Transitions
        /\ [round |-> building[p].round, id |-> building[p].id, pol |-> building[p].pol,
            tc |-> IF building[p].round > 0 THEN highest_tc[p] ELSE NoRound] \in ProposeMsg
    BY <2>1 DEF Builds, ProposeMsg, MemoryOK
  <2> QED
    BY <1>2, <2>2 DEF SendProposal, MemoryOK
<1>3. ASSUME NEW m \in Deliverable, HandleProposeCacheFull(p, m)
      PROVE  MemoryOK'
  <2>1. m.round \in Rounds
    BY DeliverableTyped DEF MemoryOK, ProposeMsg
  <2> QED
    BY <1>3, <2>1 DEF HandleProposeCacheFull, MemoryOK
<1>4. ASSUME NEW m \in Deliverable, HandlePropose(p, m)
      PROVE  MemoryOK'
  <2>1. m \in ProposeMsg /\ m.round \in Rounds /\ m.id \in Transitions
    BY DeliverableTyped DEF MemoryOK, ProposeMsg
  <2>2. PICK polka \in PolkaRounds(m) \cup {NoRound}, quorum \in QuorumRounds(m) \cup {NoRound},
             ready \in BOOLEAN, w \in Writes({"valid", "lock", "prevote", "final"}) :
             AcceptProposal(p, m, OnProposal(p, m, polka, quorum, ready, w))
    BY <1>4 DEF HandlePropose
  <2>3. PICK out : out = OnProposal(p, m, polka, quorum, ready, w)
    OBVIOUS
  <2>4. PICK finals : finals = IF quorum = NoRound THEN {} ELSE {m.id}
    OBVIOUS
  <2>5. GoodWrite(w) /\ Acceptable(p, m)
    BY <1>4, OutcomeType DEF HandlePropose
  <2>6. OutcomeKept(out, prevotes[p], precommits[p], finals)
    BY <2>1, <2>3, <2>4, <2>5, NodeFacts, ProposalOutcome
  <2>7. RoundsOf(out.precommits) \in SUBSET Rounds
    BY <2>6, RoundsOfVotes DEF OutcomeKept
  <2>8. AcceptProposal(p, m, out)
    BY <2>2, <2>3
  <2>9. CASE out.store.mem.final # None
    BY <2>8, <2>9, ForgetHeightTyped DEF AcceptProposal
  <2>10. CASE out.store.mem.final = None
    BY <2>1, <2>7, <2>8, <2>10 DEF AcceptProposal, MemoryOK
  <2> QED
    BY <2>9, <2>10
<1> QED
  BY <1>1, <1>2, <1>3, <1>4 DEF Proposing

LEMMA VotingTyped ==
    ASSUME MemoryOK, VoteState, NEW p \in Honest, Voting(p)
    PROVE  MemoryOK'
<1>1. PICK id \in Transitions, r \in Rounds :
          \/ \E ready \in BOOLEAN, w \in Writes({"valid", "lock"}) :
                HandlePrevote(p, id, r, ready, w)
          \/ \E w \in Writes({"final"}) :
                HandleVote(p, id, r, w) \/ HandleFrontierBlock(p, id, r, w)
  BY DEF Voting
<1>2. ASSUME NEW ready \in BOOLEAN, NEW w \in Writes({"valid", "lock"}),
             HandlePrevote(p, id, r, ready, w)
      PROVE  MemoryOK'
  <2>1. PICK out : out = OnPolka(p, store[p], id, r, current_round[p], ready, w)
    OBVIOUS
  <2>2. /\ HasPolka(r, id) /\ GoodWrite(w)
        /\ ~store[p].failed /\ store[p].mem.final = None
    BY <1>2, OutcomeType DEF HandlePrevote, Open
  <2>3. PolkaKept(p, store[p], prevotes[p], precommits[p], id, r, current_round[p], ready, w)
    BY <2>2, NodeFacts, PolkaOutcome
  <2>4. out.precommits \in Votes
    BY <2>1, <2>3 DEF PolkaKept, Votes
  <2>5. RoundsOf(out.precommits) \in SUBSET Rounds
    BY <2>4, RoundsOfVotes
  <2> QED
    BY <1>2, <2>1, <2>5 DEF HandlePrevote, MemoryOK
<1>3. ASSUME NEW w \in Writes({"final"}),
             HandleVote(p, id, r, w) \/ HandleFrontierBlock(p, id, r, w)
      PROVE  MemoryOK'
  <2>1. ApplyFinalized(p, id, w)
    BY <1>3 DEF HandleVote, HandleFrontierBlock
  <2>2. UNCHANGED <<proposals, timeouts, resets>>
    BY <2>1 DEF ApplyFinalized
  <2>3. UNCHANGED volatile \/ ForgetHeight(p)
    BY <2>1 DEF ApplyFinalized
  <2>4. CASE UNCHANGED volatile
    BY <2>2, <2>4 DEF volatile, MemoryOK
  <2>5. CASE ForgetHeight(p)
    BY <2>2, <2>5, ForgetHeightTyped
  <2> QED
    BY <2>3, <2>4, <2>5
<1> QED
  BY <1>1, <1>2, <1>3

LEMMA ReseedTyped ==
    ASSUME MemoryOK, NEW p \in Honest, NEW row \in SafetyRow, Reseed(p, row)
    PROVE  /\ local_vote_reservations' \in [Honest -> SUBSET Rounds]
           /\ proposed_in_round' \in [Honest -> SUBSET Rounds]
           /\ current_round' \in [Honest -> Rounds]
<1>1. RoundsOf(OwnPrecommits(row)) \in SUBSET Rounds /\ 0 \in Rounds
  BY OwnPrecommitsTyped, RoundsOfVotes, RulesAssumption DEF Rounds
<1> QED
  BY <1>1 DEF Reseed, MemoryOK

LEMMA StartFromTyped ==
    ASSUME MemoryOK, NEW p \in Honest, NEW row \in SafetyRow, StartFrom(p, row)
    PROVE  MemoryOK'
<1>1. row.valid # NoPoint => row.valid.id \in Transitions
  BY DEF SafetyRow, VotePoint
<1>2. /\ local_vote_reservations' \in [Honest -> SUBSET Rounds]
      /\ proposed_in_round' \in [Honest -> SUBSET Rounds]
      /\ current_round' \in [Honest -> Rounds]
  BY ReseedTyped DEF StartFrom
<1>3. candidates' \in [Honest -> SUBSET Transitions]
  <2>1. (IF row.valid = NoPoint THEN {} ELSE {row.valid.id}) \in SUBSET Transitions
    BY <1>1
  <2> QED
    BY <2>1 DEF StartFrom, MemoryOK
<1>4. /\ local_timed_out_rounds' \in [Honest -> SUBSET Rounds]
      /\ building' \in [Honest -> Builds \cup {NoBuild}]
      /\ highest_tc' \in [Honest -> Rounds \cup {NoRound}]
      /\ proposals' \subseteq ProposeMsg
      /\ timeouts' \in [Honest -> SUBSET Rounds]
      /\ resets' \in Nat
  BY DEF StartFrom, MemoryOK
<1> QED
  BY <1>2, <1>3, <1>4 DEF MemoryOK

LEMMA MemoryStep ==
    ASSUME MemoryOK, VoteState, [Next]_vars
    PROVE  MemoryOK'
<1>1. CASE UNCHANGED vars
  BY <1>1 DEF vars, volatile, MemoryOK
<1>2. ASSUME NEW p \in Honest, Proposing(p)
      PROVE  MemoryOK'
  BY <1>2, ProposingTyped
<1>3. ASSUME NEW p \in Honest, Voting(p)
      PROVE  MemoryOK'
  BY <1>3, VotingTyped
<1>4. ASSUME NEW p \in Honest, ChangingRound(p)
      PROVE  MemoryOK'
  <2>1. CASE TimeoutVote(p)
    BY <2>1 DEF TimeoutVote, MemoryOK
  <2>2. ASSUME NEW r \in Rounds, RecordTimeoutCertificate(p, r)
        PROVE  MemoryOK'
    <3>1. r + 1 \in Rounds
      BY <2>2, RulesAssumption DEF RecordTimeoutCertificate, Rounds
    <3> QED
      BY <2>2, <3>1 DEF RecordTimeoutCertificate, MemoryOK
  <2>3. ASSUME NEW r \in Rounds, CatchUpRound(p, r)
        PROVE  MemoryOK'
    BY <2>3 DEF CatchUpRound, MemoryOK
  <2> QED
    BY <1>4, <2>1, <2>2, <2>3 DEF ChangingRound
<1>5. ASSUME NEW p \in Honest, Rebroadcast(p)
      PROVE  MemoryOK'
  BY <1>5 DEF Rebroadcast, volatile, MemoryOK
<1>6. ASSUME NEW p \in Honest, PeerLossReset(p)
      PROVE  MemoryOK'
  <2>1. store[p].mem \in SafetyRow
    BY NodeFacts DEF Stores
  <2>2. /\ local_vote_reservations' \in [Honest -> SUBSET Rounds]
        /\ proposed_in_round' \in [Honest -> SUBSET Rounds]
        /\ current_round' \in [Honest -> Rounds]
    BY <1>6, <2>1, ReseedTyped DEF PeerLossReset
  <2> QED
    BY <1>6, <2>2 DEF PeerLossReset, MemoryOK
<1>7. ASSUME NEW p \in Honest, Restart(p)
      PROVE  MemoryOK'
  <2>1. store[p].disk \in SafetyRow
    BY NodeFacts DEF Stores
  <2> QED
    BY <1>7, <2>1, StartFromTyped DEF Restart
<1>8. ASSUME NEW p \in Honest, RestartWithDamage(p)
      PROVE  MemoryOK'
  <2>1. [EmptyRow EXCEPT !.abstain = TRUE] \in SafetyRow
    BY RowTypes DEF SafetyRow
  <2> QED
    BY <1>8, <2>1, StartFromTyped DEF RestartWithDamage
<1> QED
  BY <1>1, <1>2, <1>3, <1>4, <1>5, <1>6, <1>7, <1>8 DEF Next

---------------------------------------------------------------------------
(* The theorems.                                                            *)

LEMMA InitHolds ==
    ASSUME Init
    PROVE  MemoryOK /\ VoteState /\ RulesInit
<1>1. RulesInit
  BY DEF Init, RulesInit
<1>2. VotesTypeOK
  BY DEF Init, VotesTypeOK, Votes
<1>3. 0 \in Rounds
  BY RulesAssumption DEF Rounds
<1>4. MemoryOK
  BY <1>3 DEF Init, MemoryOK
<1>5. PICK s : s = [mem |-> EmptyRow, disk |-> EmptyRow, failed |-> FALSE]
  OBVIOUS
<1>6. s \in Stores /\ s.mem = EmptyRow /\ s.disk = EmptyRow /\ ~s.failed
  BY <1>5, RowTypes DEF Stores
<1>7. store = [p \in Honest |-> s]
  BY <1>5 DEF Init
<1>8. Backed(s, {}, {})
  <2>1. OwnPrevotes(EmptyRow) = {} /\ OwnPrecommits(EmptyRow) = {}
    BY DEF EmptyRow, OwnPrevotes, OwnPrecommits
  <2>2. RowWellFormed(EmptyRow) /\ RowCovers(EmptyRow, {}, {}) /\ RowSigned(EmptyRow, {}, {})
    BY <2>1 DEF RowWellFormed, RowCovers, RowSigned, EmptyRow
  <2> QED
    BY <1>6, <2>2 DEF Backed
<1>9. StoreMatchesVotes
  BY <1>7, <1>8 DEF Init, StoreMatchesVotes
<1>10. FinalsHaveCertificates
  BY <1>6, <1>7, VotingAssumption DEF FinalsHaveCertificates, EmptyRow
<1> QED
  BY <1>1, <1>2, <1>4, <1>6, <1>7, <1>9, <1>10 DEF VoteState

LEMMA StateInvariant == Spec => [](MemoryOK /\ VoteState)
<1>1. Init => MemoryOK /\ VoteState
  BY InitHolds
<1>2. MemoryOK /\ VoteState /\ [Next]_vars => (MemoryOK /\ VoteState)'
  <2> SUFFICES ASSUME MemoryOK, VoteState, [Next]_vars
               PROVE  (MemoryOK /\ VoteState)'
    OBVIOUS
  <2>1. proposals \subseteq ProposeMsg
    BY DEF MemoryOK
  <2> QED
    BY <2>1, VoteStep, MemoryStep
<1> QED
  BY <1>1, <1>2, PTL DEF Spec

\* Types, and the agreement between each node's safety row and the votes it has
\* signed, hold in every state: through resets, restarts, failing writes and
\* damaged rows, whatever the committee and the number of rounds.
THEOREM VotingInvariant == Spec => []VotingInv
<1>1. MemoryOK /\ VoteState => VotingInv
  BY TypeOKParts DEF VotingInv, VoteState
<1> QED
  BY <1>1, StateInvariant, PTL

\* Every vote a node signs is one the voting rules let it sign.
THEOREM ImplementsRules == Spec => RulesSpec
<1>1. Init => RulesInit
  BY InitHolds
<1>2. MemoryOK /\ VoteState /\ [Next]_vars => [RulesNext]_votes
  <2>1. MemoryOK => proposals \subseteq ProposeMsg
    BY DEF MemoryOK
  <2> QED
    BY <2>1, VoteStep
<1> QED
  BY <1>1, <1>2, StateInvariant, PTL DEF Spec, RulesSpec

\* Two finals come from two precommit quorums, and those agree.
LEMMA FinalsAgree ==
    ASSUME VoteState, CertificateAgreement
    PROVE  Agreement
<1> SUFFICES ASSUME NEW p \in Honest, NEW q \in Honest,
                    finalized[p] # None, finalized[q] # None
             PROVE  finalized[p] = finalized[q]
  BY DEF Agreement
<1>1. finalized[p] \in Transitions /\ finalized[q] \in Transitions
  BY NodeFacts DEF finalized, Stores, SafetyRow
<1>2. /\ \E r \in Rounds : HasPrecommitQuorum(r, finalized[p])
      /\ \E r \in Rounds : HasPrecommitQuorum(r, finalized[q])
  BY <1>1 DEF VoteState, FinalsHaveCertificates, finalized
<1> QED
  BY <1>1, <1>2 DEF CertificateAgreement

\* Two honest nodes never finalize different transitions at a height, through
\* any number of rounds, resets, restarts, failing writes and damaged rows, as
\* long as fewer than a third of the committee is faulty.
THEOREM SafeFinality == Spec => []Agreement
  BY StateInvariant, ImplementsRules, CertificatesAgree, FinalsAgree, PTL

\* While a node can still vote at the height, its disk holds every prevote it has
\* signed and a lock at or above every precommit.
THEOREM DurableVotes == Spec => []SignedVotesAreDurable
<1>1. ASSUME VoteState
      PROVE  SignedVotesAreDurable
  <2> SUFFICES ASSUME NEW p \in Honest, store[p].disk.final = None, ~store[p].disk.abstain
               PROVE  /\ \A v \in prevotes[p] : store[p].disk.prevotes[v[1]] = v[2]
                      /\ \A v \in precommits[p] :
                            \/ store[p].disk.lock.round > v[1]
                            \/ store[p].disk.lock = [id |-> v[2], round |-> v[1]]
    BY DEF SignedVotesAreDurable
  <2>1. RowCovers(store[p].disk, prevotes[p], precommits[p])
    BY <1>1, NodeFacts DEF Backed
  <2>2. store[p].disk.lock \in VotePoint
    BY <1>1, NodeFacts DEF Stores, SafetyRow
  <2> QED
    BY <2>1, <2>2 DEF RowCovers, AsVote, VotePoint, NoPoint
<1> QED
  BY <1>1, StateInvariant, PTL

\* A step changes the store of one node at most, and never what it finalized.
OneFinalAtMost ==
    \/ UNCHANGED store
    \/ \E p \in Honest : \E t :
          /\ store' = [store EXCEPT ![p] = t]
          /\ store[p].mem.final # None => t.mem.final = store[p].mem.final

LEMMA FinalIsKept ==
    ASSUME VoteState, Next
    PROVE  OneFinalAtMost
<1>1. PICK p \in Honest : \/ Proposing(p)
                          \/ Voting(p)
                          \/ ChangingRound(p)
                          \/ Rebroadcast(p)
                          \/ PeerLossReset(p)
                          \/ Restart(p)
                          \/ RestartWithDamage(p)
  BY DEF Next
<1>2. ASSUME NEW t, store' = [store EXCEPT ![p] = t], Open(p)
      PROVE  OneFinalAtMost
  BY <1>2 DEF OneFinalAtMost, Open
<1>3. CASE Proposing(p)
  <2>1. CASE BuildProposal(p) \/ SendProposal(p)
    BY <2>1 DEF BuildProposal, SendProposal, OneFinalAtMost
  <2>2. ASSUME NEW m \in Deliverable, HandleProposeCacheFull(p, m)
        PROVE  OneFinalAtMost
    BY <2>2 DEF HandleProposeCacheFull, OneFinalAtMost
  <2>3. ASSUME NEW m \in Deliverable, HandlePropose(p, m)
        PROVE  OneFinalAtMost
    BY <1>2, <2>3 DEF HandlePropose, AcceptProposal, Commit, Acceptable
  <2> QED
    BY <1>3, <2>1, <2>2, <2>3 DEF Proposing
<1>4. CASE Voting(p)
  <2>1. PICK id \in Transitions, r \in Rounds :
            \/ \E ready \in BOOLEAN, w \in Writes({"valid", "lock"}) :
                  HandlePrevote(p, id, r, ready, w)
            \/ \E w \in Writes({"final"}) :
                  HandleVote(p, id, r, w) \/ HandleFrontierBlock(p, id, r, w)
    BY <1>4 DEF Voting
  <2>2. ASSUME NEW ready, NEW w, HandlePrevote(p, id, r, ready, w)
        PROVE  OneFinalAtMost
    BY <1>2, <2>2 DEF HandlePrevote, Commit
  <2>3. ASSUME NEW w, HandleVote(p, id, r, w) \/ HandleFrontierBlock(p, id, r, w)
        PROVE  OneFinalAtMost
    BY <1>2, <2>3 DEF HandleVote, HandleFrontierBlock, ApplyFinalized, Commit
  <2> QED
    BY <2>1, <2>2, <2>3
<1>5. CASE ChangingRound(p)
  BY <1>5 DEF ChangingRound, TimeoutVote, RecordTimeoutCertificate, CatchUpRound, OneFinalAtMost
<1>6. CASE Rebroadcast(p) \/ PeerLossReset(p)
  BY <1>6 DEF Rebroadcast, PeerLossReset, OneFinalAtMost
<1>7. store[p].mem.final # None => store[p].disk = store[p].mem
  BY NodeFacts DEF Backed
<1>8. ASSUME NEW row, StartFrom(p, row), store[p].mem.final # None => row.final = store[p].mem.final
      PROVE  OneFinalAtMost
  <2>1. PICK t : t = [mem |-> row, disk |-> row, failed |-> FALSE]
    OBVIOUS
  <2>2. store' = [store EXCEPT ![p] = t]
    BY <1>8, <2>1 DEF StartFrom
  <2>3. t.mem.final = row.final
    BY <2>1
  <2> QED
    BY <1>8, <2>2, <2>3 DEF OneFinalAtMost
<1>9. CASE Restart(p)
  BY <1>7, <1>8, <1>9 DEF Restart
<1>10. CASE RestartWithDamage(p)
  BY <1>7, <1>8, <1>10 DEF RestartWithDamage
<1> QED
  BY <1>1, <1>3, <1>4, <1>5, <1>6, <1>9, <1>10

\* Each node finalizes at most once, for good, and what every other node that
\* finalized has: the height implements the abstract finality.
THEOREM ImplementsFinality == Spec => FinalityRefined
<1>1. Init => Finality!FinalityInit
  BY DEF Init, Finality!FinalityInit, finalized, EmptyRow
<1>2. ASSUME VoteState, VoteState', Agreement', [Next]_vars
      PROVE  [Finality!FinalityNext]_finalized
  <2>1. CASE UNCHANGED store
    BY <2>1 DEF finalized
  <2>2. CASE ~(UNCHANGED store)
    <3>1. Next
      BY <1>2, <2>2 DEF vars
    <3>2. PICK p \in Honest : \E t :
              /\ store' = [store EXCEPT ![p] = t]
              /\ store[p].mem.final # None => t.mem.final = store[p].mem.final
      BY <1>2, <2>2, <3>1, FinalIsKept DEF OneFinalAtMost
    <3>t. PICK t :
              /\ store' = [store EXCEPT ![p] = t]
              /\ store[p].mem.final # None => t.mem.final = store[p].mem.final
      BY <3>2
    <3>3. /\ finalized \in [Honest -> Transitions \cup {None}]
          /\ finalized' \in [Honest -> Transitions \cup {None}]
          /\ finalized = [q \in Honest |-> store[q].mem.final]
          /\ finalized' = [q \in Honest |-> store'[q].mem.final]
      BY <1>2 DEF finalized, VoteState, Stores, SafetyRow
    <3>4. finalized' = [finalized EXCEPT ![p] = t.mem.final]
      BY <1>2, <3>t, <3>3 DEF VoteState
    <3>5. CASE t.mem.final = finalized[p]
      BY <3>3, <3>4, <3>5
    <3>6. CASE t.mem.final # finalized[p]
      <4>1. finalized[p] = None /\ t.mem.final \in Transitions
        BY <3>t, <3>3, <3>4, <3>6
      <4>2. \A q \in Honest : finalized[q] \in {None, t.mem.final}
        <5> SUFFICES ASSUME NEW q \in Honest, finalized[q] # None
                     PROVE  finalized[q] = t.mem.final
          OBVIOUS
        <5>1. q # p /\ finalized'[q] = finalized[q] /\ finalized'[p] = t.mem.final
          BY <3>3, <3>4, <4>1
        <5>2. finalized'[q] # None /\ finalized'[p] # None => finalized'[q] = finalized'[p]
          BY <1>2 DEF Agreement
        <5> QED
          BY <4>1, <5>1, <5>2, VotingAssumption
      <4>3. Finality!Decide(p, t.mem.final)
        BY <3>4, <4>1, <4>2 DEF Finality!Decide
      <4> QED
        BY <4>1, <4>3 DEF Finality!FinalityNext
    <3> QED
      BY <3>5, <3>6
  <2> QED
    BY <2>1, <2>2
<1> QED
  BY <1>1, <1>2, StateInvariant, SafeFinality, PTL
     DEF Spec, FinalityRefined, Finality!FinalitySpec
---------------------------------------------------------------------------
(* Locks.                                                                   *)

\* The lock on disk is the old one, or it gave way to a finalization, a
\* quarantine or a polka of a later round.
LockForward(s, t) ==
    t.disk.lock # s.disk.lock =>
        \/ t.disk.final # None
        \/ t.disk.abstain
        \/ t.disk.lock.round > s.disk.lock.round /\ HasPolka(t.disk.lock.round, t.disk.lock.id)

\* A store as a handler finds it and leaves it.
Held(t) == t \in Stores /\ (~t.failed => t.mem = t.disk)

\* After a fenced write nothing is written any more.
LEMMA HeldPersist ==
    ASSUME NEW t, Held(t), NEW row \in SafetyRow, NEW outcome \in {"durable", "lost", "replayed"},
           NEW u, u = Persist(t, row, outcome)
    PROVE  Held(u) /\ u.disk \in {t.disk, row}
<1>1. CASE t.failed
  BY <1>1 DEF Persist
<1>2. CASE ~t.failed
  <2>1. /\ u \in Stores
        /\ \/ u = [mem |-> row, disk |-> row, failed |-> FALSE]
           \/ u.failed /\ u.mem = t.mem /\ u.disk \in {t.disk, row}
    BY <1>2, PersistCases DEF Held
  <2> QED
    BY <2>1 DEF Held
<1> QED
  BY <1>1, <1>2

\* A polka moves the lock to its own round, if that is a later one.
LEMMA PolkaMovesLock ==
    ASSUME NEW p, NEW s, Held(s), ~s.failed, NEW id \in Transitions, NEW r \in Rounds,
           HasPolka(r, id), NEW round, NEW ready \in BOOLEAN, NEW w, GoodWrite(w),
           NEW out, out = OnPolka(p, s, id, r, round, ready, w)
    PROVE  Held(out.store) /\ LockForward(s, out.store)
<1>v. PICK v : v = ValidValueStored(s, id, r, w)
  OBVIOUS
<1>l. PICK l : l = lock_on_polka(v, id, r, w)
  OBVIOUS
<1>1. Held(v) /\ v.disk.lock = s.disk.lock
  <2>1. PICK row : row = [s.mem EXCEPT !.valid = [id |-> id, round |-> r]]
    OBVIOUS
  <2>2. row \in SafetyRow /\ row.lock = s.mem.lock
    BY <2>1 DEF Held, Stores, SafetyRow, VotePoint
  <2>3. v \in {s, Persist(s, row, Outcome(w, "valid"))}
    BY <1>v, <2>1 DEF ValidValueStored
  <2>4. s.mem.lock = s.disk.lock
    BY DEF Held
  <2> QED
    BY <2>2, <2>3, <2>4, HeldPersist DEF GoodWrite
<1>2. Held(l) /\ (v.failed \/ LockForward(s, l))
  <2>1. PICK row : row = [v.mem EXCEPT !.lock = [id |-> id, round |-> r]]
    OBVIOUS
  <2>2. row \in SafetyRow /\ row.lock = [id |-> id, round |-> r]
    BY <1>1, <2>1 DEF Held, Stores, SafetyRow, VotePoint
  <2>3. CASE r > v.mem.lock.round
    <3>1. l = Persist(v, row, Outcome(w, "lock"))
      BY <1>l, <2>1, <2>3 DEF lock_on_polka
    <3>2. Held(l) /\ l.disk \in {v.disk, row}
      BY <1>1, <2>2, <3>1, HeldPersist DEF GoodWrite
    <3>3. ~v.failed => v.mem.lock = s.disk.lock
      BY <1>1 DEF Held
    <3> QED
      BY <1>1, <2>2, <2>3, <3>2, <3>3 DEF LockForward
  <2>4. CASE ~(r > v.mem.lock.round)
    BY <1>1, <1>l, <2>4 DEF lock_on_polka, LockForward
  <2> QED
    BY <2>3, <2>4
<1>3. CASE ready /\ MayPrecommit(p, v, r, round)
  <2>1. out = Outcomes(l, {}, LockedVote(l, id, r))
    BY <1>v, <1>l, <1>3 DEF OnPolka
  <2>2. out.store = l
    BY <2>1 DEF Outcomes
  <2>3. ~v.failed
    BY <1>3 DEF MayPrecommit
  <2> QED
    BY <1>2, <2>2, <2>3
<1>4. CASE ~(ready /\ MayPrecommit(p, v, r, round))
  <2>1. out = Outcomes(v, {}, {})
    BY <1>v, <1>l, <1>4 DEF OnPolka
  <2>2. out.store = v
    BY <2>1 DEF Outcomes
  <2> QED
    BY <1>1, <2>2 DEF LockForward
<1> QED
  BY <1>3, <1>4

\* A finalization clears the lock with everything else.
LEMMA FinalMovesLock ==
    ASSUME NEW s, NEW t, Held(t), LockForward(s, t), NEW id \in Transitions, NEW w, GoodWrite(w),
           NEW u, u = FinalStored(t, id, w)
    PROVE  Held(u) /\ LockForward(s, u)
<1>1. FinalRow(id) \in SafetyRow /\ FinalRow(id).final = id /\ id # None
  BY RowTypes, VotingAssumption DEF FinalRow, EmptyRow
<1>2. Held(u) /\ u.disk \in {t.disk, FinalRow(id)}
  BY <1>1, HeldPersist DEF FinalStored, GoodWrite
<1> QED
  BY <1>1, <1>2 DEF LockForward

\* A prevote leaves the lock alone.
LEMMA PrevoteKeepsLock ==
    ASSUME NEW s, NEW t, Held(t), ~t.failed, LockForward(s, t),
           NEW id \in Transitions, NEW r \in Rounds, NEW w, GoodWrite(w),
           NEW u, u = record_local_prevote(t, id, r, w)
    PROVE  Held(u) /\ LockForward(s, u)
<1>1. PICK row : row = [t.mem EXCEPT !.prevotes[r] = id]
  OBVIOUS
<1>2. row \in SafetyRow /\ row.lock = t.mem.lock /\ row.final = t.mem.final /\ row.abstain = t.mem.abstain
  BY <1>1 DEF Held, Stores, SafetyRow
<1>3. u = Persist(t, row, Outcome(w, "prevote"))
  BY <1>1 DEF record_local_prevote
<1>4. Held(u) /\ u.disk \in {t.disk, row} /\ t.mem = t.disk
  BY <1>2, <1>3, HeldPersist DEF GoodWrite, Held
<1> QED
  BY <1>2, <1>4 DEF LockForward

\* A proposal may complete a polka, a finalization and a prevote, in this order.
LEMMA ProposalMovesLock ==
    ASSUME NEW p \in Honest, Held(store[p]), ~store[p].failed, NEW m \in ProposeMsg,
           NEW polka \in PolkaRounds(m) \cup {NoRound}, NEW quorum, NEW ready \in BOOLEAN,
           NEW w, GoodWrite(w), NEW out, out = OnProposal(p, m, polka, quorum, ready, w)
    PROVE  LockForward(store[p], out.store)
<1> DEFINE s == store[p]
<1>1. PICK a : a = IF polka = NoRound THEN Outcomes(s, {}, {})
                   ELSE OnPolka(p, s, m.id, polka, m.round, ready, w)
  OBVIOUS
<1>2. PICK b : b = OnCandidateBody(p, m, polka, quorum, ready, w)
  OBVIOUS
<1>3. m.id \in Transitions /\ m.round \in Rounds
  BY DEF ProposeMsg
<1>4. Held(a.store) /\ LockForward(s, a.store)
  <2>1. CASE polka = NoRound
    <3>1. a.store = s
      BY <1>1, <2>1 DEF Outcomes
    <3> QED
      BY <3>1 DEF LockForward
  <2>2. CASE polka # NoRound
    <3>1. polka \in Rounds /\ HasPolka(polka, m.id)
      BY <1>3, <2>2, VotingAssumption, RulesAssumption
         DEF PolkaRounds, CoveredRounds, Rounds
    <3>2. a = OnPolka(p, s, m.id, polka, m.round, ready, w)
      BY <1>1, <2>2
    <3> QED
      BY <1>3, <3>1, <3>2, PolkaMovesLock
  <2> QED
    BY <2>1, <2>2
<1>5. Held(b.store) /\ LockForward(s, b.store)
  <2>1. CASE quorum = NoRound
    BY <1>1, <1>2, <1>4, <2>1 DEF OnCandidateBody
  <2>2. CASE quorum # NoRound
    <3>1. b = Outcomes(FinalStored(a.store, m.id, w), {}, a.precommits)
      BY <1>1, <1>2, <2>2 DEF OnCandidateBody
    <3>2. b.store = FinalStored(a.store, m.id, w)
      BY <3>1 DEF Outcomes
    <3> QED
      BY <1>3, <1>4, <3>2, FinalMovesLock
  <2> QED
    BY <2>1, <2>2
<1>6. CASE ready /\ MayPrevote(p, b.store, m)
  <2>1. PICK v : v = record_local_prevote(b.store, m.id, m.round, w)
    OBVIOUS
  <2>2. out = Outcomes(v, RecordedVote(v, m.id, m.round), b.precommits)
    BY <1>2, <1>6, <2>1 DEF OnProposal
  <2>3. out.store = v
    BY <2>2 DEF Outcomes
  <2>4. ~b.store.failed
    BY <1>6 DEF MayPrevote
  <2> QED
    BY <1>3, <1>5, <2>1, <2>3, <2>4, PrevoteKeepsLock
<1>7. CASE ~(ready /\ MayPrevote(p, b.store, m))
  <2>1. out = b
    BY <1>2, <1>7 DEF OnProposal
  <2> QED
    BY <1>5, <2>1
<1> QED
  BY <1>6, <1>7

\* A step changes the store of one node at most, and moves its lock forward.
OneLockAtMost ==
    \/ UNCHANGED store
    \/ \E p \in Honest : \E t :
          /\ store' = [store EXCEPT ![p] = t]
          /\ LockForward(store[p], t)

LEMMA LockIsKept ==
    ASSUME VoteState, proposals \subseteq ProposeMsg, Next
    PROVE  OneLockAtMost
<1>1. PICK p \in Honest : \/ Proposing(p)
                          \/ Voting(p)
                          \/ ChangingRound(p)
                          \/ Rebroadcast(p)
                          \/ PeerLossReset(p)
                          \/ Restart(p)
                          \/ RestartWithDamage(p)
  BY DEF Next
<1>2. Held(store[p])
  BY NodeFacts DEF Held, Backed
<1>3. CASE Proposing(p)
  <2>1. CASE BuildProposal(p) \/ SendProposal(p)
    BY <2>1 DEF BuildProposal, SendProposal, OneLockAtMost
  <2>2. ASSUME NEW m \in Deliverable, HandleProposeCacheFull(p, m)
        PROVE  OneLockAtMost
    BY <2>2 DEF HandleProposeCacheFull, OneLockAtMost
  <2>3. ASSUME NEW m \in Deliverable, HandlePropose(p, m)
        PROVE  OneLockAtMost
    <3>1. PICK polka \in PolkaRounds(m) \cup {NoRound}, quorum \in QuorumRounds(m) \cup {NoRound},
               ready \in BOOLEAN, w \in Writes({"valid", "lock", "prevote", "final"}) :
               AcceptProposal(p, m, OnProposal(p, m, polka, quorum, ready, w))
      BY <2>3 DEF HandlePropose
    <3>2. PICK out : out = OnProposal(p, m, polka, quorum, ready, w)
      OBVIOUS
    <3>3. m \in ProposeMsg
      BY DeliverableTyped
    <3>4. GoodWrite(w) /\ ~store[p].failed
      BY <2>3, OutcomeType DEF HandlePropose, Acceptable, Open
    <3>5. store' = [store EXCEPT ![p] = out.store]
      BY <3>1, <3>2 DEF AcceptProposal, Commit
    <3>6. LockForward(store[p], out.store)
      BY <1>2, <3>2, <3>3, <3>4, ProposalMovesLock
    <3> QED
      BY <3>5, <3>6 DEF OneLockAtMost
  <2> QED
    BY <1>3, <2>1, <2>2, <2>3 DEF Proposing
<1>4. CASE Voting(p)
  <2>1. PICK id \in Transitions, r \in Rounds :
            \/ \E ready \in BOOLEAN, w \in Writes({"valid", "lock"}) :
                  HandlePrevote(p, id, r, ready, w)
            \/ \E w \in Writes({"final"}) :
                  HandleVote(p, id, r, w) \/ HandleFrontierBlock(p, id, r, w)
    BY <1>4 DEF Voting
  <2>2. ASSUME NEW ready \in BOOLEAN, NEW w \in Writes({"valid", "lock"}), HandlePrevote(p, id, r, ready, w)
        PROVE  OneLockAtMost
    <3>1. PICK out : out = OnPolka(p, store[p], id, r, current_round[p], ready, w)
      OBVIOUS
    <3>2. /\ HasPolka(r, id) /\ GoodWrite(w) /\ ~store[p].failed
          /\ store' = [store EXCEPT ![p] = out.store]
      BY <2>2, <3>1, OutcomeType DEF HandlePrevote, Open, Commit
    <3>3. LockForward(store[p], out.store)
      BY <1>2, <3>1, <3>2, PolkaMovesLock
    <3> QED
      BY <3>2, <3>3 DEF OneLockAtMost
  <2>3. ASSUME NEW w \in Writes({"final"}), HandleVote(p, id, r, w) \/ HandleFrontierBlock(p, id, r, w)
        PROVE  OneLockAtMost
    <3>1. PICK t : t = FinalStored(store[p], id, w)
      OBVIOUS
    <3>2. Commit(p, Outcomes(t, {}, {})) /\ GoodWrite(w)
      BY <2>3, <3>1, OutcomeType DEF HandleVote, HandleFrontierBlock, ApplyFinalized
    <3>3. store' = [store EXCEPT ![p] = t]
      BY <3>2 DEF Commit, Outcomes
    <3>4. LockForward(store[p], store[p])
      BY DEF LockForward
    <3>5. LockForward(store[p], t)
      BY <1>2, <3>1, <3>2, <3>4, FinalMovesLock
    <3> QED
      BY <3>3, <3>5 DEF OneLockAtMost
  <2> QED
    BY <2>1, <2>2, <2>3
<1>5. CASE ChangingRound(p)
  BY <1>5 DEF ChangingRound, TimeoutVote, RecordTimeoutCertificate, CatchUpRound, OneLockAtMost
<1>6. CASE Rebroadcast(p) \/ PeerLossReset(p)
  BY <1>6 DEF Rebroadcast, PeerLossReset, OneLockAtMost
<1>7. ASSUME NEW row, StartFrom(p, row), row = store[p].disk \/ row.abstain
      PROVE  OneLockAtMost
  <2>1. PICK t : t = [mem |-> row, disk |-> row, failed |-> FALSE]
    OBVIOUS
  <2>2. store' = [store EXCEPT ![p] = t] /\ t.disk = row
    BY <1>7, <2>1 DEF StartFrom
  <2> QED
    BY <1>7, <2>2 DEF OneLockAtMost, LockForward
<1>8. CASE Restart(p)
  BY <1>7, <1>8 DEF Restart
<1>9. CASE RestartWithDamage(p)
  <2>1. PICK row : row = [EmptyRow EXCEPT !.abstain = TRUE]
    OBVIOUS
  <2>2. row.abstain
    BY <2>1, Zenon DEF EmptyRow
  <2>3. StartFrom(p, row)
    BY <1>9, <2>1 DEF RestartWithDamage
  <2> QED
    BY <1>7, <2>2, <2>3
<1> QED
  BY <1>1, <1>3, <1>4, <1>5, <1>6, <1>8, <1>9

\* The lock a vote was cast under is released by finalization or quarantine only;
\* otherwise it moves, to a later round with a polka, through every crash, lost
\* or replayed write and restart.
THEOREM LocksMoveForward == Spec => LockMovesForward
<1>1. ASSUME MemoryOK, VoteState, [Next]_vars
      PROVE  [\A p \in Honest :
                LET old == store[p].disk.lock
                    new == store'[p].disk.lock
                IN  new # old =>
                       \/ store'[p].disk.final # None
                       \/ store'[p].disk.abstain
                       \/ new.round > old.round /\ HasPolka(new.round, new.id)]_vars
  <2>1. CASE UNCHANGED vars
    BY <2>1
  <2>2. CASE Next
    <3>1. proposals \subseteq ProposeMsg /\ OneLockAtMost
      BY <1>1, <2>2, LockIsKept DEF MemoryOK
    <3>2. ASSUME NEW p \in Honest
          PROVE  LockForward(store[p], store'[p])
      BY <1>1, <3>1 DEF OneLockAtMost, LockForward, VoteState
    <3> QED
      BY <3>2 DEF LockForward
  <2> QED
    BY <1>1, <2>1, <2>2
<1> QED
  BY <1>1, StateInvariant, PTL DEF Spec, LockMovesForward
=============================================================================
