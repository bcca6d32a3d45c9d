---------------------------- MODULE VotingRules ----------------------------
(* The rules the safety of two-phase finality rests on, with nothing but    *)
(* the signed votes as state: when an honest member may sign a prevote and  *)
(* when it may sign a precommit.  The lock of a member is the last          *)
(* precommit it signed; its current round, its timers, its peers and its    *)
(* disk play no part.  TwoPhaseVoting implements these rules.               *)
EXTENDS CommitteeQuorum, Integers

CONSTANTS
    Transitions,    \* transition ids that can be proposed at the height
    MaxRound        \* bound: the rounds explored are 0..MaxRound

ASSUME RulesAssumption == MaxRound \in Nat

Rounds == 0 .. MaxRound

VARIABLES prevotes, precommits      \* per honest member: the votes it has signed

votes == <<prevotes, precommits>>

Votes == SUBSET (Rounds \X Transitions)

\* Faulty members count as having signed everything.
Signed(cast, r, id) == {q \in Honest : <<r, id>> \in cast[q]} \cup Faulty
HasPolka(r, id) == IsQuorum(Signed(prevotes, r, id))
HasPrecommitQuorum(r, id) == IsQuorum(Signed(precommits, r, id))

(* A member that has signed the prevotes pre and the precommits com.        *)

\* v is its lock.
IsLock(com, v) == /\ v \in com
                  /\ \A u \in com : u[1] <= v[1]

\* can_prevote_locked: no lock, the locked transition, or a transition with a
\* polka of an earlier round at or above the lock.
LockPermits(com, r, id) ==
    \/ com = {}
    \/ \E v \in com :
          /\ IsLock(com, v)
          /\ \/ v[2] = id
             \/ \E pol \in Rounds : v[1] <= pol /\ pol < r /\ HasPolka(pol, id)

\* One prevote a round, never below a round already voted in, within the lock.
MaySignPrevote(pre, com, r, id) ==
    /\ \A u \in pre : u[1] < r
    /\ \A v \in com : v[1] <= r
    /\ LockPermits(com, r, id)

\* A precommit needs its round's polka and moves the lock forward, never below
\* a round already prevoted in.
MaySignPrecommit(pre, com, r, id) ==
    /\ HasPolka(r, id)
    /\ \A u \in pre : u[1] <= r
    /\ \A v \in com : v[1] < r

SignPrevote(p, r, id) ==
    /\ UNCHANGED precommits
    /\ prevotes' = [prevotes EXCEPT ![p] = @ \cup {<<r, id>>}]
    /\ MaySignPrevote(prevotes[p], precommits[p], r, id)

SignPrecommit(p, r, id) ==
    /\ UNCHANGED prevotes
    /\ precommits' = [precommits EXCEPT ![p] = @ \cup {<<r, id>>}]
    /\ MaySignPrecommit(prevotes[p], precommits[p], r, id)

\* A proposal that arrives after its own polka: the node precommits it and then
\* prevotes it, under one lock of its mutex.
SignBoth(p, r, id) ==
    /\ prevotes' = [prevotes EXCEPT ![p] = @ \cup {<<r, id>>}]
    /\ precommits' = [precommits EXCEPT ![p] = @ \cup {<<r, id>>}]
    /\ \A u \in prevotes[p] : u[1] < r
    /\ MaySignPrecommit(prevotes[p], precommits[p], r, id)

RulesInit ==
    /\ prevotes = [p \in Honest |-> {}]
    /\ precommits = [p \in Honest |-> {}]

RulesNext ==
    \E p \in Honest, r \in Rounds, id \in Transitions :
        \/ SignPrevote(p, r, id)
        \/ SignPrecommit(p, r, id)
        \/ SignBoth(p, r, id)

RulesSpec == RulesInit /\ [][RulesNext]_votes

---------------------------------------------------------------------------
\* Votes are of rounds and transitions of the height.
VotesTypeOK ==
    /\ prevotes \in [Honest -> Votes]
    /\ precommits \in [Honest -> Votes]

\* No two finality certificates for different transitions can be assembled from
\* the votes of a height, whatever rounds they are from and whether or not any
\* node has seen them.
CertificateAgreement ==
    \A r, q \in Rounds, a, b \in Transitions :
        HasPrecommitQuorum(r, a) /\ HasPrecommitQuorum(q, b) => a = b

---------------------------------------------------------------------------
(* The inductive invariant behind CertificateAgreement.                     *)

OneVotePerRound ==
    \A p \in Honest :
        /\ \A v, u \in prevotes[p] : v[1] = u[1] => v = u
        /\ \A v, u \in precommits[p] : v[1] = u[1] => v = u

PrecommitsHavePolkas ==
    \A p \in Honest : \A v \in precommits[p] : HasPolka(v[1], v[2])

\* Prevote u of p respects every earlier precommit of p: it repeats it, or a
\* polka for u at that precommit's round or later, and before u, moved the lock.
Respects(p, u) ==
    \A v \in precommits[p] :
        v[1] < u[1] /\ v[2] # u[2] =>
            \E pol \in Rounds : /\ v[1] <= pol
                                /\ pol < u[1]
                                /\ HasPolka(pol, u[2])

\* A prevote that does not respect its caster's precommits was cast for a
\* transition that already had its polka.
PrevotesRespectLocks ==
    \A p \in Honest : \A u \in prevotes[p] :
        Respects(p, u) \/ HasPolka(u[1], u[2])

\* Every polka holds a quorum of prevotes that respect their casters' locks: the
\* prevotes that were there when it first formed.
PolkasRespectLocks ==
    \A r \in Rounds, id \in Transitions :
        HasPolka(r, id) =>
            IsQuorum({p \in Honest : <<r, id>> \in prevotes[p] /\ Respects(p, <<r, id>>)}
                        \cup Faulty)

\* The members that signed a precommit for id at r, or still may.
MayStillPrecommit(p, r, id) ==
    \/ <<r, id>> \in precommits[p]
    \/ \A u \in prevotes[p] : u[1] <= r

\* While a precommit quorum for id at r is possible, no other transition has a
\* polka in a later round.
NoPolkaPastOpenQuorum ==
    \A r, q \in Rounds, a, b \in Transitions :
        /\ r < q
        /\ a # b
        /\ HasPolka(q, b)
        => ~IsQuorum({p \in Honest : MayStillPrecommit(p, r, a)} \cup Faulty)

\* The strengthening that the rules preserve: can_prevote_locked,
\* lock_on_polka_locked and the vote-round floor keep a polka of a later round
\* away from every transition that could still be certified in an earlier one.
RulesInv ==
    /\ VotesTypeOK
    /\ OneVotePerRound
    /\ PrecommitsHavePolkas
    /\ PrevotesRespectLocks
    /\ PolkasRespectLocks
    /\ NoPolkaPastOpenQuorum
=============================================================================
