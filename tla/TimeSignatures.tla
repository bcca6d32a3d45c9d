---------------------------- MODULE TimeSignatures ----------------------------
(* Time signatures (node/node_consensus.cpp): every member of the committee of *)
(* a final height signs the height; a quorum of these signatures goes into the *)
(* next block and opens what is locked to the height.  A long lock is opened   *)
(* by the key set it was sealed to, members or not by then.  Pools, own        *)
(* signatures and refused payloads are memory only; messages are delayed,      *)
(* repeated and lost.                                                          *)
EXTENDS Integers, FiniteSets

CONSTANTS
    Signers,          \* validators, each a node
    EarlySigners,     \* of them, those that have signed every height beforehand
    SignersOf,        \* height -> committee of its epoch
    Openings,         \* long locks: [unlock, keys]
    Grace,            \* kTimedLongGraceBlocks
    FinalHeights,     \* bound: heights finalized
    SignerRestarts    \* bound: restarts, over all nodes

VARIABLES
    chainTip,         \* the last height that is final anywhere
    settledAt,        \* opening -> height of the block that carried it, 0: none
    nodeTip,          \* node -> finalized_height of its canonical_state_
    pool,             \* node -> time_signatures_: <<height, signer>>
    longPool,         \* node -> long_time_signatures_: <<opening, signer>>
    own,              \* node -> local_time_signature_height_
    ownLong,          \* node -> heights in local_long_time_signatures_
    invalid,          \* node -> invalid_message_payloads_
    sent,             \* the signatures that exist: <<height, signer>>
    downs             \* restarts so far

tsVars == <<chainTip, settledAt, nodeTip, pool, longPool, own, ownLong, invalid, sent, downs>>

HonestSigners == Signers \ EarlySigners
Within(keys) == INSTANCE CommitteeQuorum WITH Members <- keys, Faulty <- EarlySigners
time_signature_threshold(keys) == Within(keys)!quorum_threshold(Cardinality(keys))

\* The early signers are in no key set a quorum.
ASSUME TimeSignaturesAssumption ==
    /\ IsFiniteSet(Signers) /\ EarlySigners \subseteq Signers
    /\ FinalHeights \in Nat /\ Grace \in Nat /\ SignerRestarts \in Nat
    /\ \A o \in Openings : o.unlock \in Nat
    /\ \A keys \in {SignersOf[h] : h \in 1..FinalHeights} \cup {o.keys : o \in Openings} :
        /\ keys \subseteq Signers
        /\ Cardinality(keys \cap EarlySigners) < time_signature_threshold(keys)

TsInit ==
    /\ chainTip = 0 /\ settledAt = [o \in Openings |-> 0]
    /\ nodeTip = [n \in Signers |-> 0]
    /\ pool = [n \in Signers |-> {}] /\ longPool = [n \in Signers |-> {}]
    /\ own = [n \in Signers |-> 0] /\ ownLong = [n \in Signers |-> {}]
    /\ invalid = [n \in Signers |-> {}] /\ downs = 0
    /\ sent = (1..FinalHeights) \X EarlySigners

\* Long locks due and not settled, in the state of the node, that the next block may still open.
pending_long_openings(n) ==
    LET next == nodeTip[n] + 1
    IN {o \in Openings : /\ o.unlock < next /\ o.unlock >= next - Grace
                         /\ settledAt[o] = 0 \/ settledAt[o] >= next}

-------------------------------------------------------------------------------
\* Slip: the height under way is signed, which is not final.
HeightToSign_slip(n) == nodeTip[n] + 1

HeightToSign(n) == nodeTip[n]

\* Slip: the signatures of the tip are dropped with the older ones.
OldestKept_slip(n) == nodeTip[n] + 1

OldestKept(n) == nodeTip[n] - 1

\* maybe_sign_time_signature, then maybe_sign_long_time_signatures, in each turn of the loop.
Turn(n) ==
    LET height  == HeightToSign(n)
        fresh   == nodeTip[n] > own[n]
        signs   == IF fresh /\ n \in SignersOf[height] THEN {<<height, n>>} ELSE {}
        pending == pending_long_openings(n)
        opens   == {o \in pending : n \in o.keys}
    IN /\ nodeTip[n] > 0
       /\ own' = [own EXCEPT ![n] = nodeTip[n]]
       /\ pool' = [pool EXCEPT ![n] = {s \in @ : s[1] >= OldestKept(n)} \cup signs]
       /\ longPool' = [longPool EXCEPT ![n] = {s \in @ : s[1] \in pending} \cup {<<o, n>> : o \in opens}]
       /\ ownLong' = [ownLong EXCEPT ![n] = (@ \cap {o.unlock : o \in pending}) \cup {o.unlock : o \in opens}]
       /\ sent' = sent \cup signs \cup {<<o.unlock, n>> : o \in opens}
       /\ UNCHANGED <<chainTip, settledAt, nodeTip, invalid, downs>>

\* on_time_signature.  A payload once refused is dropped before it is looked at.
handle_time_signature(n, height, v) ==
    LET targets   == {o \in pending_long_openings(n) : o.unlock = height /\ v \in o.keys /\ <<o, v>> \notin longPool[n]}
        inWindow  == height + 1 >= nodeTip[n] /\ height <= nodeTip[n] + 1
        member    == v \in SignersOf[height]
        committee == IF inWindow /\ member THEN {<<height, v>>} \ pool[n] ELSE {}
    IN /\ <<height, v>> \in sent \ invalid[n]
       /\ \/ /\ inWindow /\ ~member /\ targets = {}                 \* HardReject
             /\ invalid' = [invalid EXCEPT ![n] = @ \cup {<<height, v>>}]
             /\ UNCHANGED <<pool, longPool>>
          \/ /\ committee # {} \/ targets # {}                      \* Accepted
             /\ pool' = [pool EXCEPT ![n] = @ \cup committee]
             /\ longPool' = [longPool EXCEPT ![n] = @ \cup {<<o, v>> : o \in targets}]
             /\ UNCHANGED invalid
       /\ UNCHANGED <<chainTip, settledAt, nodeTip, own, ownLong, sent, downs>>

\* The own signature is sent again while the height is the tip of its signer.
Resent(v, n) == v # n /\ own[v] = nodeTip[v] /\ handle_time_signature(n, nodeTip[v], v)

\* A block on the tip: a proposer holds the quorum for the tip, and adds the openings it can.
BlockBy(n) ==
    LET signed  == {s \in pool[n] : s[1] = chainTip}
        quorate == {o \in pending_long_openings(n) :
                       Cardinality({s \in longPool[n] : s[1] = o}) >= time_signature_threshold(o.keys)}
    IN /\ chainTip < FinalHeights /\ nodeTip[n] = chainTip /\ n \in SignersOf[chainTip + 1]
       /\ chainTip # 0 => Cardinality(signed) >= time_signature_threshold(SignersOf[chainTip])
       /\ chainTip' = chainTip + 1
       /\ settledAt' = [o \in Openings |-> IF o \in quorate THEN chainTip + 1 ELSE settledAt[o]]
       /\ UNCHANGED <<nodeTip, pool, longPool, own, ownLong, invalid, sent, downs>>

FollowChain(n) ==
    /\ nodeTip[n] < chainTip
    /\ nodeTip' = [nodeTip EXCEPT ![n] = @ + 1]
    /\ UNCHANGED <<chainTip, settledAt, pool, longPool, own, ownLong, invalid, sent, downs>>

RestartSigner(n) ==
    /\ downs < SignerRestarts /\ downs' = downs + 1
    /\ pool' = [pool EXCEPT ![n] = {}] /\ longPool' = [longPool EXCEPT ![n] = {}]
    /\ own' = [own EXCEPT ![n] = 0] /\ ownLong' = [ownLong EXCEPT ![n] = {}]
    /\ invalid' = [invalid EXCEPT ![n] = {}]
    /\ UNCHANGED <<chainTip, settledAt, nodeTip, sent>>

TsNext ==
    \/ \E n \in HonestSigners : Turn(n) \/ BlockBy(n) \/ FollowChain(n) \/ RestartSigner(n)
    \/ \E n \in HonestSigners, s \in sent : handle_time_signature(n, s[1], s[2])

TsSpec == TsInit /\ [][TsNext]_tsVars

-------------------------------------------------------------------------------
\* Nothing opens early: before a height is final, no key set's quorum has signed it, neither
\* the committee of the height nor a set that a long lock was sealed to.
SecretUntilFinal ==
    \A height \in (chainTip + 1)..FinalHeights :
        \A keys \in {SignersOf[height]} \cup {o.keys : o \in {p \in Openings : p.unlock = height}} :
            Cardinality({v \in keys : <<height, v>> \in sent}) < time_signature_threshold(keys)

\* The chain does not stop for want of time signatures, whatever is lost, delayed or invalid
\* and whoever restarts, as long as the honest signers are a quorum of every committee.
BlocksGoOn == <>(chainTip = FinalHeights)
================================================================================
