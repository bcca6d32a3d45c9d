------------------------------ MODULE LightWallet ------------------------------
(* The wallet's light client (consensus/light_client.cpp,                       *)
(* wallet/light_verifier.cpp, wallet/verified_balance.cpp): it follows the      *)
(* committees from epoch to epoch by signed handoffs, asks several light        *)
(* servers for its coins, and shows those a quorum of validators vouches for.   *)
(* Signatures cannot be forged and a proof shows the one value under a signed   *)
(* root (ProofsServed of UtxoTree).  Rounds and confidential coins are left out.*)
EXTENDS Integers, Sequences, FiniteSets, SequencesExt

CONSTANTS
    HonestServers, LyingServers,
    EpochLen,         \* committee_epoch_blocks
    CommitteeOf,      \* epoch start -> its committee
    Corrupt,          \* validators that sign anything, in no committee a quorum
    WalletCoins,      \* outputs of the wallet
    LastFinalized,        \* bound: finalized heights
    KeptCheckpoints,  \* kKeptCheckpoints
    PageSize          \* kMaxOutpointsPerRequest

VARIABLES
    unspent,          \* height -> the coins unspent at it
    tips,             \* the finalized height each honest server has
    probes,           \* the endpoints' claims: [tip, seen, listed]
    trusted,          \* checkpoints_: epoch start -> committee
    savedTrust,       \* light_verifier_state of the settings
    job,              \* the verification under way
    shown             \* the result of the refresh

lwVars == <<unspent, tips, probes, trusted, savedTrust, job, shown>>

Servers == HonestServers \cup LyingServers
Voters(committee) == INSTANCE CommitteeQuorum WITH Members <- committee, Faulty <- Corrupt

ASSUME LightAssumption ==
    /\ HonestServers \cap LyingServers = {} /\ IsFiniteSet(WalletCoins) /\ IsFiniteSet(Corrupt)
    /\ EpochLen \in Nat \ {0} /\ KeptCheckpoints \in Nat \ {0} /\ PageSize \in Nat \ {0} /\ LastFinalized \in Nat
    /\ 1 \in DOMAIN CommitteeOf
    /\ \A e \in DOMAIN CommitteeOf :
         /\ e \in Nat /\ e >= 1 /\ (e - 1) % EpochLen = 0
         /\ IsFiniteSet(CommitteeOf[e]) /\ CommitteeOf[e] # {}
         /\ Cardinality(Corrupt \cap CommitteeOf[e])
              < Voters(CommitteeOf[e])!quorum_threshold(Cardinality(CommitteeOf[e]))

\* The checkpoint a wallet is built with.
from_genesis == [e \in {1} |-> CommitteeOf[e]]

committee_epoch_start(height) == ((height - 1) \div EpochLen) * EpochLen + 1
NewestEpoch(checkpoints) == CHOOSE e \in DOMAIN checkpoints : \A f \in DOMAIN checkpoints : f <= e
trusted_epoch_start == NewestEpoch(trusted)

-------------------------------------------------------------------------------
(* Verification.  A transition that was finalized is real; a certificate is     *)
(* over one transition and lists its signatures, perhaps with repetitions.      *)
\* Slip: a member that signed twice is counted twice.
SignatureCount_slip(signers, committee) == Cardinality({i \in DOMAIN signers : signers[i] \in committee})

SignatureCount(signers, committee) == Cardinality({signers[i] : i \in DOMAIN signers} \cap committee)

verify_light_finality(epoch, committee, transition, certificate) ==
    /\ transition.height > 0 /\ committee_epoch_start(transition.height) = epoch
    /\ certificate.height = transition.height /\ certificate.real = transition.real
    /\ SignatureCount(certificate.signers, committee) >= Voters(committee)!quorum_threshold(Cardinality(committee))

\* The next committee is proven under the state the transition commits to.
verify_committee_handoff(epoch, committee, handoff) ==
    /\ committee_epoch_start(handoff.transition.height + 1) = handoff.transition.height + 1
    /\ verify_light_finality(epoch, committee, handoff.transition, handoff.certificate)
    /\ handoff.committee # {}

remember(checkpoints, epoch, committee) ==
    LET more == [e \in DOMAIN checkpoints \cup {epoch} |-> IF e = epoch THEN committee ELSE checkpoints[e]]
        kept == {e \in DOMAIN more : Cardinality({f \in DOMAIN more : f > e}) < KeptCheckpoints}
    IN [e \in kept |-> more[e]]

-------------------------------------------------------------------------------
(* What servers can send.  Validators sign what was finalized; a corrupt one    *)
(* also signs for a server that makes up a transition, as often as it asks.     *)
Real(height) == [height |-> height, real |-> TRUE]
Made(height) == [height |-> height, real |-> FALSE]
Signed(transition) ==
    [height |-> transition.height, real |-> transition.real,
     signers |-> IF transition.real THEN SetToSeq(CommitteeOf[committee_epoch_start(transition.height)])
                 ELSE SetToSeq(Corrupt) \o SetToSeq(Corrupt)]

\* build_committee_handoff, stored with the last transition of an epoch.
build_committee_handoff(next) ==
    [next |-> next, transition |-> Real(next - 1), certificate |-> Signed(Real(next - 1)), committee |-> CommitteeOf[next]]

\* With a transition it made up it can send the certificate of the one that was finalized.
CertificatesAt(height) == {Signed(Made(height))} \cup {Signed(Real(h)) : h \in {height} \cap DOMAIN unspent}

EpochsAfter(height) == {e \in DOMAIN CommitteeOf : e # 1 /\ e - 1 <= height}
HandoffsOf(s, next) ==
    IF s \in HonestServers THEN {build_committee_handoff(e) : e \in {next} \cap EpochsAfter(tips[s])}
    ELSE {build_committee_handoff(e) : e \in EpochsAfter(Len(unspent))}
         \cup {[next |-> next, transition |-> Made(next - 1), certificate |-> c, committee |-> Corrupt] :
                   c \in CertificatesAt(next - 1)}

\* Pages of get_utxo_proofs: the transition, its certificate, the coins it shows.
PageAt(height) == [transition |-> Real(height), certificate |-> Signed(Real(height)), coins |-> unspent[height]]
PagesOf(s) ==
    IF s \in HonestServers THEN {PageAt(h) : h \in {tips[s]} \ {0}}
    ELSE {PageAt(h) : h \in 1..Len(unspent)}
         \cup {[transition |-> Made(LastFinalized), certificate |-> c, coins |-> WalletCoins] :
                   c \in CertificatesAt(LastFinalized)}

\* get_utxos, for a lying server any coins, described rightly or not.
Listing(coins) == {[coin |-> c, right |-> TRUE] : c \in coins}
LiesAbout == {{}, Listing(WalletCoins)} \cup {{[coin |-> c, right |-> FALSE]} : c \in WalletCoins}

-------------------------------------------------------------------------------
NoProbe == [tip |-> 0, seen |-> -1, listed |-> {}]
NoJob == [order |-> <<>>, expected |-> <<>>, statuses |-> <<>>, heights |-> {}, page |-> <<>>, faults |-> {}]
NothingShown == [done |-> FALSE, verified |-> FALSE, height |-> 0, heights |-> {}, coins |-> {}, blamed |-> {}, faults |-> {}]

LwInit ==
    /\ unspent = <<>>
    /\ tips = [s \in HonestServers |-> 0]
    /\ probes = [s \in Servers |-> NoProbe]
    /\ trusted = from_genesis
    /\ savedTrust = <<>>
    /\ job = NoJob
    /\ shown = NothingShown

\* An output appears once and is spent once.
FinalizeCoins(next) ==
    /\ Len(unspent) < LastFinalized
    /\ next \cap UNION {unspent[h] : h \in DOMAIN unspent} \subseteq (IF unspent = <<>> THEN {} ELSE Last(unspent))
    /\ unspent' = Append(unspent, next)
    /\ UNCHANGED <<tips, probes, trusted, savedTrust, job, shown>>

ServerFollows(s) ==
    /\ tips[s] < Len(unspent)
    /\ tips' = [tips EXCEPT ![s] = @ + 1]
    /\ UNCHANGED <<unspent, probes, trusted, savedTrust, job, shown>>

\* probe_endpoint: get_status, then get_utxos in a call of its own.
Probe(s) ==
    /\ job = NoJob /\ ~shown.done
    /\ \/ /\ s \in HonestServers /\ probes[s].tip = 0 /\ tips[s] > 0
          /\ probes' = [probes EXCEPT ![s] = [NoProbe EXCEPT !.tip = tips[s]]]
       \/ /\ s \in HonestServers /\ probes[s].tip > 0 /\ probes[s].seen = -1
          /\ probes' = [probes EXCEPT ![s].seen = tips[s], ![s].listed = Listing(unspent[tips[s]])]
       \/ /\ s \in LyingServers /\ probes[s].seen = -1
          /\ \E listed \in LiesAbout :                 \* its tip only decides whether it is blamed
                 probes' = [probes EXCEPT ![s] = [tip |-> LastFinalized, seen |-> 0, listed |-> listed]]
    /\ UNCHANGED <<unspent, tips, trusted, savedTrust, job, shown>>

Claimed == {s \in Servers : probes[s].seen >= 0}
Distinct == UNION {probes[s].listed : s \in Claimed}

\* verify_claimed_balance: the coins any server claims, proven by one of them, the active one first.
verify_claimed_balance(order) ==
    /\ job = NoJob /\ ~shown.done /\ Claimed # {}
    /\ job' = [NoJob EXCEPT !.order = order, !.expected = SetToSeq(Distinct)]
    /\ UNCHANGED <<unspent, tips, probes, trusted, savedTrust, shown>>

\* The endpoint is given up, for a fault of its own or not; the next one starts anew.
GiveUp(fault) ==
    LET s == Head(job.order)
        faults == IF fault THEN job.faults \cup {s} ELSE job.faults
    IN IF Len(job.order) > 1
       THEN job' = [job EXCEPT !.order = Tail(@), !.statuses = <<>>, !.heights = {}, !.page = <<>>, !.faults = faults]
            /\ UNCHANGED shown
       ELSE job' = NoJob /\ shown' = [NothingShown EXCEPT !.done = TRUE, !.faults = faults]

\* verify_utxos: the next page of at most PageSize outputs; an empty list needs none.
RequestPage ==
    /\ job.order # <<>> /\ job.page = <<>> /\ Len(job.statuses) < Len(job.expected)
    /\ \/ \E page \in PagesOf(Head(job.order)) : job' = [job EXCEPT !.page = <<page>>] /\ UNCHANGED shown
       \/ Head(job.order) \in LyingServers /\ GiveUp(TRUE)          \* malformed answer
       \/ GiveUp(FALSE)                                             \* no answer
    /\ UNCHANGED <<unspent, tips, probes, trusted, savedTrust>>

Page == job.page[1]
PageEpoch == committee_epoch_start(Page.transition.height)

\* sync_to: one more handoff towards the epoch of the page.
SyncTo ==
    /\ job.page # <<>> /\ trusted_epoch_start < PageEpoch
    /\ \/ \E handoff \in HandoffsOf(Head(job.order), trusted_epoch_start + EpochLen) :
             IF /\ handoff.next = trusted_epoch_start + EpochLen
                /\ verify_committee_handoff(trusted_epoch_start, trusted[trusted_epoch_start], handoff)
             THEN trusted' = remember(trusted, handoff.next, handoff.committee) /\ UNCHANGED <<job, shown>>
             ELSE GiveUp(TRUE) /\ UNCHANGED trusted
       \/ GiveUp(FALSE) /\ UNCHANGED trusted
    /\ UNCHANGED <<unspent, tips, probes, savedTrust>>

StatusOf(claim, coins) ==
    IF claim.coin \notin coins THEN "spent" ELSE IF claim.right THEN "unspent" ELSE "different"

\* The certificate, then every proof; one that does not verify is the server's fault.
CheckPage ==
    /\ job.page # <<>> /\ trusted_epoch_start >= PageEpoch
    /\ LET from == Len(job.statuses)
           till == IF from + PageSize < Len(job.expected) THEN from + PageSize ELSE Len(job.expected)
           seen == [i \in 1..(till - from) |-> StatusOf(job.expected[from + i], Page.coins)]
       IN \/ PageEpoch \notin DOMAIN trusted /\ GiveUp(FALSE)       \* too far behind
          \/ /\ PageEpoch \in DOMAIN trusted
             /\ IF verify_light_finality(PageEpoch, trusted[PageEpoch], Page.transition, Page.certificate)
                THEN /\ job' = [job EXCEPT !.statuses = @ \o seen, !.page = <<>>,
                                           !.heights = @ \cup {Page.transition.height}]
                     /\ UNCHANGED shown
                ELSE GiveUp(TRUE)
          \/ PageEpoch \in DOMAIN trusted /\ Head(job.order) \in LyingServers /\ GiveUp(TRUE)   \* a wrong proof
    /\ UNCHANGED <<unspent, tips, probes, trusted, savedTrust>>

\* Slip: a server is blamed whatever its tip.
AtHeight_slip(s, height) == TRUE

\* Only a server at the proven height answers for what it lists or leaves out.
AtHeight(s, height) == probes[s].tip = height

Blamed(height, statuses) ==
    LET With(status) == {job.expected[i] : i \in {j \in DOMAIN statuses : statuses[j] = status}}
        proven == {c.coin : c \in With("unspent")}
    IN {s \in Claimed :
           \/ probes[s].listed \cap With("different") # {}
           \/ AtHeight(s, height) /\ probes[s].listed \cap With("spent") # {}
           \/ AtHeight(s, height) /\ ~(proven \subseteq {c.coin : c \in probes[s].listed})}

Counts(status) == status = "unspent"

\* The rest of verify_claimed_balance, and the progress saved with the result.
ShowBalance ==
    /\ job.order # <<>> /\ job.page = <<>> /\ Len(job.statuses) = Len(job.expected)
    /\ LET height == IF job.heights = {} THEN 0 ELSE CHOOSE h \in job.heights : \A g \in job.heights : g <= h
       IN shown' = [done |-> TRUE, verified |-> TRUE, height |-> height, heights |-> job.heights,
                    coins |-> {job.expected[i] : i \in {j \in DOMAIN job.statuses : Counts(job.statuses[j])}},
                    blamed |-> Blamed(height, job.statuses), faults |-> job.faults]
    /\ job' = NoJob
    /\ savedTrust' = trusted
    /\ UNCHANGED <<unspent, tips, probes, trusted>>

\* The next refresh asks every endpoint again.
Refresh ==
    /\ shown.done
    /\ probes' = [s \in Servers |-> NoProbe] /\ shown' = NothingShown
    /\ UNCHANGED <<unspent, tips, trusted, savedTrust, job>>

\* reset_light_verifier: from genesis, then load, which never steps back.
RestartWallet ==
    /\ trusted' = IF savedTrust # <<>> /\ NewestEpoch(savedTrust) >= 1 THEN savedTrust ELSE from_genesis
    /\ probes' = [s \in Servers |-> NoProbe] /\ job' = NoJob /\ shown' = NothingShown
    /\ UNCHANGED <<unspent, tips, savedTrust>>

LwNext ==
    \/ \E next \in SUBSET WalletCoins : FinalizeCoins(next)
    \/ \E s \in HonestServers : ServerFollows(s)
    \/ \E s \in Servers : Probe(s)
    \/ \E order \in SetToSeqs(Claimed) : verify_claimed_balance(order)
    \/ RequestPage \/ SyncTo \/ CheckPage \/ ShowBalance \/ Refresh \/ RestartWallet

LwSpec == LwInit /\ [][LwNext]_lwVars

-------------------------------------------------------------------------------
\* Whatever handoffs a server sends, and wherever the wallet stops and starts, it trusts the
\* committees of the chain and no other, a chain of quorums from genesis leading to each; so a
\* coin shown as verified was unspent at a finalized height, and no server can hide a coin
\* that another one listed at the height of the proof.
VerifiedIsReal ==
    /\ \A e \in DOMAIN trusted : trusted[e] = CommitteeOf[e]
    /\ \A e \in DOMAIN savedTrust : savedTrust[e] = CommitteeOf[e]
    /\ shown.verified =>
        /\ shown.heights \subseteq 1..Len(unspent)
        /\ \A c \in shown.coins : c.right /\ \E h \in shown.heights : c.coin \in unspent[h]
        /\ \A s \in HonestServers \cap Claimed :
               shown.heights = {probes[s].seen} => shown.coins = Listing(unspent[probes[s].seen])

\* An honest server is never at fault in what it proves, and answers for its list only when the
\* chain moved on between its two answers, or between two pages of the proof.
HonestNotBlamed ==
    /\ shown.faults \cap HonestServers = {} /\ job.faults \cap HonestServers = {}
    /\ \A s \in shown.blamed \cap HonestServers :
           probes[s].seen # probes[s].tip \/ Cardinality(shown.heights) > 1
================================================================================
