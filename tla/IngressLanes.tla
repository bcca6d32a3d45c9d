------------------------------ MODULE IngressLanes ------------------------------
(***************************************************************************)
(* One ingress lane: its certifier numbers transactions and signs a        *)
(* certificate for each, the certificates spread by gossip and by range    *)
(* requests, every node stores them as a chain, and finalized blocks take  *)
(* them in order (node_ingress.cpp, ingress.cpp, the lane part of db.cpp). *)
(* The certifier changes with the committee epoch and may be faulty        *)
(* (number 0).  It is a matter of routing only: the signature of any       *)
(* member of the committee makes a valid certificate, so faulty members    *)
(* sign what they like beside it in every epoch.  A lane root is the       *)
(* sequence of the transactions it commits to; certificates are told       *)
(* apart by what they say, not by who signed them.                         *)
(***************************************************************************)
EXTENDS Naturals, Sequences, FiniteSets, SequencesExt

CONSTANTS
    LaneNodes,        \* correct nodes, numbers from 1 on
    Askers,           \* bound: the nodes that ask for ranges
    LaneTxs,          \* transactions of the lane
    Certifiers,       \* the possible schedules: epoch -> node, or 0
    EpochHeights,     \* committee_epoch_blocks
    RangeCap,         \* records of a range answer
    LastBlock,        \* bound: finalized heights
    LaneFaults        \* bound: crashes, and certificates of faulty members

\* Nodes are numbers from 1 on, 0 is a faulty certifier; epochs are counted from 1.
ASSUME LanesAssumption ==
    /\ LaneNodes \subseteq Nat \ {0} /\ Askers \subseteq LaneNodes
    /\ IsFiniteSet(LaneTxs) /\ EpochHeights \in Nat \ {0} /\ RangeCap \in Nat \ {0}
    /\ \A schedule \in Certifiers : DOMAIN schedule \subseteq Nat \ {0}

MaxSeq == Cardinality(LaneTxs)
NoCert == [epoch |-> 0, prev |-> <<>>, tx |-> 0]
LaneSeq(cert) == Len(cert.prev) + 1
LaneEpoch(height) == 1 + (height - 1) \div EpochHeights

VARIABLES
    certifier,        \* designated_ingress_certifier of each epoch
    signed,           \* certificates that certifiers have signed
    stored,           \* node -> seq -> certificate
    lane_state,       \* node -> [exists, max_seq, root]
    range_request,    \* requested_ingress_ranges_: <<node, peer>> -> <<from, to>> or <<>>
    range_answer,     \* answer in flight to node from peer: [from, certs] or <<>>
    ledger,           \* the lane in the finalized blocks: its records, and next_vector of each block
    applied,          \* node -> finalized height
    truncating,       \* node -> [next, keep, root, block] while truncate_ingress_lane runs, or <<>>
    cut,              \* history: nodes that crashed in a truncation
    laneFaults        \* count: crashes and certificates of faulty members

inVars == <<certifier, signed, stored, lane_state, range_request, range_answer, ledger, applied, truncating, cut, laneFaults>>

Pairs == {x \in Askers \X LaneNodes : x[1] # x[2]}

-------------------------------------------------------------------------------
\* finalized_frontier_vector.lane_max_seq and the records up to it.
FinalizedSeq(height) == IF height = 0 THEN 0 ELSE ledger.next[height]
FinalizedCerts(height) == SubSeq(ledger.records, 1, FinalizedSeq(height))
Cursor(n) == FinalizedSeq(applied[n])
Root(certs) == [i \in 1..Len(certs) |-> certs[i].tx]

detect_ingress_equivocation(existing, cert) ==
    existing # NoCert /\ existing.epoch = cert.epoch /\ existing # cert

\* append_validated_ingress_record: why the record is refused, "held", or "ok".
AppendResult(n, cert, state, epoch) ==
    LET existing == stored[n][LaneSeq(cert)]
    IN  IF cert.epoch # epoch THEN "ingress-epoch-mismatch"
        ELSE IF detect_ingress_equivocation(existing, cert) THEN "ingress-equivocation-detected"
        ELSE IF existing = cert /\ state.exists /\ state.max_seq >= LaneSeq(cert) THEN "held"
        ELSE IF state.exists /\ LaneSeq(cert) # state.max_seq + 1 THEN "ingress-seq-discontinuity"
        ELSE IF state.exists /\ cert.prev # state.root THEN "ingress-prev-lane-root-mismatch"
        ELSE IF ~state.exists /\ LaneSeq(cert) # 1 THEN "ingress-first-seq-must-be-one"
        ELSE "ok"

Extended(state, cert) == [exists |-> TRUE, max_seq |-> LaneSeq(cert), root |-> Append(state.root, cert.tx)]

\* append_ingress_record_atomic, for each of the records from number first on.
Store(n, first, certs, state) ==
    /\ stored' = [stored EXCEPT ![n] = [s \in 1..MaxSeq |->
                     IF s \in first..(first + Len(certs) - 1) THEN certs[s - first + 1] ELSE @[s]]]
    /\ lane_state' = [lane_state EXCEPT ![n] = state]

Holds(n, tx) == \E s \in 1..MaxSeq : stored[n][s] # NoCert /\ stored[n][s].tx = tx

\* drop_stale_unfinalized_ingress_locked on a lane: the truncation it starts, or none.
StaleDrop(n, height, state, certs) ==
    LET cursor == FinalizedSeq(height)
    IN  IF state.exists /\ state.max_seq > cursor /\ certs[cursor + 1] # NoCert /\ certs[cursor + 1].epoch < LaneEpoch(height + 1)
        THEN [next |-> cursor + 1, keep |-> cursor, root |-> Root(FinalizedCerts(height)), block |-> FALSE]
        ELSE <<>>

Free(n) == truncating[n] = <<>>
\* A truncation for a block is over, and its handler goes on.
Replaced == [next |-> 0, keep |-> 0, root |-> <<>>, block |-> TRUE]

-------------------------------------------------------------------------------
InInit ==
    /\ certifier \in Certifiers /\ signed = {}
    /\ stored = [n \in LaneNodes |-> [s \in 1..MaxSeq |-> NoCert]]
    /\ lane_state = [n \in LaneNodes |-> [exists |-> FALSE, max_seq |-> 0, root |-> <<>>]]
    /\ range_request = [x \in Pairs |-> <<>>] /\ range_answer = [x \in Pairs |-> <<>>]
    /\ ledger = [records |-> <<>>, next |-> <<>>] /\ applied = [n \in LaneNodes |-> 0]
    /\ truncating = [n \in LaneNodes |-> <<>>]
    /\ cut = {} /\ laneFaults = 0

\* maybe_certify_record_locked: the certifier appends a transaction it does not hold yet.
maybe_certify_record(n, tx) ==
    LET epoch == LaneEpoch(applied[n] + 1)
        cert == [epoch |-> epoch, prev |-> lane_state[n].root, tx |-> tx]
    IN  /\ Free(n) /\ certifier[epoch] = n
        /\ ~Holds(n, tx) /\ lane_state[n].max_seq < MaxSeq
        /\ AppendResult(n, cert, lane_state[n], epoch) = "ok"
        /\ Store(n, LaneSeq(cert), <<cert>>, Extended(lane_state[n], cert))
        /\ signed' = signed \cup {cert}
        /\ UNCHANGED <<certifier, range_request, range_answer, ledger, applied, truncating, cut, laneFaults>>

\* A faulty member of the epoch's committee signs a certificate after any prefix it has seen signed.
SignAnything(epoch, prev, tx) ==
    LET cert == [epoch |-> epoch, prev |-> prev, tx |-> tx]
    IN  /\ laneFaults < LaneFaults /\ laneFaults' = laneFaults + 1
        /\ cert \notin signed /\ ~Contains(prev, tx) /\ Len(prev) < MaxSeq
        /\ prev = <<>> \/ \E c \in signed : prev = Append(c.prev, c.tx)
        /\ signed' = signed \cup {cert}
        /\ UNCHANGED <<certifier, stored, lane_state, range_request, range_answer, ledger, applied, truncating, cut>>

\* What becomes of a record that n gets by gossip.  A fault is scored against the peer it came
\* from, an equivocation is stored as evidence besides, before the signature of the record is
\* looked at; neither is read again here, and a record without a valid signature is never stored.
GossipResult(n, cert) ==
    LET existing == stored[n][LaneSeq(cert)]
    IN  IF existing = cert THEN "held"
        ELSE IF detect_ingress_equivocation(existing, cert) THEN "ingress-equivocation-detected"
        ELSE AppendResult(n, cert, lane_state[n], LaneEpoch(applied[n] + 1))

\* on_ingress_record: gossip of whoever has the record, delayed, repeated and reordered.
handle_ingress_record(n, cert) ==
    /\ Free(n) /\ cert \in signed /\ GossipResult(n, cert) = "ok"
    /\ Store(n, LaneSeq(cert), <<cert>>, Extended(lane_state[n], cert))
    /\ UNCHANGED <<certifier, signed, range_request, range_answer, ledger, applied, truncating, cut, laneFaults>>

\* handle_ingress_tips_locked: p announces its tip to n, which asks for what is missing
\* when both are in the same epoch.
handle_ingress_tips(n, p) ==
    /\ Free(n) /\ range_request[<<n, p>>] = <<>>
    /\ LaneEpoch(applied[p] + 1) = LaneEpoch(applied[n] + 1)
    /\ lane_state[p].max_seq > lane_state[n].max_seq
    /\ range_request' = [range_request EXCEPT ![<<n, p>>] = <<lane_state[n].max_seq + 1, lane_state[p].max_seq>>]
    /\ UNCHANGED <<certifier, signed, stored, lane_state, range_answer, ledger, applied, truncating, cut, laneFaults>>

\* on_get_ingress_range at p, without the node's mutex: what precedes a gap, at most the cap.
\* The answer before it is lost if it has not come.
on_get_ingress_range(n, p) ==
    LET r == range_request[<<n, p>>]
        last == Max({k \in 0..MaxSeq : k < r[1] + RangeCap /\ k <= r[2] /\ \A s \in r[1]..k : stored[p][s] # NoCert})
    IN  /\ r # <<>>
        /\ last >= r[1]
        /\ range_answer' = [range_answer EXCEPT ![<<n, p>>] = [from |-> r[1], certs |-> SubSeq(stored[p], r[1], last)]]
        /\ UNCHANGED <<certifier, signed, stored, lane_state, range_request, ledger, applied, truncating, cut, laneFaults>>

\* simulated_state after the first i records from number first on, each held or appended.
simulated_state(n, first, certs, i) ==
    LET state == lane_state[n]
    IN  IF i = 0 \/ first + i - 1 <= state.max_seq THEN state
        ELSE [exists |-> TRUE, max_seq |-> first + i - 1,
              root |-> state.root \o Root(SubSeq(certs, state.max_seq + 2 - first, i))]

\* Every record is already_held, or follows the simulated state.
Simulated(n, first, certs) ==
    \A i \in 1..Len(certs) :
        LET before == simulated_state(n, first, certs, i - 1)
        IN  \/ stored[n][LaneSeq(certs[i])] = certs[i] /\ before.max_seq >= LaneSeq(certs[i])
            \/ AppendResult(n, certs[i], before, LaneEpoch(applied[n] + 1)) = "ok"

\* The records of an answer are appended after all of them were checked; then a held record of
\* an earlier epoch, which comes before the others, is refused and nothing is appended.
handle_ingress_range(n, p) ==
    LET r == range_request[<<n, p>>]
        a == range_answer[<<n, p>>]
        expected == r # <<>> /\ r[1] = a.from /\ a.from + Len(a.certs) - 1 <= r[2]
        appended == \A i \in 1..Len(a.certs) : a.certs[i].epoch = LaneEpoch(applied[n] + 1)
    IN  /\ Free(n) /\ a # <<>>
        /\ range_answer' = [range_answer EXCEPT ![<<n, p>>] = <<>>]
        /\ IF expected /\ Simulated(n, a.from, a.certs) /\ appended
           THEN /\ Store(n, a.from, a.certs, simulated_state(n, a.from, a.certs, Len(a.certs)))
                /\ range_request' = [range_request EXCEPT ![<<n, p>>] = <<>>]
           ELSE UNCHANGED <<stored, lane_state, range_request>>
        /\ UNCHANGED <<certifier, signed, ledger, applied, truncating, cut, laneFaults>>

\* The request is no longer outstanding; its answer may still come.
RangeTimeout(x) ==
    /\ range_request[x] # <<>> /\ range_request' = [range_request EXCEPT ![x] = <<>>]
    /\ UNCHANGED <<certifier, signed, stored, lane_state, range_answer, ledger, applied, truncating, cut, laneFaults>>

\* The committee finalizes the next block, with the next record of the lane or without.
FinalizeLaneBlock(certs) ==
    /\ Len(ledger.next) < LastBlock
    /\ \A i \in 1..Len(certs) : /\ certs[i].prev = Root(ledger.records)
                                /\ certs[i].epoch = LaneEpoch(Len(ledger.next) + 1)
    /\ ledger' = [records |-> ledger.records \o certs, next |-> Append(ledger.next, Len(ledger.records) + Len(certs))]
    /\ UNCHANGED <<certifier, signed, stored, lane_state, range_request, range_answer, applied, truncating, cut, laneFaults>>

\* Slip: what a node holds wins over what the block says.
Displaced_slip(existing, cert, resigned) == FALSE

\* The unfinalized suffix conflicts with the certified block, or with the signatures on the
\* certificate that came with it.
Displaced(existing, cert, resigned) == existing # NoCert /\ (existing # cert \/ resigned)

\* store_finalized_lane_certificates_locked, the finalization of the block, and the drop of
\* stale records after it.  A conflicting suffix is truncated first.
ApplyBlock(n, resigned) ==
    LET height == applied[n] + 1
        seq == Cursor(n) + 1
        carries == FinalizedSeq(height) >= seq
        cert == ledger.records[seq]
        existing == stored[n][seq]
        missing == carries /\ existing = NoCert
        state == IF missing THEN Extended(lane_state[n], cert) ELSE lane_state[n]
    IN  /\ truncating[n] \in {<<>>, Replaced} /\ height <= Len(ledger.next)
        /\ IF carries /\ Displaced(existing, cert, resigned)
           THEN /\ truncating' = [truncating EXCEPT ![n] =
                                    [next |-> seq, keep |-> seq - 1, root |-> Root(FinalizedCerts(applied[n])), block |-> TRUE]]
                /\ UNCHANGED <<stored, lane_state, applied>>
           ELSE /\ missing => AppendResult(n, cert, lane_state[n], LaneEpoch(height)) = "ok"
                /\ Store(n, seq, IF missing THEN <<cert>> ELSE <<>>, state)
                /\ applied' = [applied EXCEPT ![n] = height]
                /\ truncating' = [truncating EXCEPT ![n] = StaleDrop(n, height, state, stored'[n])]
        /\ UNCHANGED <<certifier, signed, range_request, range_answer, ledger, cut, laneFaults>>

\* Slip: put_lane_state is called, which refuses to go back.
Rewound_slip(n) == lane_state[n]

Rewound(n) == [exists |-> TRUE, max_seq |-> truncating[n].keep, root |-> truncating[n].root]

\* truncate_ingress_lane: one record erased after the other, then the lane state written.
TruncateStep(n) ==
    LET t == truncating[n]
    IN  /\ t \notin {<<>>, Replaced}
        /\ IF t.next <= lane_state[n].max_seq
           THEN /\ stored' = [stored EXCEPT ![n][t.next] = NoCert]
                /\ truncating' = [truncating EXCEPT ![n].next = @ + 1]
                /\ UNCHANGED lane_state
           ELSE /\ lane_state' = [lane_state EXCEPT ![n] = Rewound(n)]
                /\ truncating' = [truncating EXCEPT ![n] = IF t.block THEN Replaced ELSE <<>>]
                /\ UNCHANGED stored
        /\ UNCHANGED <<certifier, signed, range_request, range_answer, ledger, applied, cut, laneFaults>>

\* A crash and the restart, which drops stale records again.
CrashNode(n) ==
    /\ laneFaults < LaneFaults /\ laneFaults' = laneFaults + 1
    /\ cut' = IF truncating[n] \in {<<>>, Replaced} THEN cut ELSE cut \cup {n}
    /\ range_request' = [x \in Pairs |-> IF x[1] = n THEN <<>> ELSE range_request[x]]
    /\ truncating' = [truncating EXCEPT ![n] = StaleDrop(n, applied[n], lane_state[n], stored[n])]
    /\ UNCHANGED <<certifier, signed, stored, lane_state, range_answer, ledger, applied>>

InNext ==
    \/ \E n \in LaneNodes, resigned \in BOOLEAN : ApplyBlock(n, resigned)
    \/ \E n \in LaneNodes : TruncateStep(n) \/ CrashNode(n)
    \/ \E n \in LaneNodes, tx \in LaneTxs : maybe_certify_record(n, tx)
    \/ \E tx \in LaneTxs, epoch \in DOMAIN certifier, prev \in {<<>>} \cup {Append(c.prev, c.tx) : c \in signed} :
           SignAnything(epoch, prev, tx)
    \/ \E n \in LaneNodes, cert \in signed : handle_ingress_record(n, cert)
    \/ \E x \in Pairs : \/ handle_ingress_tips(x[1], x[2]) \/ on_get_ingress_range(x[1], x[2])
                        \/ handle_ingress_range(x[1], x[2]) \/ RangeTimeout(x)
    \/ FinalizeLaneBlock(<<>>)
    \/ \E cert \in signed : FinalizeLaneBlock(<<cert>>)

InSpec == InInit /\ [][InNext]_inVars

-------------------------------------------------------------------------------
\* However certifiers, faulty members, gossip, blocks and restarts interleave, the lane of every
\* node holds the finalized records in their order, and nothing is missing above them, except
\* after a crash in a truncation.
LanesFollowChain ==
    \A n \in LaneNodes :
        /\ \A s \in 1..Cursor(n) : stored[n][s] = FinalizedCerts(applied[n])[s]
        /\ Free(n) /\ n \notin cut =>
             /\ \A s \in 1..MaxSeq : stored[n][s] # NoCert <=> s <= lane_state[n].max_seq
             /\ lane_state[n].root = Root(SubSeq(stored[n], 1, lane_state[n].max_seq))

\* The block decides the lane: whatever faulty members signed and gossip left above the finalized
\* records, store_finalized_lane_certificates_locked can store the record of the next block, so
\* the block is never refused for the lane, except after a crash in a truncation.
BlocksApply ==
    \A n \in LaneNodes :
        LET height == applied[n] + 1
            seq == Cursor(n) + 1
        IN  /\ truncating[n] \in {<<>>, Replaced} /\ n \notin cut
            /\ height <= Len(ledger.next) /\ FinalizedSeq(height) >= seq /\ stored[n][seq] = NoCert
            => AppendResult(n, ledger.records[seq], lane_state[n], LaneEpoch(height)) = "ok"

\* "A missing record is fetched from peers, never dropped": whatever a node asks its peers
\* for begins no later than the first record it misses.
MissingIsFetched ==
    \A n \in LaneNodes : Free(n) =>
        \A s \in 1..MaxSeq : stored[n][s] = NoCert => lane_state[n].max_seq < s
================================================================================
