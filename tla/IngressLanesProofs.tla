--------------------------- MODULE IngressLanesProofs ---------------------------
(* IngressLanes: LanesFollowChain and BlocksApply for any nodes, transactions,    *)
(* schedules of certifiers and lengths of an epoch, any number of blocks, of      *)
(* certificates of faulty members and of crashes, and every bound on an answer.   *)
EXTENDS IngressLanes, FiniteSetTheorems, WellFoundedInduction, TLAPS

-------------------------------------------------------------------------------
(* The inductive invariant.  What a node holds and what is finalized agree       *)
(* because epochs are in order along every lane, and a truncation keeps exactly  *)
(* the finalized records.  Nothing is asked of who signs: a committee may hold   *)
(* any number of faulty members.                                                 *)

Certs == [epoch : Nat \ {0}, prev : Seq(LaneTxs), tx : LaneTxs]
LaneStates == [exists : BOOLEAN, max_seq : Nat, root : Seq(LaneTxs)]
Truncations == [next : Nat, keep : Nat, root : Seq(LaneTxs), block : BOOLEAN]
Answers == [from : Nat \ {0}, certs : Seq(Certs)]

\* The epoch whose certificates a node takes.
EpochOf(n) == LaneEpoch(applied[n] + 1)

\* The root of the finalized records of a height.
FinalizedRoot(height) == [i \in 1..FinalizedSeq(height) |-> ledger.records[i].tx]

\* Certificates are of the epochs and the numbers there are.
SignedInv ==
    /\ signed \subseteq Certs
    /\ \A c \in signed : LaneSeq(c) <= MaxSeq

\* Every finalized record follows the ones before it.
LinkedInv ==
    \A i \in 1..Len(ledger.records) : \A j \in 1..(i - 1) : ledger.records[i].prev[j] = ledger.records[j].tx

\* The finalized records are numbered in order, one for each block that carries one.
LedgerInv ==
    /\ LinkedInv
    /\ ledger \in [records : Seq(Certs), next : Seq(Nat)]
    /\ \A i \in 1..Len(ledger.records) : ledger.records[i] \in signed /\ LaneSeq(ledger.records[i]) = i
    /\ FinalizedSeq(Len(ledger.next)) = Len(ledger.records)
    /\ \A h \in 1..Len(ledger.next) :
         LET before == FinalizedSeq(h - 1)
         IN  /\ ledger.next[h] \in {before, before + 1} /\ ledger.next[h] <= Len(ledger.records)
             /\ ledger.next[h] = before + 1 => ledger.records[before + 1].epoch = LaneEpoch(h)

RangesInv ==
    /\ range_request \in [Pairs -> {<<>>} \cup (Nat \ {0}) \X Nat]
    /\ range_answer \in [Pairs -> {<<>>} \cup Answers]
    /\ \A x \in Pairs : range_answer[x] # <<>> =>
         \A i \in 1..Len(range_answer[x].certs) :
             /\ range_answer[x].certs[i] \in signed
             /\ LaneSeq(range_answer[x].certs[i]) = range_answer[x].from + i - 1

LanesTypeOK ==
    /\ stored \in [LaneNodes -> [1..MaxSeq -> Certs \cup {NoCert}]]
    /\ lane_state \in [LaneNodes -> LaneStates]
    /\ applied \in [LaneNodes -> Nat]
    /\ truncating \in [LaneNodes -> {<<>>} \cup Truncations]
    /\ laneFaults \in Nat

\* The records a node holds: numbered, those of the chain among them, epochs in order.
StoredInv(n) ==
    /\ applied[n] <= Len(ledger.next)
    /\ lane_state[n].max_seq <= MaxSeq /\ Len(lane_state[n].root) = lane_state[n].max_seq
    /\ ~lane_state[n].exists => lane_state[n].max_seq = 0
    /\ Cursor(n) <= lane_state[n].max_seq
    /\ \A s \in 1..MaxSeq : stored[n][s] # NoCert =>
         /\ stored[n][s] \in signed /\ LaneSeq(stored[n][s]) = s /\ s <= lane_state[n].max_seq
         /\ stored[n][s].epoch <= EpochOf(n)
    /\ \A s \in 1..Cursor(n) : stored[n][s] = ledger.records[s]
    /\ \A s, t \in 1..MaxSeq : s < t /\ stored[n][s] # NoCert /\ stored[n][t] # NoCert =>
         stored[n][s].epoch <= stored[n][t].epoch

\* A truncation keeps the finalized records; none of an earlier epoch is next to them otherwise.
TruncatingInv(n) ==
    /\ truncating[n] \notin {<<>>, Replaced} =>
         /\ truncating[n].keep = Cursor(n) /\ truncating[n].root = FinalizedRoot(applied[n])
         /\ truncating[n].next \in (Cursor(n) + 1)..(lane_state[n].max_seq + 1)
         /\ \A s \in (Cursor(n) + 1)..(truncating[n].next - 1) : stored[n][s] = NoCert
    /\ truncating[n] = <<>> \/ truncating[n].block =>
         \A s \in 1..MaxSeq : s = Cursor(n) + 1 /\ stored[n][s] # NoCert => stored[n][s].epoch = EpochOf(n)

\* Nothing is missing outside of a truncation, unless the node has crashed in one.
WholeInv(n) ==
    n \notin cut =>
        IF truncating[n] \in {<<>>, Replaced}
        THEN \A s \in 1..lane_state[n].max_seq : stored[n][s] # NoCert /\ lane_state[n].root[s] = stored[n][s].tx
        ELSE \A s \in 1..lane_state[n].max_seq : stored[n][s] = NoCert => s \in (Cursor(n) + 1)..(truncating[n].next - 1)

LaneInv(n) == StoredInv(n) /\ TruncatingInv(n) /\ WholeInv(n)

LanesInv ==
    /\ DOMAIN certifier \subseteq Nat \ {0}
    /\ LanesTypeOK /\ SignedInv /\ LedgerInv /\ RangesInv
    /\ \A n \in LaneNodes : LaneInv(n)

-------------------------------------------------------------------------------

\* Division with remainder.
LEMMA LaneDivision ==
    ASSUME NEW a \in Nat, NEW b \in Nat, b > 0
    PROVE  /\ a \div b \in Nat /\ a = b * (a \div b) + (a % b)
           /\ a % b \in Nat /\ a % b < b
  OBVIOUS

\* The epochs of consecutive heights are in order.
LEMMA EpochsGrow ==
    ASSUME NEW h \in Nat, h > 0
    PROVE  /\ LaneEpoch(h) \in Nat \ {0} /\ LaneEpoch(h + 1) \in Nat \ {0}
           /\ LaneEpoch(h) <= LaneEpoch(h + 1)
<1> DEFINE b == EpochHeights
           q == (h - 1) \div b
           r == h \div b
<1>1. b \in Nat /\ b > 0
  BY LanesAssumption
<1>2. q \in Nat /\ r \in Nat /\ h - 1 = b * q + ((h - 1) % b) /\ h = b * r + (h % b)
       /\ (h - 1) % b \in Nat /\ h % b \in Nat /\ h % b < b /\ (h - 1) % b < b
  BY <1>1, LaneDivision
<1>3. q <= r
  <2>1. SUFFICES ASSUME r + 1 <= q PROVE FALSE
    BY <1>2
  <2>2. b * (r + 1) <= b * q
    BY <1>1, <1>2, <2>1
  <2>3. b * (r + 1) = b * r + b
    BY <1>1, <1>2
  <2> QED
    BY <1>1, <1>2, <2>2, <2>3
<1>4. LaneEpoch(h) = 1 + q /\ LaneEpoch(h + 1) = 1 + r
  BY DEF LaneEpoch
<1> QED
  BY <1>2, <1>3, <1>4

\* The place holders are no certificates, truncations or answers.
LEMMA LaneBounds ==
    /\ MaxSeq \in Nat
    /\ NoCert \notin Certs
    /\ <<>> \notin Truncations /\ <<>> \notin Answers
    /\ Replaced \in Truncations
<1>1. MaxSeq \in Nat
  BY LanesAssumption, FS_CardinalityType DEF MaxSeq
<1>2. NoCert.epoch = 0
  BY DEF NoCert
<1>3. \A t \in Truncations \cup Answers : DOMAIN t # {}
  BY DEF Truncations, Answers
<1>4. DOMAIN <<>> = {}
  OBVIOUS
<1> QED
  BY <1>1, <1>2, <1>3, <1>4 DEF Certs, Replaced, Truncations

\* What a certificate that can be appended is like.
LEMMA Appendable ==
    ASSUME NEW n, NEW cert \in Certs, NEW state \in LaneStates, NEW epoch,
           ~state.exists => state.max_seq = 0,
           AppendResult(n, cert, state, epoch) = "ok"
    PROVE  /\ cert.epoch = epoch /\ LaneSeq(cert) = state.max_seq + 1
           /\ state.exists => cert.prev = state.root
  BY DEF AppendResult, LaneStates

\* The finalized records of a height, and the root they make.
LEMMA RootOfFinalized ==
    ASSUME LedgerInv, NEW h \in 0..Len(ledger.next)
    PROVE  /\ FinalizedSeq(h) \in 0..Len(ledger.records)
           /\ Root(FinalizedCerts(h)) = FinalizedRoot(h)
           /\ FinalizedRoot(h) \in Seq(LaneTxs) /\ Len(FinalizedRoot(h)) = FinalizedSeq(h)
           /\ FinalizedCerts(h) = [i \in 1..FinalizedSeq(h) |-> ledger.records[i]]
<1>1. FinalizedSeq(h) \in 0..Len(ledger.records)
  <2>1. CASE h = 0
    BY <2>1 DEF FinalizedSeq, LedgerInv
  <2>2. CASE h \in 1..Len(ledger.next)
    BY <2>2 DEF FinalizedSeq, LedgerInv
  <2> QED
    BY <2>1, <2>2
<1> DEFINE k == FinalizedSeq(h)
<1> HIDE DEF k
<1>2. ledger.records \in Seq(Certs)
  BY DEF LedgerInv
<1>3. SubSeq(ledger.records, 1, k) = [i \in 1..k |-> ledger.records[i]]
  BY <1>1, <1>2 DEF k
<1>4. SubSeq(ledger.records, 1, k) \in Seq(Certs) /\ Len(SubSeq(ledger.records, 1, k)) = k
  BY <1>1, <1>2 DEF k
<1>5. \A i \in 1..k : ledger.records[i] \in Certs
  BY <1>1, <1>2 DEF k
<1>6. [i \in 1..k |-> ledger.records[i].tx] \in Seq(LaneTxs) /\ Len([i \in 1..k |-> ledger.records[i].tx]) = k
  BY <1>1, <1>5 DEF k, Certs
<1> QED
  BY <1>1, <1>3, <1>4, <1>6 DEF k, FinalizedCerts, FinalizedRoot, Root

\* The ledger only grows.
LedgerGrows ==
    /\ \A i \in 1..Len(ledger.records) : ledger'.records[i] = ledger.records[i]
    /\ \A h \in 0..Len(ledger.next) : FinalizedSeq(h)' = FinalizedSeq(h)
    /\ Len(ledger'.next) \in Nat /\ Len(ledger'.next) >= Len(ledger.next)

\* A lane that a step does not touch, while others sign and the ledger grows.
LEMMA LaneKept ==
    ASSUME LanesInv, NEW m \in LaneNodes,
           stored'[m] = stored[m], lane_state'[m] = lane_state[m], applied'[m] = applied[m],
           truncating'[m] = truncating[m],
           signed \subseteq signed', signed' \subseteq Certs, certifier' = certifier,
           LedgerGrows, m \notin cut' => m \notin cut
    PROVE  LaneInv(m)'
<1>1. StoredInv(m) /\ TruncatingInv(m) /\ WholeInv(m) /\ LedgerInv
  BY DEF LanesInv, LaneInv
<1>2. applied[m] \in 0..Len(ledger.next)
  BY <1>1 DEF StoredInv, LanesInv, LanesTypeOK, LedgerInv
<1>3. Cursor(m)' = Cursor(m) /\ Cursor(m) \in 0..Len(ledger.records)
  BY <1>1, <1>2, RootOfFinalized DEF Cursor, LedgerGrows, FinalizedSeq
<1>4. EpochOf(m)' = EpochOf(m)
  BY DEF EpochOf, LaneEpoch
<1>5. FinalizedRoot(applied[m])' = FinalizedRoot(applied[m])
  BY <1>2, <1>3, SMTT(20) DEF FinalizedRoot, LedgerGrows, Cursor, FinalizedSeq
<1>6. StoredInv(m)'
  <2>1. /\ Len(ledger.next)' >= Len(ledger.next) /\ Len(ledger.next)' \in Nat /\ Len(ledger.next) \in Nat
        /\ \A s \in 1..Cursor(m) : ledger.records[s]' = ledger.records[s]
    BY <1>1, <1>3 DEF LedgerGrows, LedgerInv
  <2>2. applied[m] <= Len(ledger.next)'
    BY <1>2, <2>1
  <2> QED
    BY <1>1, <1>3, <1>4, <2>1, <2>2 DEF StoredInv
<1>7. TruncatingInv(m)'
  BY <1>1, <1>3, <1>4, <1>5 DEF TruncatingInv, Replaced
<1>9. WholeInv(m)'
  BY <1>1, <1>3 DEF WholeInv, Replaced
<1> QED
  BY <1>6, <1>7, <1>9 DEF LaneInv

\* A ledger that does not change has grown.
LEMMA LedgerSame ==
    ASSUME LedgerInv, ledger' = ledger
    PROVE  LedgerGrows
  BY DEF LedgerGrows, LedgerInv, FinalizedSeq

\* Records of the running epoch are appended to the lane of n, up to number top.
LEMMA Appended ==
    ASSUME LanesInv, NEW n \in LaneNodes, NEW top \in Nat,
           top >= lane_state[n].max_seq, top <= MaxSeq,
           truncating[n] = <<>>, truncating' = truncating, applied' = applied, ledger' = ledger,
           certifier' = certifier, cut' = cut,
           signed \subseteq signed',
           lane_state'[n].max_seq = top, Len(lane_state'[n].root) = top,
           ~lane_state'[n].exists => top = 0,
           \A s \in 1..lane_state[n].max_seq :
               stored'[n][s] = stored[n][s] /\ lane_state'[n].root[s] = lane_state[n].root[s],
           \A s \in (lane_state[n].max_seq + 1)..top :
               /\ stored'[n][s] \in signed' /\ LaneSeq(stored'[n][s]) = s
               /\ stored'[n][s].epoch = EpochOf(n) /\ lane_state'[n].root[s] = stored'[n][s].tx,
           \A s \in (top + 1)..MaxSeq : stored'[n][s] = stored[n][s]
    PROVE  LaneInv(n)'
<1> DEFINE old == lane_state[n].max_seq
<1>1. /\ StoredInv(n) /\ TruncatingInv(n) /\ WholeInv(n) /\ LedgerInv
      /\ old \in Nat /\ MaxSeq \in Nat /\ applied[n] \in 0..Len(ledger.next)
  <2>1. StoredInv(n) /\ TruncatingInv(n) /\ WholeInv(n) /\ LedgerInv
    BY DEF LanesInv, LaneInv
  <2>2. old \in Nat /\ MaxSeq \in Nat /\ applied[n] \in Nat /\ ledger.next \in Seq(Nat)
    BY <2>1, LaneBounds DEF LanesInv, LanesTypeOK, LaneStates, LedgerInv
  <2>3. applied[n] <= Len(ledger.next)
    BY <2>1 DEF StoredInv
  <2> QED
    BY <2>1, <2>2, <2>3
<1>2. Cursor(n)' = Cursor(n) /\ Cursor(n) \in 0..Len(ledger.records) /\ Cursor(n) <= old
  BY <1>1, RootOfFinalized DEF Cursor, FinalizedSeq, StoredInv
<1>3. EpochOf(n)' = EpochOf(n) /\ EpochOf(n) \in Nat
  <2>1. applied[n] + 1 \in Nat /\ applied[n] + 1 > 0
    BY <1>1
  <2>2. EpochOf(n) \in Nat
    BY <2>1, EpochsGrow DEF EpochOf
  <2> QED
    BY <2>2 DEF EpochOf, LaneEpoch
<1>4. \A s \in 1..MaxSeq : \/ s \in 1..old \/ s \in (old + 1)..top \/ s \in (top + 1)..MaxSeq
  BY <1>1
<1>5. ASSUME NEW s \in (top + 1)..MaxSeq PROVE stored'[n][s] = NoCert
  <2>1. s \in 1..MaxSeq /\ ~(s <= old)
    BY <1>1, <1>5
  <2>2. stored'[n][s] = stored[n][s]
    BY <1>5
  <2> QED
    BY <1>1, <2>1, <2>2 DEF StoredInv
<1>6. \A s \in 1..MaxSeq : stored'[n][s] # NoCert =>
        /\ stored'[n][s] \in signed' /\ LaneSeq(stored'[n][s]) = s /\ s <= top
        /\ stored'[n][s].epoch <= EpochOf(n) /\ stored'[n][s].epoch \in Nat
  <2> SUFFICES ASSUME NEW s \in 1..MaxSeq, stored'[n][s] # NoCert
               PROVE  /\ stored'[n][s] \in signed' /\ LaneSeq(stored'[n][s]) = s /\ s <= top
                      /\ stored'[n][s].epoch <= EpochOf(n) /\ stored'[n][s].epoch \in Nat
    OBVIOUS
  <2>1. CASE s \in 1..old
    <3>1. stored[n][s] \in signed /\ LaneSeq(stored[n][s]) = s /\ stored[n][s].epoch <= EpochOf(n)
      BY <2>1, <1>1 DEF StoredInv
    <3>2. stored[n][s].epoch \in Nat
      BY <3>1 DEF LanesInv, SignedInv, Certs
    <3> QED
      BY <1>1, <2>1, <3>1, <3>2
  <2>2. CASE s \in (old + 1)..top
    BY <2>2, <1>1, <1>3
  <2> QED
    BY <2>1, <2>2, <1>4, <1>5
<1>7. \A s, t \in 1..MaxSeq : s < t /\ stored'[n][s] # NoCert /\ stored'[n][t] # NoCert =>
         stored'[n][s].epoch <= stored'[n][t].epoch
  <2> SUFFICES ASSUME NEW s \in 1..MaxSeq, NEW t \in 1..MaxSeq, s < t,
                      stored'[n][s] # NoCert, stored'[n][t] # NoCert
               PROVE  stored'[n][s].epoch <= stored'[n][t].epoch
    OBVIOUS
  <2>1. t <= top
    BY <1>6
  <2>2. CASE t \in 1..old
    BY <2>2, <1>1 DEF StoredInv
  <2>3. CASE t \in (old + 1)..top
    BY <2>3, <1>6
  <2> QED
    BY <2>1, <2>2, <2>3, <1>1
<1>8. StoredInv(n)'
  <2>1. \A s \in 1..Cursor(n) : stored'[n][s] = ledger'.records[s]
    BY <1>1, <1>2, SMTT(20) DEF StoredInv
  <2> QED
    BY <1>1, <1>2, <1>3, <1>6, <1>7, <2>1 DEF StoredInv, LaneSeq
<1>9. TruncatingInv(n)'
  <2> SUFFICES ASSUME NEW s \in 1..MaxSeq, s = Cursor(n) + 1, stored'[n][s] # NoCert
               PROVE  stored'[n][s].epoch = EpochOf(n)
    BY <1>2, <1>3 DEF TruncatingInv
  <2>1. s <= top
    BY <1>6
  <2>2. CASE s <= old
    BY <1>1, <1>2, <2>2 DEF TruncatingInv
  <2> QED
    BY <2>1, <2>2, <1>1
<1>11. WholeInv(n)'
  <2> SUFFICES ASSUME n \notin cut, NEW s \in 1..top
               PROVE  stored'[n][s] # NoCert /\ lane_state'[n].root[s] = stored'[n][s].tx
    BY DEF WholeInv
  <2>1. CASE s \in 1..old
    BY <2>1, <1>1 DEF WholeInv
  <2>2. CASE s \in (old + 1)..top
    <3>1. NoCert.epoch = 0 /\ EpochOf(n) # 0
      BY <1>1, EpochsGrow, SMTT(20) DEF NoCert, EpochOf
    <3> QED
      BY <2>2, <3>1
  <2> QED
    BY <2>1, <2>2, <1>1
<1> QED
  BY <1>8, <1>9, <1>11 DEF LaneInv

\* The parts that do not change with the lane of a node.
LEMMA SharedKept ==
    ASSUME LanesInv, certifier' = certifier, signed' = signed, ledger' = ledger
    PROVE  DOMAIN certifier' \subseteq Nat \ {0} /\ SignedInv' /\ LedgerInv'
  BY DEF LanesInv, SignedInv, LedgerInv, LinkedInv, LaneSeq, FinalizedSeq, LaneEpoch

\* Requests and answers that a step does not touch.
LEMMA RangesKept ==
    ASSUME RangesInv, signed \subseteq signed', range_request' = range_request, range_answer' = range_answer
    PROVE  RangesInv'
  BY DEF RangesInv, LaneSeq

\* The row of records and the state that one appended record makes.
LEMMA OneStored ==
    ASSUME LanesInv, NEW n \in LaneNodes, NEW cert \in Certs, LaneSeq(cert) = lane_state[n].max_seq + 1,
           LaneSeq(cert) <= MaxSeq, Store(n, LaneSeq(cert), <<cert>>, Extended(lane_state[n], cert))
    PROVE  /\ stored' \in [LaneNodes -> [1..MaxSeq -> Certs \cup {NoCert}]]
           /\ lane_state' \in [LaneNodes -> LaneStates]
           /\ \A m \in LaneNodes \ {n} : stored'[m] = stored[m] /\ lane_state'[m] = lane_state[m]
           /\ stored'[n][LaneSeq(cert)] = cert
           /\ \A s \in 1..MaxSeq : s # LaneSeq(cert) => stored'[n][s] = stored[n][s]
           /\ lane_state'[n] = Extended(lane_state[n], cert)
           /\ lane_state'[n].exists /\ lane_state'[n].max_seq = LaneSeq(cert)
           /\ Len(lane_state'[n].root) = LaneSeq(cert)
           /\ \A s \in 1..lane_state[n].max_seq : lane_state'[n].root[s] = lane_state[n].root[s]
           /\ lane_state'[n].root[LaneSeq(cert)] = cert.tx
<1> DEFINE q == LaneSeq(cert)
           row == [s \in 1..MaxSeq |-> IF s = q THEN cert ELSE stored[n][s]]
<1>1. /\ stored \in [LaneNodes -> [1..MaxSeq -> Certs \cup {NoCert}]]
      /\ lane_state \in [LaneNodes -> LaneStates] /\ lane_state[n].max_seq \in Nat
      /\ lane_state[n].root \in Seq(LaneTxs) /\ Len(lane_state[n].root) = lane_state[n].max_seq
      /\ cert.tx \in LaneTxs /\ q \in 1..MaxSeq
  BY LaneBounds DEF LanesInv, LanesTypeOK, LaneInv, StoredInv, LaneStates, Certs
<1> HIDE DEF q
<1>2. \A s \in 1..MaxSeq : (s \in q..(q + Len(<<cert>>) - 1)) <=> s = q
  BY <1>1
<1>3. \A s \in 1..MaxSeq : s = q => <<cert>>[s - q + 1] = cert
  BY <1>1
<1>4. row = [s \in 1..MaxSeq |-> IF s \in q..(q + Len(<<cert>>) - 1) THEN <<cert>>[s - q + 1] ELSE stored[n][s]]
  BY <1>2, <1>3
<1>5. stored' = [stored EXCEPT ![n] = row]
  BY <1>4 DEF Store, q
<1>6. row \in [1..MaxSeq -> Certs \cup {NoCert}]
  BY <1>1
<1>7. Extended(lane_state[n], cert) \in LaneStates /\ lane_state' = [lane_state EXCEPT ![n] = Extended(lane_state[n], cert)]
  BY <1>1 DEF Extended, LaneStates, Store, q
<1>8. row = [stored[n] EXCEPT ![q] = cert]
  BY <1>1
<1>9. stored'[n] = row
  BY <1>1, <1>5
<1>10. lane_state'[n] = Extended(lane_state[n], cert)
  BY <1>1, <1>7
<1>11. /\ stored' \in [LaneNodes -> [1..MaxSeq -> Certs \cup {NoCert}]]
       /\ \A m \in LaneNodes \ {n} : stored'[m] = stored[m]
  BY <1>1, <1>5, <1>6
<1>12. /\ lane_state' \in [LaneNodes -> LaneStates]
       /\ \A m \in LaneNodes \ {n} : lane_state'[m] = lane_state[m]
  BY <1>1, <1>7
<1>13. /\ Len(Append(lane_state[n].root, cert.tx)) = q
       /\ \A s \in 1..lane_state[n].max_seq : Append(lane_state[n].root, cert.tx)[s] = lane_state[n].root[s]
       /\ Append(lane_state[n].root, cert.tx)[q] = cert.tx
  BY <1>1 DEF q
<1>14. /\ lane_state'[n].exists /\ lane_state'[n].max_seq = q
       /\ lane_state'[n].root = Append(lane_state[n].root, cert.tx)
  BY <1>10 DEF Extended, q
<1> QED
  BY <1>1, <1>8, <1>9, <1>10, <1>11, <1>12, <1>13, <1>14 DEF q

\* A record of the running epoch is appended to the lane of n, which may be its signer.
LEMMA OneAppended ==
    ASSUME LanesInv, NEW n \in LaneNodes, NEW cert \in Certs, LaneSeq(cert) = lane_state[n].max_seq + 1,
           LaneSeq(cert) <= MaxSeq, Store(n, LaneSeq(cert), <<cert>>, Extended(lane_state[n], cert)),
           cert.epoch = EpochOf(n), truncating[n] = <<>>,
           signed' = signed \cup {cert},
           UNCHANGED <<certifier, ledger, applied, truncating, cut, laneFaults>>
    PROVE  LanesTypeOK' /\ \A m \in LaneNodes : LaneInv(m)'
<1>1. /\ stored' \in [LaneNodes -> [1..MaxSeq -> Certs \cup {NoCert}]]
      /\ lane_state' \in [LaneNodes -> LaneStates]
      /\ \A m \in LaneNodes \ {n} : stored'[m] = stored[m] /\ lane_state'[m] = lane_state[m]
      /\ stored'[n][LaneSeq(cert)] = cert
      /\ \A s \in 1..MaxSeq : s # LaneSeq(cert) => stored'[n][s] = stored[n][s]
      /\ lane_state'[n].exists /\ lane_state'[n].max_seq = LaneSeq(cert)
      /\ Len(lane_state'[n].root) = LaneSeq(cert)
      /\ \A s \in 1..lane_state[n].max_seq : lane_state'[n].root[s] = lane_state[n].root[s]
      /\ lane_state'[n].root[LaneSeq(cert)] = cert.tx
  BY OneStored
<1>2. LanesTypeOK'
  BY <1>1 DEF LanesInv, LanesTypeOK
<1>3. LedgerInv /\ LedgerGrows
  BY LedgerSame DEF LanesInv
<1>4. ASSUME NEW m \in LaneNodes \ {n} PROVE LaneInv(m)'
  <2>1. signed' \subseteq Certs
    BY DEF LanesInv, SignedInv
  <2> QED
    BY <1>1, <1>3, <1>4, <2>1, LaneKept
<1>5. lane_state[n].max_seq \in Nat /\ MaxSeq \in Nat
  BY LaneBounds DEF LanesInv, LanesTypeOK, LaneStates
<1>6. LaneInv(n)'
  <2>1. \A s \in (lane_state[n].max_seq + 1)..LaneSeq(cert) : s = LaneSeq(cert)
    BY <1>5
  <2>2. \A s \in (lane_state[n].max_seq + 1)..LaneSeq(cert) :
               /\ stored'[n][s] \in signed' /\ LaneSeq(stored'[n][s]) = s
               /\ stored'[n][s].epoch = EpochOf(n) /\ lane_state'[n].root[s] = stored'[n][s].tx
    BY <1>1, <2>1
  <2>4. ASSUME NEW s \in 1..lane_state[n].max_seq
        PROVE  stored'[n][s] = stored[n][s] /\ lane_state'[n].root[s] = lane_state[n].root[s]
    <3>1. s \in 1..MaxSeq /\ s # LaneSeq(cert)
      BY <1>5
    <3> QED
      BY <1>1, <3>1
  <2>5. \A s \in (LaneSeq(cert) + 1)..MaxSeq : stored'[n][s] = stored[n][s]
    <3>1. \A s \in (LaneSeq(cert) + 1)..MaxSeq : s \in 1..MaxSeq /\ s # LaneSeq(cert)
      BY <1>5
    <3> QED
      BY <3>1, <1>1
  <2>6. /\ signed \subseteq signed' /\ truncating' = truncating /\ applied' = applied /\ ledger' = ledger
        /\ certifier' = certifier /\ cut' = cut
    OBVIOUS
  <2>7. PICK top : top = LaneSeq(cert)
    OBVIOUS
  <2>8. /\ lane_state'[n].max_seq = top /\ Len(lane_state'[n].root) = top
        /\ ~lane_state'[n].exists => top = 0
        /\ top \in Nat /\ top >= lane_state[n].max_seq /\ top <= MaxSeq
    BY <1>1, <1>5, <2>7
  <2>9. /\ \A s \in (lane_state[n].max_seq + 1)..top :
               /\ stored'[n][s] \in signed' /\ LaneSeq(stored'[n][s]) = s
               /\ stored'[n][s].epoch = EpochOf(n) /\ lane_state'[n].root[s] = stored'[n][s].tx
        /\ \A s \in (top + 1)..MaxSeq : stored'[n][s] = stored[n][s]
    BY <2>2, <2>5, <2>7
  <2> QED
    BY <2>4, <2>6, <2>8, <2>9, Appended, Zenon
<1> QED
  BY <1>2, <1>4, <1>6, Zenon

\* The certifier signs the next number of its own lane.
LEMMA CertifyKeeps ==
    ASSUME LanesInv, NEW n \in LaneNodes, NEW tx \in LaneTxs, maybe_certify_record(n, tx)
    PROVE  LanesInv'
<1> DEFINE epoch == LaneEpoch(applied[n] + 1)
           cert == [epoch |-> epoch, prev |-> lane_state[n].root, tx |-> tx]
<1>1. /\ truncating[n] = <<>> /\ lane_state[n].max_seq < MaxSeq
      /\ Store(n, LaneSeq(cert), <<cert>>, Extended(lane_state[n], cert))
      /\ signed' = signed \cup {cert}
      /\ UNCHANGED <<certifier, range_request, range_answer, ledger, applied, truncating, cut, laneFaults>>
  BY DEF maybe_certify_record, Free
<1>2. /\ applied[n] + 1 \in Nat /\ applied[n] + 1 > 0 /\ lane_state[n] \in LaneStates
      /\ Len(lane_state[n].root) = lane_state[n].max_seq /\ MaxSeq \in Nat
  BY LaneBounds DEF LanesInv, LanesTypeOK, LaneInv, StoredInv
<1>3. epoch \in Nat \ {0} /\ EpochOf(n) = epoch
  BY <1>2, EpochsGrow DEF EpochOf
<1> HIDE DEF epoch
<1>4. /\ cert \in Certs /\ cert.epoch = epoch /\ cert.tx = tx
      /\ LaneSeq(cert) = lane_state[n].max_seq + 1 /\ LaneSeq(cert) <= MaxSeq
  BY <1>1, <1>2, <1>3 DEF Certs, LaneSeq, LaneStates
<1> HIDE DEF cert
<1>6. SignedInv'
  <2>1. signed' \subseteq Certs /\ \A c \in signed' : LaneSeq(c) <= MaxSeq
    BY <1>1, <1>4 DEF LanesInv, SignedInv
  <2> QED
    BY <2>1 DEF SignedInv, LaneSeq
<1>7. LedgerInv' /\ RangesInv' /\ DOMAIN certifier' \subseteq Nat \ {0}
  <2>1. LedgerInv /\ RangesInv /\ DOMAIN certifier \subseteq Nat \ {0}
    BY DEF LanesInv
  <2>2. LedgerInv'
    BY <1>1, <2>1 DEF LedgerInv, LinkedInv, LaneSeq, FinalizedSeq, LaneEpoch
  <2>3. RangesInv'
    BY <1>1, <2>1, RangesKept
  <2> QED
    BY <1>1, <2>1, <2>2, <2>3
<1>8. LanesTypeOK' /\ \A m \in LaneNodes : LaneInv(m)'
  BY <1>1, <1>3, <1>4, OneAppended
<1> QED
  BY <1>6, <1>7, <1>8 DEF LanesInv

\* A certificate that comes by gossip is appended.
LEMMA RecordKeeps ==
    ASSUME LanesInv, NEW n \in LaneNodes, NEW cert \in signed, handle_ingress_record(n, cert)
    PROVE  LanesInv'
<1>1. /\ truncating[n] = <<>> /\ GossipResult(n, cert) = "ok"
      /\ Store(n, LaneSeq(cert), <<cert>>, Extended(lane_state[n], cert))
      /\ UNCHANGED <<certifier, signed, range_request, range_answer, ledger, applied, truncating, cut, laneFaults>>
  BY DEF handle_ingress_record, Free
<1>2. AppendResult(n, cert, lane_state[n], EpochOf(n)) = "ok"
  BY <1>1 DEF GossipResult, EpochOf
<1>3. cert \in Certs /\ LaneSeq(cert) <= MaxSeq /\ lane_state[n] \in LaneStates /\ (~lane_state[n].exists => lane_state[n].max_seq = 0)
  BY DEF LanesInv, SignedInv, LanesTypeOK, LaneInv, StoredInv
<1>4. cert.epoch = EpochOf(n) /\ LaneSeq(cert) = lane_state[n].max_seq + 1
  BY <1>2, <1>3, Appendable
<1>5. signed' = signed \cup {cert}
  BY <1>1
<1>6. LanesTypeOK' /\ \A m \in LaneNodes : LaneInv(m)'
  BY <1>1, <1>3, <1>4, <1>5, OneAppended
<1>7. DOMAIN certifier' \subseteq Nat \ {0} /\ SignedInv' /\ LedgerInv' /\ RangesInv'
  BY <1>1, SharedKept, RangesKept DEF LanesInv
<1> QED
  BY <1>6, <1>7 DEF LanesInv

\* A faulty member adds a certificate.
LEMMA ForgedKeeps ==
    ASSUME LanesInv, NEW epoch \in DOMAIN certifier, NEW tx \in LaneTxs,
           NEW prev \in {<<>>} \cup {Append(c.prev, c.tx) : c \in signed},
           SignAnything(epoch, prev, tx)
    PROVE  LanesInv'
<1> DEFINE cert == [epoch |-> epoch, prev |-> prev, tx |-> tx]
<1>1. /\ Len(prev) < MaxSeq /\ signed' = signed \cup {cert} /\ laneFaults' = laneFaults + 1
      /\ UNCHANGED <<certifier, stored, lane_state, range_request, range_answer, ledger, applied, truncating, cut>>
  BY DEF SignAnything
<1>2. prev \in Seq(LaneTxs)
  <2>1. ASSUME NEW c \in signed PROVE Append(c.prev, c.tx) \in Seq(LaneTxs)
    <3>1. c.prev \in Seq(LaneTxs) /\ c.tx \in LaneTxs
      BY DEF LanesInv, SignedInv, Certs
    <3> QED
      BY <3>1
  <2>2. <<>> \in Seq(LaneTxs)
    OBVIOUS
  <2> QED
    BY <2>1, <2>2, Zenon
<1>3. cert \in Certs /\ cert.epoch = epoch /\ LaneSeq(cert) <= MaxSeq
  BY <1>1, <1>2, LaneBounds DEF LanesInv, Certs, LaneSeq
<1> HIDE DEF cert
<1>4. SignedInv'
  <2>1. signed' \subseteq Certs /\ \A c \in signed' : LaneSeq(c) <= MaxSeq
    BY <1>1, <1>3 DEF LanesInv, SignedInv
  <2> QED
    BY <2>1 DEF SignedInv, LaneSeq
<1>5. LedgerInv' /\ RangesInv' /\ DOMAIN certifier' \subseteq Nat \ {0} /\ LanesTypeOK' /\ LedgerGrows
  <2>1. LedgerInv /\ RangesInv /\ DOMAIN certifier \subseteq Nat \ {0} /\ LanesTypeOK
    BY DEF LanesInv
  <2>2. LedgerInv'
    BY <1>1, <2>1 DEF LedgerInv, LinkedInv, LaneSeq, FinalizedSeq, LaneEpoch
  <2>3. RangesInv'
    BY <1>1, <2>1, RangesKept
  <2> QED
    BY <1>1, <2>1, <2>2, <2>3, LedgerSame DEF LanesTypeOK
<1>6. ASSUME NEW m \in LaneNodes PROVE LaneInv(m)'
  <2>1. signed' \subseteq Certs /\ signed \subseteq signed'
    BY <1>1, <1>4 DEF SignedInv
  <2> QED
    BY <1>1, <1>5, <2>1, LaneKept
<1> QED
  BY <1>4, <1>5, <1>6 DEF LanesInv

\* Steps that change requests and answers only.
LEMMA LanesSame ==
    ASSUME LanesInv, RangesInv',
           UNCHANGED <<certifier, signed, stored, lane_state, ledger, applied, truncating, cut, laneFaults>>
    PROVE  LanesInv'
<1>1. DOMAIN certifier' \subseteq Nat \ {0} /\ SignedInv' /\ LedgerInv'
  BY SharedKept
<1>2. LanesTypeOK'
  BY DEF LanesInv, LanesTypeOK
<1>3. LedgerGrows /\ signed \subseteq signed' /\ signed' \subseteq Certs
  BY LedgerSame DEF LanesInv, SignedInv
<1>4. ASSUME NEW m \in LaneNodes PROVE LaneInv(m)'
  BY <1>3, LaneKept
<1> QED
  BY <1>1, <1>2, <1>4 DEF LanesInv

\* An asker and the peer it asks.
LEMMA PairOf ==
    ASSUME NEW x \in Pairs
    PROVE  x[1] \in LaneNodes /\ x[2] \in LaneNodes /\ <<x[1], x[2]>> = x
<1>1. x \in Askers \X LaneNodes
  BY DEF Pairs
<1>2. PICK a \in Askers, b \in LaneNodes : x = <<a, b>>
  BY <1>1
<1> QED
  BY <1>2, LanesAssumption

\* A range is asked for.
LEMMA TipsKeeps ==
    ASSUME LanesInv, NEW x \in Pairs, handle_ingress_tips(x[1], x[2])
    PROVE  LanesInv'
<1>1. /\ UNCHANGED <<certifier, signed, stored, lane_state, range_answer, ledger, applied, truncating, cut, laneFaults>>
      /\ range_request' = [range_request EXCEPT ![x] = <<lane_state[x[1]].max_seq + 1, lane_state[x[2]].max_seq>>]
  BY PairOf DEF handle_ingress_tips
<1>2. lane_state[x[1]].max_seq \in Nat /\ lane_state[x[2]].max_seq \in Nat /\ RangesInv
  BY PairOf DEF LanesInv, LanesTypeOK, LaneStates
<1>3. RangesInv'
  BY <1>1, <1>2 DEF RangesInv, LaneSeq
<1> QED
  BY <1>1, <1>3, LanesSame

\* A request is given up.
LEMMA TimeoutKeeps ==
    ASSUME LanesInv, NEW x \in Pairs, RangeTimeout(x)
    PROVE  LanesInv'
<1>1. /\ UNCHANGED <<certifier, signed, stored, lane_state, range_answer, ledger, applied, truncating, cut, laneFaults>>
      /\ range_request' = [range_request EXCEPT ![x] = <<>>]
  BY DEF RangeTimeout
<1>2. RangesInv'
  BY <1>1 DEF LanesInv, RangesInv, LaneSeq
<1> QED
  BY <1>1, <1>2, LanesSame

\* A set of numbers below a bound has a greatest one.
LEMMA GreatestNumber ==
    ASSUME NEW S \in SUBSET Nat, S # {}, NEW m \in Nat, \A x \in S : x <= m
    PROVE  \E x \in S : \A y \in S : y <= x
<1> DEFINE T == {m - x : x \in S}
<1>1. T \in SUBSET Nat /\ T # {}
  <2>1. \A x \in S : m - x \in Nat
    OBVIOUS
  <2> QED
    BY <2>1, Zenon
<1> HIDE DEF T
<1>2. PICK t \in T : \A y \in T : ~ (<<y, t>> \in OpToRel(<, Nat))
  BY <1>1, NatLessThanWellFounded, WFMin, Zenon
<1>3. \A y \in T : ~(y < t)
  BY <1>1, <1>2 DEF OpToRel
<1>4. PICK x \in S : t = m - x
  BY DEF T
<1>5. ASSUME NEW y \in S PROVE y <= x
  <2>1. ~(m - y < t)
    BY <1>3 DEF T
  <2> QED
    BY <2>1, <1>4
<1> QED
  BY <1>5

\* What a peer answers are records of its lane.
LEMMA AnswerKeeps ==
    ASSUME LanesInv, NEW x \in Pairs, on_get_ingress_range(x[1], x[2])
    PROVE  LanesInv'
<1> DEFINE p == x[2]
           r == range_request[x]
           S == {k \in 0..MaxSeq : k < r[1] + RangeCap /\ k <= r[2] /\ \A s \in r[1]..k : stored[p][s] # NoCert}
           last == Max(S)
           certs == SubSeq(stored[p], r[1], last)
<1>1. /\ r # <<>> /\ last >= r[1]
      /\ range_answer' = [range_answer EXCEPT ![x] = [from |-> r[1], certs |-> certs]]
      /\ UNCHANGED <<certifier, signed, stored, lane_state, range_request, ledger, applied, truncating, cut, laneFaults>>
  BY PairOf DEF on_get_ingress_range
<1>2. /\ r[1] \in Nat \ {0} /\ r[2] \in Nat /\ MaxSeq \in Nat /\ RangeCap \in Nat \ {0}
      /\ p \in LaneNodes /\ stored[p] \in [1..MaxSeq -> Certs \cup {NoCert}]
      /\ RangesInv
  BY <1>1, PairOf, LaneBounds, LanesAssumption DEF LanesInv, RangesInv, LanesTypeOK
<1> HIDE DEF p, r
<1>3. last \in S
  <2>1. S \in SUBSET Nat /\ 0 \in S /\ \A k \in S : k <= MaxSeq
    BY <1>2
  <2> HIDE DEF S
  <2>2. \E k \in S : \A y \in S : y <= k
    BY <1>2, <2>1, GreatestNumber
  <2>3. \E k \in S : \A y \in S : k >= y
    BY <2>1, <2>2
  <2> QED
    BY <2>3, Zenon DEF Max
<1>4. last \in r[1]..MaxSeq /\ \A s \in r[1]..last : stored[p][s] # NoCert
  <2>1. last \in 0..MaxSeq /\ \A s \in r[1]..last : stored[p][s] # NoCert
    BY <1>3, Zenon
  <2> HIDE DEF last
  <2> QED
    BY <1>1, <1>2, <2>1
<1> HIDE DEF last
<1>5. \A s \in r[1]..last : stored[p][s] \in signed /\ LaneSeq(stored[p][s]) = s /\ stored[p][s] \in Certs
  BY <1>2, <1>4 DEF LanesInv, LaneInv, StoredInv, SignedInv
<1>6. /\ Len(certs) = last - r[1] + 1 /\ DOMAIN certs = 1..(last - r[1] + 1)
      /\ \A i \in 1..(last - r[1] + 1) : certs[i] = stored[p][r[1] + i - 1] /\ r[1] + i - 1 \in r[1]..last
  BY <1>2, <1>4, SMTT(20)
<1>7. \A i \in 1..Len(certs) : certs[i] \in signed /\ LaneSeq(certs[i]) = r[1] + i - 1 /\ certs[i] \in Certs
  BY <1>5, <1>6
<1>8. certs \in Seq(Certs)
  <2>1. stored[p] \in Seq(Certs \cup {NoCert}) /\ Len(stored[p]) = MaxSeq
    BY <1>2
  <2>2. certs \in Seq(Certs \cup {NoCert})
    BY <1>2, <1>4, <2>1
  <2> HIDE DEF certs
  <2>3. certs \in [1..Len(certs) -> Certs \cup {NoCert}] /\ Len(certs) \in Nat
    BY <2>2
  <2>4. certs \in [1..Len(certs) -> Certs]
    BY <1>7, <2>3
  <2> QED
    BY <2>3, <2>4
<1> HIDE DEF certs
<1>9. PICK a : a = [from |-> r[1], certs |-> certs]
  OBVIOUS
<1>10. a \in Answers /\ a.from = r[1] /\ a.certs = certs
  BY <1>2, <1>8, <1>9 DEF Answers
<1>11. range_answer' = [range_answer EXCEPT ![x] = a]
  BY <1>1, <1>9
<1>12. RangesInv'
  <2>1. range_answer' \in [Pairs -> {<<>>} \cup Answers] /\ range_request' \in [Pairs -> {<<>>} \cup (Nat \ {0}) \X Nat]
    BY <1>1, <1>2, <1>10, <1>11 DEF RangesInv
  <2>2. ASSUME NEW y \in Pairs, range_answer'[y] # <<>>, NEW i \in 1..Len(range_answer'[y].certs)
        PROVE  /\ range_answer'[y].certs[i] \in signed
               /\ LaneSeq(range_answer'[y].certs[i]) = range_answer'[y].from + i - 1
    <3>1. CASE y = x
      <4>1. range_answer'[y] = a
        BY <1>2, <1>11, <3>1 DEF RangesInv
      <4> QED
        BY <1>7, <1>10, <2>2, <4>1
    <3>2. CASE y # x
      <4>1. range_answer'[y] = range_answer[y]
        BY <1>2, <1>11, <3>2 DEF RangesInv
      <4> QED
        BY <1>2, <2>2, <4>1 DEF RangesInv
    <3> QED
      BY <3>1, <3>2
  <2> QED
    BY <1>1, <2>1, <2>2 DEF RangesInv, LaneSeq
<1> QED
  BY <1>1, <1>12, LanesSame

\* What the checks of a range answer establish: it begins where the lane of n ends or before,
\* and up to there it is what n holds.
LEMMA RangeChecked ==
    ASSUME LanesInv, NEW n \in LaneNodes, NEW first \in Nat \ {0}, NEW certs \in Seq(Certs),
           \A i \in 1..Len(certs) : certs[i] \in signed /\ LaneSeq(certs[i]) = first + i - 1,
           Simulated(n, first, certs), Len(certs) > 0
    PROVE  /\ first <= lane_state[n].max_seq + 1
           /\ \A i \in 1..Len(certs) : first + i - 1 <= lane_state[n].max_seq => stored[n][first + i - 1] = certs[i]
<1> DEFINE state == lane_state[n]
<1>1. state \in LaneStates /\ state.max_seq \in Nat /\ (~state.exists => state.max_seq = 0)
  BY DEF LanesInv, LanesTypeOK, LaneStates, LaneInv, StoredInv
<1> HIDE DEF state
<1>2. ASSUME NEW i \in 1..Len(certs), i = 1 \/ first + i - 1 <= state.max_seq
      PROVE  \/ stored[n][first + i - 1] = certs[i] /\ state.max_seq >= first + i - 1
             \/ first + i - 1 = state.max_seq + 1
  <2>1. simulated_state(n, first, certs, i - 1) = state
    <3>1. i \in Int /\ Len(certs) \in Nat
      OBVIOUS
    <3>2. i - 1 = 0 \/ first + (i - 1) - 1 <= state.max_seq
      BY <1>1, <1>2, <3>1
    <3> QED
      BY <3>2, Zenon DEF simulated_state, state
  <2>2. \/ stored[n][LaneSeq(certs[i])] = certs[i] /\ state.max_seq >= LaneSeq(certs[i])
        \/ AppendResult(n, certs[i], state, LaneEpoch(applied[n] + 1)) = "ok"
    BY <2>1, Zenon DEF Simulated
  <2>3. LaneSeq(certs[i]) = first + i - 1 /\ certs[i] \in Certs
    OBVIOUS
  <2>4. AppendResult(n, certs[i], state, LaneEpoch(applied[n] + 1)) = "ok" => LaneSeq(certs[i]) = state.max_seq + 1
    BY <1>1, <2>3, Appendable
  <2> QED
    BY <2>2, <2>3, <2>4
<1>3. first <= state.max_seq + 1
  <2>1. 1 \in 1..Len(certs) /\ first + 1 - 1 = first
    OBVIOUS
  <2> QED
    BY <1>1, <1>2, <2>1
<1>4. ASSUME NEW i \in 1..Len(certs), first + i - 1 <= state.max_seq
      PROVE  stored[n][first + i - 1] = certs[i]
  BY <1>1, <1>2, <1>4
<1> QED
  BY <1>3, <1>4 DEF state

\* The transactions of certificates.
LEMMA TxsOf ==
    ASSUME NEW w \in Nat, NEW certs, \A i \in 1..w : certs[i] \in Certs
    PROVE  [i \in 1..w |-> certs[i].tx] \in Seq(LaneTxs) /\ Len([i \in 1..w |-> certs[i].tx]) = w
  BY DEF Certs

\* The root of a lane that is extended by the records of an answer that it does not hold.
LEMMA ExtendedRoot ==
    ASSUME NEW root \in Seq(LaneTxs), NEW certs \in Seq(Certs), NEW first \in Nat \ {0},
           first <= Len(root) + 1, Len(root) < first + Len(certs) - 1
    PROVE  LET new == root \o Root(SubSeq(certs, Len(root) + 2 - first, Len(certs)))
               top == first + Len(certs) - 1
           IN  /\ new \in Seq(LaneTxs) /\ Len(new) = top
               /\ \A s \in 1..Len(root) : new[s] = root[s]
               /\ \A s \in (Len(root) + 1)..top : new[s] = certs[s - first + 1].tx
<1> DEFINE old == Len(root)
           k == Len(certs)
           j == old + 2 - first
           tail == SubSeq(certs, j, k)
           top == first + k - 1
<1>1. old \in Nat /\ k \in Nat /\ j \in 1..k /\ top \in Nat /\ k - j + 1 = top - old
  OBVIOUS
<1>2. /\ tail \in Seq(Certs) /\ Len(tail) = k - j + 1
      /\ \A i \in 1..(k - j + 1) : tail[i] = certs[i + j - 1]
  BY <1>1, SMTT(20)
<1>3. \A i \in 1..(k - j + 1) : tail[i] \in Certs
  BY <1>2
<1> HIDE DEF tail, j
<1>4. Root(tail) = [i \in 1..(k - j + 1) |-> tail[i].tx]
  BY <1>2 DEF Root
<1>5. Root(tail) \in Seq(LaneTxs) /\ Len(Root(tail)) = top - old
  <2> DEFINE w == k - j + 1
  <2>1. w \in Nat /\ w = k - j + 1 /\ w = top - old
    BY <1>1
  <2> HIDE DEF w
  <2>2. \A i \in 1..w : tail[i] \in Certs
    BY <1>3, <2>1
  <2>3. [i \in 1..w |-> tail[i].tx] \in Seq(LaneTxs) /\ Len([i \in 1..w |-> tail[i].tx]) = w
    BY <2>1, <2>2, TxsOf, Zenon
  <2>4. Root(tail) = [i \in 1..w |-> tail[i].tx]
    BY <1>4 DEF w
  <2> QED
    BY <2>1, <2>3, <2>4
<1>6. \A i \in 1..(top - old) : Root(tail)[i] = certs[i + j - 1].tx
  BY <1>1, <1>2, <1>4
<1> DEFINE new == root \o Root(tail)
<1>7. /\ new \in Seq(LaneTxs) /\ Len(new) = top
      /\ \A s \in 1..old : new[s] = root[s]
      /\ \A s \in (old + 1)..top : new[s] = Root(tail)[s - old]
  <2>1. PICK more \in Seq(LaneTxs) : more = Root(tail) /\ Len(more) = top - old
    BY <1>5
  <2>2. Len(root \o more) = top
    BY <1>1, <2>1
  <2> QED
    BY <1>1, <2>1, <2>2, SMTT(20)
<1>8. \A s \in (old + 1)..top : s - old \in 1..(top - old) /\ (s - old) + j - 1 = s - first + 1
  BY <1>1 DEF j
<1>9. \A s \in (old + 1)..top : new[s] = certs[s - first + 1].tx
  BY <1>6, <1>7, <1>8
<1> HIDE DEF new
<1> QED
  BY <1>7, <1>9 DEF new, tail, j

\* The records of an answer that was checked are stored.
LEMMA RangeAppended ==
    ASSUME LanesInv, NEW n \in LaneNodes, NEW first \in Nat \ {0}, NEW certs \in Seq(Certs),
           \A i \in 1..Len(certs) : certs[i] \in signed /\ LaneSeq(certs[i]) = first + i - 1,
           Simulated(n, first, certs), Len(certs) > 0, truncating[n] = <<>>,
           \A i \in 1..Len(certs) : certs[i].epoch = EpochOf(n),
           Store(n, first, certs, simulated_state(n, first, certs, Len(certs))),
           signed' = signed, certifier' = certifier, ledger' = ledger, applied' = applied,
           truncating' = truncating, cut' = cut, laneFaults' = laneFaults
    PROVE  LanesTypeOK' /\ \A m \in LaneNodes : LaneInv(m)'
<1> DEFINE old == lane_state[n].max_seq
           k == Len(certs)
           row == [s \in 1..MaxSeq |-> IF s \in first..(first + k - 1) THEN certs[s - first + 1] ELSE stored[n][s]]
           after == simulated_state(n, first, certs, k)
<1>1. /\ lane_state[n] \in LaneStates /\ old \in Nat /\ k \in Nat /\ k > 0 /\ MaxSeq \in Nat
      /\ lane_state[n].root \in Seq(LaneTxs) /\ Len(lane_state[n].root) = old /\ old <= MaxSeq
      /\ ~lane_state[n].exists => old = 0
      /\ stored \in [LaneNodes -> [1..MaxSeq -> Certs \cup {NoCert}]] /\ lane_state \in [LaneNodes -> LaneStates]
  BY LaneBounds DEF LanesInv, LanesTypeOK, LaneStates, LaneInv, StoredInv
<1>2. first <= old + 1 /\ \A i \in 1..k : first + i - 1 <= old => stored[n][first + i - 1] = certs[i]
  BY RangeChecked
<1>3. first + k - 1 <= MaxSeq
  <2>1. certs[k] \in signed /\ LaneSeq(certs[k]) = first + k - 1
    BY <1>1
  <2> QED
    BY <2>1 DEF LanesInv, SignedInv
<1>4. stored' = [stored EXCEPT ![n] = row] /\ lane_state' = [lane_state EXCEPT ![n] = after]
  BY DEF Store
<1>5. \A s \in first..(first + k - 1) : s - first + 1 \in 1..k /\ first + (s - first + 1) - 1 = s
  BY <1>1
<1>6. row \in [1..MaxSeq -> Certs \cup {NoCert}]
  BY <1>1, <1>5
<1>7. /\ \A s \in 1..MaxSeq : s \in first..(first + k - 1) => row[s] = certs[s - first + 1]
      /\ \A s \in 1..MaxSeq : s \notin first..(first + k - 1) => row[s] = stored[n][s]
  OBVIOUS
<1> HIDE DEF row
<1>8. /\ stored' \in [LaneNodes -> [1..MaxSeq -> Certs \cup {NoCert}]] /\ stored'[n] = row
      /\ \A m \in LaneNodes \ {n} : stored'[m] = stored[m]
  BY <1>1, <1>4, <1>6
<1> DEFINE top == IF first + k - 1 <= old THEN old ELSE first + k - 1
<1>9. /\ top \in Nat /\ top >= old /\ top <= MaxSeq /\ top >= first + k - 1
      /\ (old + 1)..top \subseteq first..(first + k - 1)
  BY <1>1, <1>2, <1>3
<1>10. /\ after \in LaneStates /\ after.max_seq = top /\ Len(after.root) = top /\ (~after.exists => top = 0)
       /\ \A s \in 1..old : after.root[s] = lane_state[n].root[s]
       /\ \A s \in (old + 1)..top : after.root[s] = certs[s - first + 1].tx
  <2>1. CASE first + k - 1 <= old
    <3>1. after = lane_state[n]
      BY <2>1, Zenon DEF simulated_state
    <3> QED
      BY <2>1, <3>1, <1>1
  <2>2. CASE first + k - 1 > old
    <3> DEFINE new == lane_state[n].root \o Root(SubSeq(certs, old + 2 - first, k))
    <3>1. ~(k = 0 \/ first + k - 1 <= old) /\ top = first + k - 1
      BY <1>1, <2>2
    <3>2. after = [exists |-> TRUE, max_seq |-> top, root |-> new]
      BY <3>1, Zenon DEF simulated_state
    <3>3. /\ new \in Seq(LaneTxs) /\ Len(new) = top
          /\ \A s \in 1..old : new[s] = lane_state[n].root[s]
          /\ \A s \in (old + 1)..top : new[s] = certs[s - first + 1].tx
      <4>1. PICK root \in Seq(LaneTxs) : root = lane_state[n].root
        BY <1>1
      <4>2. Len(root) = old /\ first <= Len(root) + 1 /\ Len(root) < first + Len(certs) - 1
        BY <1>1, <1>2, <2>2, <4>1
      <4>3. LET more == root \o Root(SubSeq(certs, Len(root) + 2 - first, Len(certs)))
                end == first + Len(certs) - 1
            IN  /\ more \in Seq(LaneTxs) /\ Len(more) = end
                /\ \A s \in 1..Len(root) : more[s] = root[s]
                /\ \A s \in (Len(root) + 1)..end : more[s] = certs[s - first + 1].tx
        BY <4>2, ExtendedRoot, Zenon
      <4> QED
        BY <3>1, <4>1, <4>2, <4>3, Zenon
    <3> HIDE DEF new
    <3>4. top \in Nat
      BY <1>9
    <3> HIDE DEF after, top
    <3>5. after \in LaneStates /\ after.max_seq = top /\ after.root = new /\ after.exists
      BY <3>2, <3>3, <3>4 DEF LaneStates
    <3> QED
      BY <3>3, <3>5
  <2> QED
    BY <1>1, <2>1, <2>2
<1> HIDE DEF after, top
<1>11. /\ lane_state' \in [LaneNodes -> LaneStates] /\ lane_state'[n] = after
       /\ \A m \in LaneNodes \ {n} : lane_state'[m] = lane_state[m]
  BY <1>1, <1>4, <1>10
<1>12. LanesTypeOK'
  BY <1>8, <1>11 DEF LanesInv, LanesTypeOK
<1>13. ASSUME NEW m \in LaneNodes \ {n} PROVE LaneInv(m)'
  <2>1. LedgerGrows /\ signed \subseteq signed' /\ signed' \subseteq Certs
    BY LedgerSame DEF LanesInv, SignedInv
  <2> QED
    BY <1>8, <1>11, <1>13, <2>1, LaneKept
<1>14. LaneInv(n)'
  <2>1. \A s \in 1..old : stored'[n][s] = stored[n][s] /\ lane_state'[n].root[s] = lane_state[n].root[s]
    <3> SUFFICES ASSUME NEW s \in 1..old PROVE row[s] = stored[n][s]
      BY <1>8, <1>10, <1>11
    <3>1. s \in 1..MaxSeq
      BY <1>1
    <3>2. CASE s \in first..(first + k - 1)
      BY <1>2, <1>5, <1>7, <3>1, <3>2
    <3> QED
      BY <1>7, <3>1, <3>2
  <2>2. \A s \in (old + 1)..top :
               /\ stored'[n][s] \in signed' /\ LaneSeq(stored'[n][s]) = s
               /\ stored'[n][s].epoch = EpochOf(n) /\ lane_state'[n].root[s] = stored'[n][s].tx
    <3> SUFFICES ASSUME NEW s \in (old + 1)..top
                 PROVE  /\ row[s] \in signed /\ LaneSeq(row[s]) = s
                        /\ row[s].epoch = EpochOf(n) /\ after.root[s] = row[s].tx
      BY <1>8, <1>11
    <3>0. s \in Nat /\ s >= old + 1 /\ s <= top /\ s \in (old + 1)..top
      BY <1>1, <1>9
    <3>1. s \in 1..MaxSeq /\ s \in first..(first + k - 1)
      <4>1. s \in first..(first + k - 1)
        BY <1>9, <3>0, Zenon
      <4> QED
        BY <1>1, <1>9, <3>0, <4>1
    <3>2. row[s] = certs[s - first + 1]
      BY <1>7, <3>1
    <3> QED
      BY <1>5, <1>10, <3>1, <3>2
  <2>3. \A s \in (top + 1)..MaxSeq : stored'[n][s] = stored[n][s]
    <3> SUFFICES ASSUME NEW s \in (top + 1)..MaxSeq PROVE row[s] = stored[n][s]
      BY <1>8
    <3>1. s \in 1..MaxSeq /\ s \notin first..(first + k - 1)
      BY <1>1, <1>9
    <3> QED
      BY <1>7, <3>1
  <2>5. /\ lane_state'[n].max_seq = top /\ Len(lane_state'[n].root) = top
        /\ (~lane_state'[n].exists => top = 0) /\ signed \subseteq signed'
    BY <1>10, <1>11
  <2> QED
    BY <1>9, <2>1, <2>2, <2>3, <2>5, Appended, Zenon
<1> QED
  BY <1>12, <1>13, <1>14, Zenon

\* A range answer is stored, or refused.
LEMMA RangeKeeps ==
    ASSUME LanesInv, NEW x \in Pairs, handle_ingress_range(x[1], x[2])
    PROVE  LanesInv'
<1> DEFINE n == x[1]
           r == range_request[x]
           a == range_answer[x]
           taken == /\ r # <<>> /\ r[1] = a.from /\ a.from + Len(a.certs) - 1 <= r[2]
                    /\ Simulated(n, a.from, a.certs)
                    /\ \A i \in 1..Len(a.certs) : a.certs[i].epoch = LaneEpoch(applied[n] + 1)
           after == simulated_state(n, a.from, a.certs, Len(a.certs))
<1>1. /\ truncating[n] = <<>> /\ a # <<>>
      /\ range_answer' = [range_answer EXCEPT ![x] = <<>>]
      /\ IF taken
         THEN /\ Store(n, a.from, a.certs, after)
              /\ range_request' = [range_request EXCEPT ![x] = <<>>]
         ELSE UNCHANGED <<stored, lane_state, range_request>>
      /\ UNCHANGED <<certifier, signed, ledger, applied, truncating, cut, laneFaults>>
  BY PairOf, Zenon DEF handle_ingress_range, Free
<1>2. n \in LaneNodes /\ RangesInv /\ a \in Answers
  BY <1>1, PairOf DEF LanesInv, RangesInv
<1>3. /\ a.from \in Nat \ {0} /\ a.certs \in Seq(Certs)
      /\ \A i \in 1..Len(a.certs) : a.certs[i] \in signed /\ LaneSeq(a.certs[i]) = a.from + i - 1
  BY <1>1, <1>2 DEF RangesInv, Answers
<1>4. range_request' \in [Pairs -> {<<>>} \cup (Nat \ {0}) \X Nat]
  <2>1. CASE taken
    BY <1>1, <1>2, <2>1 DEF RangesInv
  <2>2. CASE ~taken
    BY <1>1, <1>2, <2>2 DEF RangesInv
  <2> QED
    BY <2>1, <2>2
<1>5. RangesInv'
  <2>1. /\ range_answer' \in [Pairs -> {<<>>} \cup Answers]
        /\ \A y \in Pairs : range_answer'[y] # <<>> => range_answer'[y] = range_answer[y]
    BY <1>1, <1>2 DEF RangesInv
  <2>2. \A y \in Pairs : range_answer'[y] # <<>> =>
         \A i \in 1..Len(range_answer'[y].certs) :
             /\ range_answer'[y].certs[i] \in signed
             /\ LaneSeq(range_answer'[y].certs[i]) = range_answer'[y].from + i - 1
    BY <1>2, <2>1 DEF RangesInv
  <2> QED
    BY <1>1, <1>4, <2>1, <2>2 DEF RangesInv, LaneSeq
<1>6. CASE ~taken
  BY <1>1, <1>5, <1>6, LanesSame
<1>7. CASE taken
  <2>1. Store(n, a.from, a.certs, after)
    BY <1>1, <1>7
  <2>2. CASE Len(a.certs) = 0
    <3>1. after = lane_state[n]
      BY <2>2, Zenon DEF simulated_state
    <3>2. \A s \in 1..MaxSeq : s \notin a.from..(a.from + Len(a.certs) - 1)
      BY <1>3, <2>2
    <3>3. stored \in [LaneNodes -> [1..MaxSeq -> Certs \cup {NoCert}]] /\ lane_state \in [LaneNodes -> LaneStates]
      BY DEF LanesInv, LanesTypeOK
    <3>4. stored' = stored /\ lane_state' = lane_state
      <4>1. stored[n] = [s \in 1..MaxSeq |-> IF s \in a.from..(a.from + Len(a.certs) - 1)
                                             THEN a.certs[s - a.from + 1] ELSE stored[n][s]]
        BY <1>2, <3>2, <3>3
      <4>2. stored' = [stored EXCEPT ![n] = stored[n]] /\ lane_state' = [lane_state EXCEPT ![n] = lane_state[n]]
        BY <2>1, <3>1, <4>1, Zenon DEF Store
      <4> QED
        BY <4>2, <3>3
    <3> QED
      BY <1>1, <1>5, <3>4, LanesSame
  <2>3. CASE Len(a.certs) > 0
    <3>1. PICK first \in Nat \ {0}, certs \in Seq(Certs) : first = a.from /\ certs = a.certs
      BY <1>3
    <3>2. /\ \A i \in 1..Len(certs) : certs[i] \in signed /\ LaneSeq(certs[i]) = first + i - 1
          /\ Simulated(n, first, certs) /\ Len(certs) > 0 /\ truncating[n] = <<>>
          /\ \A i \in 1..Len(certs) : certs[i].epoch = EpochOf(n)
          /\ Store(n, first, certs, simulated_state(n, first, certs, Len(certs)))
      BY <1>1, <1>3, <1>7, <2>1, <2>3, <3>1, Zenon DEF EpochOf
    <3>3. /\ signed' = signed /\ certifier' = certifier /\ ledger' = ledger /\ applied' = applied
          /\ truncating' = truncating /\ cut' = cut /\ laneFaults' = laneFaults
      BY <1>1
    <3>4. LanesTypeOK' /\ \A m \in LaneNodes : LaneInv(m)'
      BY <1>2, <3>1, <3>2, <3>3, RangeAppended, Zenon
    <3> QED
      BY <1>5, <3>3, <3>4, SharedKept DEF LanesInv
  <2> QED
    BY <1>3, <2>2, <2>3
<1> QED
  BY <1>6, <1>7

\* The next block is finalized, with the next record or without.
LEMMA FinalizeKeeps ==
    ASSUME LanesInv, NEW certs \in Seq(signed), Len(certs) <= 1, FinalizeLaneBlock(certs)
    PROVE  LanesInv'
<1> DEFINE records == ledger.records
<1>0. PICK k \in Nat : k = Len(ledger.next)
  BY DEF LanesInv, LedgerInv
<1>m. PICK m \in Nat : m = Len(certs)
  OBVIOUS
<1>1. /\ ledger' = [records |-> records \o certs, next |-> Append(ledger.next, Len(records) + m)]
      /\ \A i \in 1..m : certs[i].prev = Root(records) /\ certs[i].epoch = LaneEpoch(k + 1)
      /\ UNCHANGED <<certifier, signed, stored, lane_state, range_request, range_answer, applied, truncating, cut, laneFaults>>
  BY <1>0, <1>m DEF FinalizeLaneBlock
<1>2. /\ records \in Seq(Certs) /\ ledger.next \in Seq(Nat) /\ Len(ledger.next) = k /\ m \in 0..1 /\ m = Len(certs) /\ signed \subseteq Certs
      /\ Len(records) \in Nat /\ LedgerInv /\ RangesInv
  <2>1. m \in 0..1 /\ m = Len(certs)
    BY <1>m
  <2>2. LedgerInv /\ RangesInv /\ signed \subseteq Certs
    BY DEF LanesInv, SignedInv
  <2>3. records \in Seq(Certs) /\ ledger.next \in Seq(Nat)
    BY <2>2 DEF LedgerInv
  <2> QED
    BY <1>0, <2>1, <2>2, <2>3
<1>3. certs \in Seq(Certs)
  BY <1>2
<1>4. ledger'.records = records \o certs /\ ledger'.next = Append(ledger.next, Len(records) + m)
  BY <1>1
<1>5. /\ ledger'.records \in Seq(Certs) /\ Len(ledger'.records) = Len(records) + m
      /\ \A i \in 1..Len(records) : ledger'.records[i] = records[i]
      /\ \A i \in (Len(records) + 1)..(Len(records) + m) : ledger'.records[i] = certs[i - Len(records)]
  BY <1>2, <1>3, <1>4
<1>6. /\ ledger'.next \in Seq(Nat) /\ Len(ledger'.next) = k + 1
      /\ \A h \in 1..k : ledger'.next[h] = ledger.next[h]
      /\ ledger'.next[k + 1] = Len(records) + m
  <2>1. PICK next \in Seq(Nat) : next = ledger.next
    BY <1>2
  <2>2. PICK v \in Nat : v = Len(records) + m
    BY <1>2
  <2>3. ledger'.next = Append(next, v) /\ Len(next) = k
    BY <1>2, <1>4, <2>1, <2>2
  <2> QED
    BY <2>1, <2>2, <2>3
<1>7. \A h \in 0..k : FinalizedSeq(h)' = FinalizedSeq(h)
  BY <1>6 DEF FinalizedSeq
<1>8. FinalizedSeq(k + 1)' = Len(records) + m
  BY <1>2, <1>6 DEF FinalizedSeq
<1>9. LedgerGrows
  BY <1>2, <1>5, <1>6, <1>7 DEF LedgerGrows
<1>10. \A i \in 1..m : i = 1 /\ certs[i] \in signed /\ LaneSeq(certs[i]) = Len(records) + 1 /\ certs[i].epoch = LaneEpoch(k + 1)
  <2>1. Len(Root(records)) = Len(records)
    <3>1. \A i \in 1..Len(records) : records[i] \in Certs
      BY <1>2
    <3> QED
      BY <1>2, <3>1, TxsOf, Zenon DEF Root
  <2> QED
    BY <1>1, <1>2, <2>1, SMTT(20) DEF LaneSeq
<1>11. LedgerInv'
  <2>1. ledger' \in [records : Seq(Certs), next : Seq(Nat)]
    BY <1>1, <1>4, <1>5, <1>6
  <2>2. \A i \in 1..Len(ledger'.records) : ledger'.records[i] \in signed /\ LaneSeq(ledger'.records[i]) = i
    <3> SUFFICES ASSUME NEW i \in 1..(Len(records) + m)
                 PROVE  ledger'.records[i] \in signed /\ LaneSeq(ledger'.records[i]) = i
      BY <1>5
    <3>1. CASE i \in 1..Len(records)
      BY <1>2, <1>5, <3>1 DEF LedgerInv
    <3>2. CASE i \notin 1..Len(records)
      <4>1. m = 1 /\ i = Len(records) + 1 /\ i - Len(records) = 1
        BY <1>2, <3>2
      <4> QED
        BY <1>2, <1>5, <1>10, <4>1
    <3> QED
      BY <3>1, <3>2
  <2>3. FinalizedSeq(k + 1)' = Len(ledger'.records)
    BY <1>5, <1>8
  <2>5. ASSUME NEW i \in 1..(Len(records) + m), NEW j \in 1..(i - 1)
        PROVE  ledger'.records[i].prev[j] = ledger'.records[j].tx
    <3>1. j \in 1..Len(records) /\ ledger'.records[j] = records[j]
      <4>1. Len(records) \in Nat /\ m \in 0..1
        BY <1>2
      <4> HIDE DEF records
      <4>2. j \in 1..Len(records)
        BY <2>5, <4>1
      <4> QED
        BY <1>5, <4>2
    <3>2. CASE i \in 1..Len(records)
      BY <1>2, <1>5, <2>5, <3>1, <3>2 DEF LedgerInv, LinkedInv
    <3>3. CASE i \notin 1..Len(records)
      <4>1. m = 1 /\ i = Len(records) + 1 /\ i - Len(records) = 1
        <5>1. Len(records) \in Nat /\ m \in 0..1
          BY <1>2
        <5> HIDE DEF records
        <5> QED
          BY <3>3, <5>1
      <4>2. ledger'.records[i].prev = Root(records)
        BY <1>1, <1>2, <1>5, <4>1
      <4> QED
        BY <3>1, <4>2 DEF Root
    <3> QED
      BY <3>2, <3>3
  <2>6. LinkedInv'
    BY <1>5, <2>5 DEF LinkedInv
  <2>4. ASSUME NEW h \in 1..(k + 1)
        PROVE  /\ ledger'.next[h] \in {FinalizedSeq(h - 1)', FinalizedSeq(h - 1)' + 1}
               /\ ledger'.next[h] <= Len(ledger'.records)
               /\ ledger'.next[h] = FinalizedSeq(h - 1)' + 1 => ledger'.records[FinalizedSeq(h - 1)' + 1].epoch = LaneEpoch(h)
    <3>0. h - 1 \in 0..k /\ h - 1 \in 0..Len(ledger.next)
      BY <1>2, <2>4
    <3>1. FinalizedSeq(h - 1)' = FinalizedSeq(h - 1) /\ FinalizedSeq(h - 1) \in 0..Len(records)
      BY <1>2, <1>7, <3>0, RootOfFinalized
    <3>2. CASE h \in 1..k
      <4>1. /\ ledger.next[h] \in {FinalizedSeq(h - 1), FinalizedSeq(h - 1) + 1}
            /\ ledger.next[h] <= Len(records) /\ ledger'.next[h] = ledger.next[h]
            /\ ledger.next[h] = FinalizedSeq(h - 1) + 1 => records[FinalizedSeq(h - 1) + 1].epoch = LaneEpoch(h)
        BY <1>2, <1>6, <3>2 DEF LedgerInv
      <4>2. ledger.next[h] = FinalizedSeq(h - 1) + 1 => FinalizedSeq(h - 1) + 1 \in 1..Len(records)
        BY <4>1, <3>1
      <4>3. ledger'.next[h] = FinalizedSeq(h - 1) + 1 => ledger'.records[FinalizedSeq(h - 1) + 1].epoch = LaneEpoch(h)
        BY <1>5, <4>1, <4>2
      <4>4. ledger'.next[h] <= Len(ledger'.records)
        BY <1>2, <1>5, <3>1, <4>1, SMTT(20)
      <4> QED
        BY <3>1, <4>1, <4>3, <4>4
    <3>3. CASE h = k + 1
      <4>1. FinalizedSeq(h - 1) = Len(records) /\ ledger'.next[h] = Len(records) + m
        BY <1>2, <1>6, <3>3 DEF LedgerInv
      <4>2. m = 1 => ledger'.records[Len(records) + 1].epoch = LaneEpoch(h)
        BY <1>2, <1>5, <1>10, <3>3
      <4> QED
        BY <1>2, <1>5, <3>1, <4>1, <4>2
    <3> QED
      BY <1>2, <3>2, <3>3
  <2> QED
    BY <1>1, <1>6, <2>1, <2>2, <2>3, <2>4, <2>6 DEF LedgerInv, LaneSeq, LaneEpoch
<1>12. SignedInv' /\ RangesInv' /\ LanesTypeOK' /\ DOMAIN certifier' \subseteq Nat \ {0}
  BY <1>1, RangesKept DEF LanesInv, SignedInv, LanesTypeOK, LaneSeq
<1>13. ASSUME NEW n \in LaneNodes PROVE LaneInv(n)'
  <2>1. signed \subseteq signed' /\ signed' \subseteq Certs /\ (n \notin cut' => n \notin cut)
    BY <1>1, <1>2
  <2> QED
    BY <1>1, <1>9, <2>1, LaneKept
<1> QED
  BY <1>11, <1>12, <1>13 DEF LanesInv

\* What a step that is local to n starts from.
LEMMA LaneFacts ==
    ASSUME LanesInv, NEW n \in LaneNodes
    PROVE  /\ StoredInv(n) /\ TruncatingInv(n) /\ WholeInv(n) /\ LedgerInv /\ SignedInv
           /\ applied[n] \in 0..Len(ledger.next) /\ applied[n] \in Nat /\ Len(ledger.next) \in Nat
           /\ lane_state[n] \in LaneStates /\ lane_state[n].max_seq \in Nat /\ MaxSeq \in Nat
           /\ lane_state[n].root \in Seq(LaneTxs) /\ Len(ledger.records) \in Nat
           /\ Cursor(n) \in 0..Len(ledger.records) /\ Cursor(n) <= lane_state[n].max_seq
           /\ EpochOf(n) \in Nat \ {0}
           /\ \A s \in 1..MaxSeq : stored[n][s] \in Certs \cup {NoCert}
           /\ truncating[n] \in {<<>>} \cup Truncations
<1>1. StoredInv(n) /\ TruncatingInv(n) /\ WholeInv(n) /\ LedgerInv /\ SignedInv
  BY DEF LanesInv, LaneInv
<1>2. /\ applied[n] \in Nat /\ lane_state[n] \in LaneStates /\ truncating[n] \in {<<>>} \cup Truncations
      /\ stored[n] \in [1..MaxSeq -> Certs \cup {NoCert}]
  BY DEF LanesInv, LanesTypeOK
<1>3. Len(ledger.next) \in Nat /\ Len(ledger.records) \in Nat
  BY <1>1 DEF LedgerInv
<1>4. applied[n] \in 0..Len(ledger.next)
  BY <1>1, <1>2, <1>3 DEF StoredInv
<1>5. Cursor(n) \in 0..Len(ledger.records)
  BY <1>1, <1>4, RootOfFinalized DEF Cursor
<1>6. EpochOf(n) \in Nat \ {0}
  <2>1. applied[n] + 1 \in Nat /\ applied[n] + 1 > 0
    BY <1>2
  <2> QED
    BY <2>1, EpochsGrow DEF EpochOf
<1>7. /\ lane_state[n].max_seq \in Nat /\ lane_state[n].root \in Seq(LaneTxs)
      /\ Cursor(n) <= lane_state[n].max_seq /\ MaxSeq \in Nat
  BY <1>1, <1>2, LaneBounds DEF LaneStates, StoredInv
<1> QED
  BY <1>1, <1>2, <1>3, <1>4, <1>5, <1>6, <1>7

\* A step that is local to n leaves the lanes of the others as they are.
LEMMA OnlyOneLane ==
    ASSUME LanesInv, NEW n \in LaneNodes, NEW m \in LaneNodes \ {n},
           UNCHANGED <<certifier, signed, ledger>>, m \notin cut' => m \notin cut,
           stored'[m] = stored[m], lane_state'[m] = lane_state[m], applied'[m] = applied[m],
           truncating'[m] = truncating[m]
    PROVE  LaneInv(m)'
<1>1. LedgerGrows /\ signed \subseteq signed' /\ signed' \subseteq Certs
  BY LedgerSame DEF LanesInv, SignedInv
<1> QED
  BY <1>1, LaneKept

\* The truncation goes on to the next record.
LEMMA NextErased ==
    ASSUME NEW v \in Truncations
    PROVE  LET u == [v EXCEPT !.next = v.next + 1]
           IN  /\ u \in Truncations /\ u.keep = v.keep /\ u.root = v.root
               /\ u.block = v.block /\ u.next = v.next + 1
  BY DEF Truncations

\* One record of a truncated suffix is erased.
LEMMA EraseKeeps ==
    ASSUME LanesInv, NEW n \in LaneNodes, TruncateStep(n), truncating[n].next <= lane_state[n].max_seq
    PROVE  LanesInv'
<1> DEFINE t == truncating[n]
<1>1. /\ t \notin {<<>>, Replaced}
      /\ stored' = [stored EXCEPT ![n][t.next] = NoCert]
      /\ truncating' = [truncating EXCEPT ![n].next = @ + 1]
      /\ UNCHANGED <<lane_state, certifier, signed, range_request, range_answer, ledger, applied, cut, laneFaults>>
  BY DEF TruncateStep
<1>2. /\ StoredInv(n) /\ TruncatingInv(n) /\ WholeInv(n) /\ LedgerInv /\ SignedInv
      /\ applied[n] \in 0..Len(ledger.next) /\ lane_state[n].max_seq \in Nat /\ MaxSeq \in Nat
      /\ Cursor(n) \in 0..Len(ledger.records) /\ Len(ledger.records) \in Nat /\ EpochOf(n) \in Nat \ {0}
      /\ Cursor(n) <= lane_state[n].max_seq
  BY LaneFacts
<1>3. /\ t \in Truncations /\ t.keep = Cursor(n) /\ t.root = FinalizedRoot(applied[n]) /\ t.next \in Nat
      /\ t.next \in (Cursor(n) + 1)..(lane_state[n].max_seq + 1)
      /\ \A s \in (Cursor(n) + 1)..(t.next - 1) : stored[n][s] = NoCert
  BY <1>1, <1>2, LaneFacts DEF TruncatingInv, Truncations
<1> DEFINE u == [t EXCEPT !.next = t.next + 1]
           row == [stored[n] EXCEPT ![t.next] = NoCert]
<1>4. /\ u \in Truncations /\ u.keep = t.keep /\ u.root = t.root /\ u.block = t.block
      /\ u.next = t.next + 1 /\ u # <<>> /\ u # Replaced
  <2>1. u \in Truncations /\ u.keep = t.keep /\ u.root = t.root /\ u.block = t.block /\ u.next = t.next + 1
    BY <1>3, NextErased, Zenon
  <2>2. u.next # 0 /\ Replaced.next = 0
    BY <1>3, <2>1 DEF Replaced
  <2> QED
    BY <2>1, <2>2, LaneBounds
<1>5. /\ truncating' \in [LaneNodes -> {<<>>} \cup Truncations] /\ truncating'[n] = u
      /\ \A m \in LaneNodes \ {n} : truncating'[m] = truncating[m]
  <2>1. truncating \in [LaneNodes -> {<<>>} \cup Truncations] /\ truncating' = [truncating EXCEPT ![n] = u]
    BY <1>1 DEF LanesInv, LanesTypeOK
  <2> HIDE DEF u
  <2> QED
    BY <1>4, <2>1
<1>6. /\ stored' \in [LaneNodes -> [1..MaxSeq -> Certs \cup {NoCert}]] /\ stored'[n] = row
      /\ \A m \in LaneNodes \ {n} : stored'[m] = stored[m]
      /\ \A s \in 1..MaxSeq : row[s] = IF s = t.next THEN NoCert ELSE stored[n][s]
  <2>1. stored \in [LaneNodes -> [1..MaxSeq -> Certs \cup {NoCert}]] /\ stored' = [stored EXCEPT ![n] = row]
    BY <1>1 DEF LanesInv, LanesTypeOK
  <2>2. row \in [1..MaxSeq -> Certs \cup {NoCert}] /\ \A s \in 1..MaxSeq : row[s] = IF s = t.next THEN NoCert ELSE stored[n][s]
    BY <2>1
  <2> HIDE DEF row
  <2> QED
    BY <2>1, <2>2
<1> HIDE DEF u, row, t
<1>7. LanesTypeOK' /\ SignedInv' /\ LedgerInv' /\ RangesInv' /\ DOMAIN certifier' \subseteq Nat \ {0}
  <2>1. LanesTypeOK'
    BY <1>1, <1>5, <1>6 DEF LanesInv, LanesTypeOK
  <2> QED
    BY <1>1, <2>1, SharedKept, RangesKept DEF LanesInv
<1>8. Cursor(n)' = Cursor(n) /\ EpochOf(n)' = EpochOf(n) /\ FinalizedRoot(applied[n])' = FinalizedRoot(applied[n])
  BY <1>1 DEF Cursor, EpochOf, LaneEpoch, FinalizedRoot, FinalizedSeq
<1>9. t.next \in 1..MaxSeq /\ Cursor(n) <= MaxSeq /\ lane_state[n].max_seq <= MaxSeq /\ t.next > Cursor(n) /\ t.next <= lane_state[n].max_seq
  BY <1>2, <1>3, SMTT(20) DEF StoredInv, t
<1>10. \A s \in 1..MaxSeq : row[s] # NoCert => stored[n][s] = row[s] /\ s # t.next
  BY <1>6
<1>11. StoredInv(n)'
  <2>1. \A s \in 1..Cursor(n) : s \in 1..MaxSeq /\ row[s] = stored[n][s]
    BY <1>2, <1>3, <1>6, <1>9
  <2>2. \A s \in 1..Cursor(n) : row[s] = ledger.records[s]
    BY <1>2, <2>1 DEF StoredInv
  <2>3. \A s \in 1..MaxSeq : row[s] # NoCert =>
         /\ row[s] \in signed /\ LaneSeq(row[s]) = s /\ s <= lane_state[n].max_seq
         /\ row[s].epoch <= EpochOf(n)
    BY <1>2, <1>10 DEF StoredInv
  <2>4. \A s, v \in 1..MaxSeq : s < v /\ row[s] # NoCert /\ row[v] # NoCert => row[s].epoch <= row[v].epoch
    BY <1>2, <1>10 DEF StoredInv
  <2> QED
    BY <1>1, <1>2, <1>6, <1>8, <2>2, <2>3, <2>4 DEF StoredInv, LaneSeq
<1>12. TruncatingInv(n)'
  <2>1. ASSUME NEW s \in (Cursor(n) + 1)..t.next PROVE row[s] = NoCert
    <3>1. s \in 1..MaxSeq /\ (s = t.next \/ s \in (Cursor(n) + 1)..(t.next - 1))
      BY <1>2, <1>3, <1>9, <2>1, SMTT(20)
    <3> QED
      BY <1>3, <1>6, <3>1
  <2>2. u.next \in (Cursor(n) + 1)..(lane_state[n].max_seq + 1) /\ u.next - 1 = t.next
    BY <1>2, <1>3, <1>4, <1>9, SMTT(20)
  <2>3. \A s \in 1..MaxSeq : s = Cursor(n) + 1 => row[s] = NoCert
    BY <1>2, <1>9, <2>1, SMTT(20)
  <2>4. /\ u.keep = Cursor(n) /\ u.root = FinalizedRoot(applied[n])
        /\ \A s \in (Cursor(n) + 1)..(u.next - 1) : row[s] = NoCert
    BY <1>3, <1>4, <2>1, <2>2
  <2>5. applied'[n] = applied[n] /\ lane_state'[n] = lane_state[n]
    BY <1>1
  <2> QED
    BY <1>5, <1>6, <1>8, <2>2, <2>3, <2>4, <2>5 DEF TruncatingInv
<1>14. WholeInv(n)'
  <2>1. n \notin cut =>
        \A s \in 1..lane_state[n].max_seq : row[s] = NoCert => s \in (Cursor(n) + 1)..(u.next - 1)
    <3> SUFFICES ASSUME n \notin cut, NEW s \in 1..lane_state[n].max_seq, row[s] = NoCert
                 PROVE  s \in (Cursor(n) + 1)..(u.next - 1)
      OBVIOUS
    <3>1. CASE s = t.next
      BY <1>2, <1>3, <1>4, <1>9, <3>1
    <3>2. CASE s # t.next
      <4>1. stored[n][s] = NoCert
        BY <1>2, <1>6, <1>9, <3>2
      <4>2. s \in (Cursor(n) + 1)..(t.next - 1)
        BY <1>1, <1>2, <4>1 DEF WholeInv, t
      <4> QED
        BY <1>2, <1>3, <1>4, <4>2
    <3> QED
      BY <3>1, <3>2
  <2>2. truncating'[n] \notin {<<>>, Replaced} /\ Replaced' = Replaced
    BY <1>4, <1>5 DEF Replaced
  <2> QED
    BY <1>1, <1>5, <1>6, <1>8, <2>1, <2>2 DEF WholeInv
<1>15. ASSUME NEW m \in LaneNodes \ {n} PROVE LaneInv(m)'
  BY <1>1, <1>5, <1>6, OnlyOneLane
<1> QED
  BY <1>7, <1>11, <1>12, <1>14, <1>15 DEF LanesInv, LaneInv

\* The truncation is over and the lane state is written.
LEMMA TruncatedKeeps ==
    ASSUME LanesInv, NEW n \in LaneNodes, TruncateStep(n), ~(truncating[n].next <= lane_state[n].max_seq)
    PROVE  LanesInv'
<1> DEFINE t == truncating[n]
<1>1. /\ t \notin {<<>>, Replaced}
      /\ lane_state' = [lane_state EXCEPT ![n] = [exists |-> TRUE, max_seq |-> t.keep, root |-> t.root]]
      /\ truncating' = [truncating EXCEPT ![n] = IF t.block THEN Replaced ELSE <<>>]
      /\ UNCHANGED <<stored, certifier, signed, range_request, range_answer, ledger, applied, cut, laneFaults>>
  BY DEF TruncateStep, Rewound
<1>2. /\ StoredInv(n) /\ TruncatingInv(n) /\ WholeInv(n) /\ LedgerInv /\ SignedInv
      /\ applied[n] \in 0..Len(ledger.next) /\ lane_state[n].max_seq \in Nat /\ MaxSeq \in Nat
      /\ Cursor(n) \in 0..Len(ledger.records) /\ Len(ledger.records) \in Nat /\ EpochOf(n) \in Nat \ {0}
      /\ Cursor(n) <= lane_state[n].max_seq
  BY LaneFacts
<1>3. /\ t \in Truncations /\ t.keep = Cursor(n) /\ t.root = FinalizedRoot(applied[n])
      /\ t.next \in (Cursor(n) + 1)..(lane_state[n].max_seq + 1)
      /\ \A s \in (Cursor(n) + 1)..(t.next - 1) : stored[n][s] = NoCert
  BY <1>1, <1>2, LaneFacts DEF TruncatingInv
<1>4. t.next = lane_state[n].max_seq + 1
  BY <1>2, <1>3, SMTT(20)
<1> HIDE DEF t
<1>5. \A s \in (Cursor(n) + 1)..lane_state[n].max_seq : stored[n][s] = NoCert
  BY <1>2, <1>3, <1>4
<1> DEFINE root == FinalizedRoot(applied[n])
           new == [exists |-> TRUE, max_seq |-> Cursor(n), root |-> root]
<1>6. root \in Seq(LaneTxs) /\ Len(root) = Cursor(n) /\ \A s \in 1..Cursor(n) : root[s] = ledger.records[s].tx
  <2>1. root \in Seq(LaneTxs) /\ Len(root) = Cursor(n)
    BY <1>2, RootOfFinalized DEF Cursor
  <2>2. \A s \in 1..Cursor(n) : root[s] = ledger.records[s].tx
    BY <1>2 DEF FinalizedRoot, Cursor
  <2> QED
    BY <2>1, <2>2
<1> HIDE DEF root
<1>7. new \in LaneStates /\ new.exists /\ new.max_seq = Cursor(n) /\ new.root = root
  BY <1>2, <1>6 DEF LaneStates
<1>8. lane_state' = [lane_state EXCEPT ![n] = new]
  BY <1>1, <1>3 DEF root
<1> HIDE DEF new
<1>9. /\ lane_state' \in [LaneNodes -> LaneStates] /\ lane_state'[n] = new
      /\ \A m \in LaneNodes \ {n} : lane_state'[m] = lane_state[m]
  BY <1>7, <1>8 DEF LanesInv, LanesTypeOK
<1>10. PICK u \in {<<>>, Replaced} : truncating' = [truncating EXCEPT ![n] = u]
  BY <1>1
<1>11. /\ truncating' \in [LaneNodes -> {<<>>} \cup Truncations] /\ truncating'[n] \in {<<>>, Replaced}
       /\ \A m \in LaneNodes \ {n} : truncating'[m] = truncating[m]
  BY <1>10, LaneBounds DEF LanesInv, LanesTypeOK
<1>12. LanesTypeOK' /\ SignedInv' /\ LedgerInv' /\ RangesInv' /\ DOMAIN certifier' \subseteq Nat \ {0}
  <2>1. LanesTypeOK'
    BY <1>1, <1>9, <1>11 DEF LanesInv, LanesTypeOK
  <2> QED
    BY <1>1, <2>1, SharedKept, RangesKept DEF LanesInv
<1>13. Cursor(n)' = Cursor(n) /\ EpochOf(n)' = EpochOf(n) /\ Replaced' = Replaced
  BY <1>1 DEF Cursor, EpochOf, LaneEpoch, FinalizedSeq, Replaced
<1>14. \A s \in 1..MaxSeq : stored[n][s] # NoCert => s <= Cursor(n)
  <2> SUFFICES ASSUME NEW s \in 1..MaxSeq, stored[n][s] # NoCert, ~(s <= Cursor(n)) PROVE FALSE
    OBVIOUS
  <2>1. s <= lane_state[n].max_seq
    BY <1>2 DEF StoredInv
  <2> QED
    BY <1>2, <1>5, <2>1, SMTT(20)
<1>15. StoredInv(n)'
  <2>1. Cursor(n) <= MaxSeq
    BY <1>2 DEF StoredInv
  <2>2. /\ applied'[n] = applied[n] /\ stored'[n] = stored[n] /\ signed' = signed /\ ledger' = ledger
        /\ lane_state'[n].max_seq = Cursor(n) /\ Len(lane_state'[n].root) = Cursor(n) /\ lane_state'[n].exists
    BY <1>1, <1>6, <1>7, <1>9
  <2> QED
    BY <1>2, <1>13, <1>14, <2>1, <2>2 DEF StoredInv, LaneSeq
<1>16. TruncatingInv(n)'
  <2>1. \A s \in 1..MaxSeq : s = Cursor(n) + 1 => stored'[n][s] = NoCert
    BY <1>1, <1>2, <1>14
  <2> QED
    BY <1>11, <1>13, <2>1 DEF TruncatingInv
<1>18. WholeInv(n)'
  <2>1. ASSUME NEW s \in 1..Cursor(n) PROVE stored[n][s] # NoCert /\ root[s] = stored[n][s].tx
    <3>1. stored[n][s] = ledger.records[s] /\ s \in 1..Len(ledger.records)
      BY <1>2, <2>1 DEF StoredInv
    <3>2. ledger.records[s] \in Certs
      BY <1>2, <3>1 DEF LedgerInv
    <3> QED
      BY <1>6, <3>1, <3>2, LaneBounds
  <2> QED
    BY <1>1, <1>7, <1>9, <1>11, <1>13, <2>1 DEF WholeInv
<1>19. ASSUME NEW m \in LaneNodes \ {n} PROVE LaneInv(m)'
  BY <1>1, <1>9, <1>11, OnlyOneLane
<1> QED
  BY <1>12, <1>15, <1>16, <1>18, <1>19 DEF LanesInv, LaneInv

\* The record after the finalized ones is of an earlier epoch.
StaleAt(h, state, certs) ==
    /\ state.exists /\ state.max_seq > FinalizedSeq(h)
    /\ certs[FinalizedSeq(h) + 1] # NoCert /\ certs[FinalizedSeq(h) + 1].epoch < LaneEpoch(h + 1)

\* The truncation of stale records keeps what is finalized.
IsDrop(t, h) ==
    /\ t \in Truncations /\ t \notin {<<>>, Replaced} /\ t.next = FinalizedSeq(h) + 1
    /\ t.keep = FinalizedSeq(h) /\ t.root = FinalizedRoot(h) /\ t.block = FALSE

\* What drop_stale_unfinalized_ingress_locked decides.
LEMMA Drops ==
    ASSUME LedgerInv, NEW n, NEW h \in 0..Len(ledger.next), NEW state, NEW certs
    PROVE  IF StaleAt(h, state, certs) THEN IsDrop(StaleDrop(n, h, state, certs), h) ELSE StaleDrop(n, h, state, certs) = <<>>
<1> DEFINE drop == [next |-> FinalizedSeq(h) + 1, keep |-> FinalizedSeq(h), root |-> Root(FinalizedCerts(h)), block |-> FALSE]
<1>1. FinalizedSeq(h) \in Nat /\ Root(FinalizedCerts(h)) = FinalizedRoot(h) /\ FinalizedRoot(h) \in Seq(LaneTxs)
  BY RootOfFinalized DEF LedgerInv
<1>2. /\ drop \in Truncations /\ drop.next = FinalizedSeq(h) + 1
      /\ drop.keep = FinalizedSeq(h) /\ drop.root = FinalizedRoot(h) /\ drop.block = FALSE
  BY <1>1 DEF Truncations
<1>3. StaleDrop(n, h, state, certs) = IF StaleAt(h, state, certs) THEN drop ELSE <<>>
  BY Zenon DEF StaleDrop, StaleAt
<1>4. Replaced.block = TRUE
  BY DEF Replaced
<1> HIDE DEF drop
<1>5. IsDrop(drop, h)
  BY <1>2, <1>4, LaneBounds DEF IsDrop
<1> QED
  BY <1>3, <1>5, Zenon

\* A crash, and the drop of stale records at the restart.
LEMMA CrashKeeps ==
    ASSUME LanesInv, NEW n \in LaneNodes, CrashNode(n)
    PROVE  LanesInv'
<1>0. PICK t : t = StaleDrop(n, applied[n], lane_state[n], stored[n])
  OBVIOUS
<1> DEFINE at == Cursor(n) + 1
           stale == /\ lane_state[n].exists /\ lane_state[n].max_seq > Cursor(n)
                    /\ stored[n][at] # NoCert /\ stored[n][at].epoch < EpochOf(n)
<1>1. /\ laneFaults' = laneFaults + 1
      /\ range_request' = [x \in Pairs |-> IF x[1] = n THEN <<>> ELSE range_request[x]]
      /\ truncating' = [truncating EXCEPT ![n] = t]
      /\ cut' = IF truncating[n] \in {<<>>, Replaced} THEN cut ELSE cut \cup {n}
      /\ UNCHANGED <<certifier, signed, stored, lane_state, range_answer, ledger, applied>>
  BY <1>0 DEF CrashNode
<1>2. /\ StoredInv(n) /\ TruncatingInv(n) /\ WholeInv(n) /\ LedgerInv /\ SignedInv
      /\ applied[n] \in 0..Len(ledger.next) /\ lane_state[n].max_seq \in Nat /\ MaxSeq \in Nat
      /\ Cursor(n) \in 0..Len(ledger.records) /\ Len(ledger.records) \in Nat /\ EpochOf(n) \in Nat \ {0}
      /\ Cursor(n) <= lane_state[n].max_seq
      /\ \A s \in 1..MaxSeq : stored[n][s] \in Certs \cup {NoCert}
  BY LaneFacts
<1>3. /\ stale => /\ t \in Truncations /\ t \notin {<<>>, Replaced} /\ t.next = Cursor(n) + 1
                  /\ t.keep = Cursor(n) /\ t.root = FinalizedRoot(applied[n]) /\ t.block = FALSE
      /\ ~stale => t = <<>>
  <2>1. IF StaleAt(applied[n], lane_state[n], stored[n]) THEN IsDrop(t, applied[n]) ELSE t = <<>>
    BY <1>0, <1>2, Drops, Zenon
  <2>2. StaleAt(applied[n], lane_state[n], stored[n]) <=> stale
    BY Zenon DEF StaleAt, Cursor, EpochOf
  <2> QED
    BY <2>1, <2>2, Zenon DEF IsDrop, Cursor
<1>4. t \in {<<>>} \cup Truncations
  BY <1>3
<1>5. /\ truncating' \in [LaneNodes -> {<<>>} \cup Truncations] /\ truncating'[n] = t
      /\ \A m \in LaneNodes \ {n} : truncating'[m] = truncating[m]
  BY <1>1, <1>4 DEF LanesInv, LanesTypeOK
<1>6. laneFaults' \in Nat
  BY <1>1 DEF LanesInv, LanesTypeOK
<1>7. RangesInv'
  <2>1. range_request' \in [Pairs -> {<<>>} \cup (Nat \ {0}) \X Nat]
    BY <1>1 DEF LanesInv, RangesInv
  <2> QED
    BY <1>1, <2>1 DEF LanesInv, RangesInv, LaneSeq
<1>8. LanesTypeOK' /\ SignedInv' /\ LedgerInv' /\ DOMAIN certifier' \subseteq Nat \ {0}
  <2>1. LanesTypeOK'
    BY <1>1, <1>5, <1>6 DEF LanesInv, LanesTypeOK
  <2> QED
    BY <1>1, <2>1, SharedKept
<1>9. Cursor(n)' = Cursor(n) /\ EpochOf(n)' = EpochOf(n) /\ FinalizedRoot(applied[n])' = FinalizedRoot(applied[n])
  BY <1>1 DEF Cursor, EpochOf, LaneEpoch, FinalizedSeq, FinalizedRoot
<1>10. StoredInv(n)'
  BY <1>1, <1>2, <1>9 DEF StoredInv, LaneSeq
<1>11. ASSUME NEW s \in 1..MaxSeq, s = at, stored[n][s] # NoCert
       PROVE  /\ stored[n][s].epoch \in Nat /\ stored[n][s].epoch <= EpochOf(n)
              /\ stale <=> stored[n][s].epoch < EpochOf(n)
  <2>1. stored[n][s].epoch \in Nat /\ stored[n][s].epoch <= EpochOf(n) /\ s <= lane_state[n].max_seq
    BY <1>2, <1>11 DEF StoredInv, Certs
  <2>2. lane_state[n].max_seq > Cursor(n) /\ lane_state[n].exists
    BY <1>2, <1>11, <2>1 DEF StoredInv
  <2> QED
    BY <1>11, <2>1, <2>2
<1>12. stale => at \in 1..MaxSeq
  BY <1>2 DEF StoredInv
<1>13. TruncatingInv(n)'
  <2>1. CASE stale
    <3>1. t.next \in (Cursor(n) + 1)..(lane_state[n].max_seq + 1) /\ \A s \in (Cursor(n) + 1)..(t.next - 1) : FALSE
      BY <1>2, <1>3, <2>1, SMTT(20)
    <3>2. /\ applied'[n] = applied[n] /\ lane_state'[n] = lane_state[n] /\ stored'[n] = stored[n]
      BY <1>1
    <3> QED
      BY <1>3, <1>5, <1>9, <2>1, <3>1, <3>2 DEF TruncatingInv
  <2>2. CASE ~stale
    <3>1. \A s \in 1..MaxSeq : s = at /\ stored[n][s] # NoCert => stored[n][s].epoch = EpochOf(n)
      BY <1>2, <1>11, <2>2
    <3> QED
      BY <1>1, <1>3, <1>5, <1>9, <2>2, <3>1 DEF TruncatingInv
  <2> QED
    BY <2>1, <2>2
<1>15. WholeInv(n)'
  <2> SUFFICES ASSUME n \notin cut' PROVE WholeInv(n)'
    BY DEF WholeInv
  <2>1. truncating[n] \in {<<>>, Replaced} /\ n \notin cut
    BY <1>1
  <2>2. \A s \in 1..lane_state[n].max_seq : stored[n][s] # NoCert /\ lane_state[n].root[s] = stored[n][s].tx
    BY <1>2, <2>1 DEF WholeInv
  <2> QED
    BY <1>1, <2>2 DEF WholeInv
<1>16. ASSUME NEW m \in LaneNodes \ {n} PROVE LaneInv(m)'
  <2>1. m \notin cut' => m \notin cut
    BY <1>1
  <2> QED
    BY <1>1, <1>5, <2>1, OnlyOneLane
<1> QED
  BY <1>7, <1>8, <1>10, <1>13, <1>15, <1>16 DEF LanesInv, LaneInv

\* The record that the next block of n carries.
LEMMA NextRecord ==
    ASSUME LanesInv, NEW n \in LaneNodes, applied[n] + 1 <= Len(ledger.next)
    PROVE  /\ FinalizedSeq(applied[n] + 1) \in {Cursor(n), Cursor(n) + 1}
           /\ FinalizedSeq(applied[n] + 1) \in 0..Len(ledger.records)
           /\ FinalizedSeq(applied[n] + 1) >= Cursor(n) + 1 =>
                /\ FinalizedSeq(applied[n] + 1) = Cursor(n) + 1 /\ Cursor(n) + 1 \in 1..Len(ledger.records)
                /\ Cursor(n) + 1 \in 1..MaxSeq
                /\ ledger.records[Cursor(n) + 1] \in signed /\ ledger.records[Cursor(n) + 1] \in Certs
                /\ LaneSeq(ledger.records[Cursor(n) + 1]) = Cursor(n) + 1
                /\ ledger.records[Cursor(n) + 1].epoch = EpochOf(n)
<1>1. /\ LedgerInv /\ SignedInv /\ applied[n] \in Nat /\ Len(ledger.next) \in Nat /\ MaxSeq \in Nat
      /\ Cursor(n) \in 0..Len(ledger.records) /\ Len(ledger.records) \in Nat
  BY LaneFacts
<1>2. PICK h \in 1..Len(ledger.next) : h = applied[n] + 1 /\ h - 1 = applied[n]
  BY <1>1
<1>3. /\ ledger.next[h] \in {FinalizedSeq(h - 1), FinalizedSeq(h - 1) + 1} /\ ledger.next[h] <= Len(ledger.records)
      /\ ledger.next[h] = FinalizedSeq(h - 1) + 1 => ledger.records[FinalizedSeq(h - 1) + 1].epoch = LaneEpoch(h)
  BY <1>1 DEF LedgerInv
<1>4. FinalizedSeq(h) = ledger.next[h] /\ FinalizedSeq(h - 1) = Cursor(n) /\ EpochOf(n) = LaneEpoch(h)
  BY <1>2 DEF FinalizedSeq, Cursor, EpochOf
<1>5. FinalizedSeq(h) \in {Cursor(n), Cursor(n) + 1} /\ FinalizedSeq(h) <= Len(ledger.records)
  BY <1>3, <1>4
<1>6. FinalizedSeq(h) >= Cursor(n) + 1 => FinalizedSeq(h) = Cursor(n) + 1 /\ Cursor(n) + 1 \in 1..Len(ledger.records)
  BY <1>1, <1>5
<1>7. Cursor(n) + 1 \in 1..Len(ledger.records) =>
                /\ Cursor(n) + 1 \in 1..MaxSeq
                /\ ledger.records[Cursor(n) + 1] \in signed /\ ledger.records[Cursor(n) + 1] \in Certs
                /\ LaneSeq(ledger.records[Cursor(n) + 1]) = Cursor(n) + 1
  BY <1>1 DEF LedgerInv, SignedInv
<1> QED
  BY <1>1, <1>2, <1>3, <1>4, <1>5, <1>6, <1>7

\* The truncation of a suffix that conflicts with the block starts.
LEMMA DisplacedKeeps ==
    ASSUME LanesInv, NEW n \in LaneNodes, NEW resigned \in BOOLEAN, ApplyBlock(n, resigned),
           FinalizedSeq(applied[n] + 1) >= Cursor(n) + 1,
           Displaced(stored[n][Cursor(n) + 1], ledger.records[Cursor(n) + 1], resigned)
    PROVE  LanesInv'
<1> DEFINE seq == Cursor(n) + 1
           t == [next |-> seq, keep |-> seq - 1, root |-> Root(FinalizedCerts(applied[n])), block |-> TRUE]
           cert == ledger.records[seq]
           existing == stored[n][seq]
<1>1. /\ truncating[n] \in {<<>>, Replaced} /\ applied[n] + 1 <= Len(ledger.next)
      /\ truncating' = [truncating EXCEPT ![n] = t]
      /\ UNCHANGED <<stored, lane_state, applied, certifier, signed, range_request, range_answer, ledger, cut, laneFaults>>
  BY DEF ApplyBlock
<1>2. /\ StoredInv(n) /\ TruncatingInv(n) /\ WholeInv(n) /\ LedgerInv /\ SignedInv
      /\ applied[n] \in 0..Len(ledger.next) /\ lane_state[n].max_seq \in Nat /\ MaxSeq \in Nat
      /\ Cursor(n) \in 0..Len(ledger.records) /\ Len(ledger.records) \in Nat /\ EpochOf(n) \in Nat \ {0}
      /\ Cursor(n) <= lane_state[n].max_seq
  BY LaneFacts
<1>3. /\ seq \in 1..MaxSeq /\ cert \in signed /\ LaneSeq(cert) = seq /\ cert.epoch = EpochOf(n)
  BY <1>1, NextRecord
<1>5. Root(FinalizedCerts(applied[n])) = FinalizedRoot(applied[n]) /\ FinalizedRoot(applied[n]) \in Seq(LaneTxs)
  BY <1>2, RootOfFinalized
<1>6. /\ t \in Truncations /\ t.next = seq /\ t.keep = Cursor(n) /\ t.root = FinalizedRoot(applied[n]) /\ t.block = TRUE
  <2>1. Cursor(n) \in Nat /\ seq - 1 = Cursor(n)
    BY <1>2
  <2> QED
    BY <1>5, <2>1 DEF Truncations
<1> HIDE DEF t
<1>7. t \notin {<<>>, Replaced}
  BY <1>2, <1>6, LaneBounds DEF Replaced
<1>8. /\ truncating' \in [LaneNodes -> {<<>>} \cup Truncations] /\ truncating'[n] = t
      /\ \A m \in LaneNodes \ {n} : truncating'[m] = truncating[m]
  BY <1>1, <1>6 DEF LanesInv, LanesTypeOK
<1>9. LanesTypeOK' /\ SignedInv' /\ LedgerInv' /\ RangesInv' /\ DOMAIN certifier' \subseteq Nat \ {0}
  <2>1. LanesTypeOK'
    BY <1>1, <1>8 DEF LanesInv, LanesTypeOK
  <2> QED
    BY <1>1, <2>1, SharedKept, RangesKept DEF LanesInv
<1>10. Cursor(n)' = Cursor(n) /\ EpochOf(n)' = EpochOf(n) /\ FinalizedRoot(applied[n])' = FinalizedRoot(applied[n])
  BY <1>1 DEF Cursor, EpochOf, LaneEpoch, FinalizedSeq, FinalizedRoot
<1>11. StoredInv(n)'
  BY <1>1, <1>2, <1>10 DEF StoredInv, LaneSeq
<1>12. truncating[n] = <<>> \/ truncating[n].block
  BY <1>1 DEF Replaced
<1>13. \A s \in 1..MaxSeq : s = Cursor(n) + 1 /\ stored[n][s] # NoCert => stored[n][s].epoch = EpochOf(n)
  BY <1>2, <1>12 DEF TruncatingInv
<1>14. TruncatingInv(n)'
  <2>1. t.next \in (Cursor(n) + 1)..(lane_state[n].max_seq + 1) /\ \A s \in (Cursor(n) + 1)..(t.next - 1) : FALSE
    BY <1>2, <1>6, SMTT(20)
  <2>2. /\ applied'[n] = applied[n] /\ lane_state'[n] = lane_state[n] /\ stored'[n] = stored[n]
    BY <1>1
  <2> QED
    BY <1>6, <1>8, <1>10, <1>13, <2>1, <2>2 DEF TruncatingInv
<1>17. WholeInv(n)'
  BY <1>1, <1>2, <1>7, <1>8, <1>10 DEF WholeInv, Replaced
<1>18. ASSUME NEW m \in LaneNodes \ {n} PROVE LaneInv(m)'
  BY <1>1, <1>8, OnlyOneLane
<1> QED
  BY <1>9, <1>11, <1>14, <1>17, <1>18 DEF LanesInv, LaneInv

\* What a block that displaces nothing leaves in the lane of n.
BlockStored(n) ==
    LET height == applied[n] + 1
        cursor == FinalizedSeq(height)
        row == stored'[n]
        state == lane_state'[n]
    IN  /\ stored' \in [LaneNodes -> [1..MaxSeq -> Certs \cup {NoCert}]]
        /\ lane_state' \in [LaneNodes -> LaneStates]
        /\ \A m \in LaneNodes \ {n} : stored'[m] = stored[m] /\ lane_state'[m] = lane_state[m]
        /\ state.max_seq <= MaxSeq /\ Len(state.root) = state.max_seq /\ (~state.exists => state.max_seq = 0)
        /\ cursor <= state.max_seq
        /\ \A s \in 1..MaxSeq : row[s] # NoCert =>
             row[s] \in signed /\ LaneSeq(row[s]) = s /\ s <= state.max_seq /\ row[s].epoch <= EpochOf(n)
        /\ \A s \in 1..cursor : row[s] = ledger.records[s]
        /\ \A s, v \in 1..MaxSeq : s < v /\ row[s] # NoCert /\ row[v] # NoCert => row[s].epoch <= row[v].epoch
        /\ \A s \in 1..MaxSeq : s = cursor + 1 /\ row[s] # NoCert => row[s].epoch = EpochOf(n)
        /\ \A s \in 1..MaxSeq : stored[n][s] # NoCert => row[s] = stored[n][s]
        /\ n \notin cut => \A s \in 1..state.max_seq : row[s] # NoCert /\ state.root[s] = row[s].tx

\* The block carries no record, or one that n holds.
LEMMA HeldBlock ==
    ASSUME LanesInv, NEW n \in LaneNodes, applied[n] + 1 <= Len(ledger.next), truncating[n] \in {<<>>, Replaced},
           FinalizedSeq(applied[n] + 1) >= Cursor(n) + 1 =>
               ledger.records[Cursor(n) + 1] # NoCert /\ stored[n][Cursor(n) + 1] = ledger.records[Cursor(n) + 1],
           stored' = stored, lane_state' = lane_state
    PROVE  BlockStored(n)
<1> DEFINE cursor == FinalizedSeq(applied[n] + 1)
           seq == Cursor(n) + 1
<1>1. /\ StoredInv(n) /\ TruncatingInv(n) /\ WholeInv(n) /\ SignedInv
      /\ lane_state[n].max_seq \in Nat /\ MaxSeq \in Nat
      /\ Cursor(n) \in 0..Len(ledger.records) /\ Len(ledger.records) \in Nat /\ EpochOf(n) \in Nat \ {0}
      /\ Cursor(n) <= lane_state[n].max_seq
      /\ \A s \in 1..MaxSeq : stored[n][s] \in Certs \cup {NoCert}
  BY LaneFacts
<1>2. /\ cursor \in {Cursor(n), seq}
      /\ cursor >= seq => /\ cursor = seq /\ seq \in 1..MaxSeq /\ ledger.records[seq].epoch = EpochOf(n)
  BY NextRecord
<1>3. truncating[n] = <<>> \/ truncating[n].block
  BY DEF Replaced
<1> HIDE DEF cursor
<1>4. cursor <= lane_state[n].max_seq /\ \A s \in 1..cursor : stored[n][s] = ledger.records[s]
  <2>1. CASE cursor = Cursor(n)
    BY <1>1, <2>1 DEF StoredInv
  <2>2. CASE cursor = seq
    <3>1. stored[n][seq] # NoCert /\ stored[n][seq] = ledger.records[seq] /\ seq \in 1..MaxSeq
      BY <1>1, <1>2, <2>2 DEF cursor
    <3>2. seq <= lane_state[n].max_seq
      BY <1>1, <3>1 DEF StoredInv
    <3>3. \A s \in 1..seq : s = seq \/ s \in 1..Cursor(n)
      BY <1>1
    <3> QED
      BY <1>1, <2>2, <3>1, <3>2, <3>3 DEF StoredInv
  <2> QED
    BY <1>2, <2>1, <2>2
<1>5. ASSUME NEW s \in 1..MaxSeq, s = cursor + 1, stored[n][s] # NoCert
      PROVE  stored[n][s].epoch = EpochOf(n)
  <2>1. CASE cursor = Cursor(n)
    BY <1>1, <1>3, <1>5, <2>1 DEF TruncatingInv
  <2>2. CASE cursor = seq
    <3>1. /\ stored[n][seq] # NoCert /\ stored[n][seq].epoch = EpochOf(n) /\ seq \in 1..MaxSeq /\ seq < s
      BY <1>1, <1>2, <1>5, <2>2 DEF cursor
    <3>2. stored[n][seq].epoch <= stored[n][s].epoch /\ stored[n][s].epoch <= EpochOf(n) /\ stored[n][s].epoch \in Nat
      BY <1>1, <1>5, <3>1 DEF StoredInv, Certs
    <3> QED
      BY <1>1, <3>1, <3>2
  <2> QED
    BY <1>2, <2>1, <2>2
<1>6. stored \in [LaneNodes -> [1..MaxSeq -> Certs \cup {NoCert}]] /\ lane_state \in [LaneNodes -> LaneStates]
  BY DEF LanesInv, LanesTypeOK
<1>7. /\ lane_state[n].max_seq <= MaxSeq /\ Len(lane_state[n].root) = lane_state[n].max_seq
      /\ (~lane_state[n].exists => lane_state[n].max_seq = 0)
      /\ \A s \in 1..MaxSeq : stored[n][s] # NoCert =>
             stored[n][s] \in signed /\ LaneSeq(stored[n][s]) = s /\ s <= lane_state[n].max_seq /\ stored[n][s].epoch <= EpochOf(n)
      /\ \A s, v \in 1..MaxSeq : s < v /\ stored[n][s] # NoCert /\ stored[n][v] # NoCert => stored[n][s].epoch <= stored[n][v].epoch
  BY <1>1 DEF StoredInv
<1>8. n \notin cut => \A s \in 1..lane_state[n].max_seq : stored[n][s] # NoCert /\ lane_state[n].root[s] = stored[n][s].tx
  BY <1>1 DEF WholeInv
<1> QED
  BY <1>4, <1>5, <1>6, <1>7, <1>8 DEF BlockStored, cursor

\* The block carries a record that n misses: it is appended.
LEMMA MissingBlock ==
    ASSUME LanesInv, NEW n \in LaneNodes, applied[n] + 1 <= Len(ledger.next), truncating[n] \in {<<>>, Replaced},
           FinalizedSeq(applied[n] + 1) >= Cursor(n) + 1, NEW cert, cert = ledger.records[Cursor(n) + 1],
           stored[n][Cursor(n) + 1] = NoCert,
           AppendResult(n, cert, lane_state[n], LaneEpoch(applied[n] + 1)) = "ok",
           Store(n, Cursor(n) + 1, <<cert>>, Extended(lane_state[n], cert))
    PROVE  BlockStored(n)
<1> DEFINE cursor == FinalizedSeq(applied[n] + 1)
           seq == Cursor(n) + 1
           old == lane_state[n].max_seq
<1>1. /\ StoredInv(n) /\ TruncatingInv(n) /\ WholeInv(n) /\ SignedInv
      /\ lane_state[n].max_seq \in Nat /\ MaxSeq \in Nat /\ lane_state[n] \in LaneStates
      /\ Cursor(n) \in 0..Len(ledger.records) /\ Len(ledger.records) \in Nat /\ EpochOf(n) \in Nat \ {0}
      /\ Cursor(n) <= lane_state[n].max_seq
      /\ \A s \in 1..MaxSeq : stored[n][s] \in Certs \cup {NoCert}
  BY LaneFacts
<1>2. /\ cursor = seq /\ seq \in 1..MaxSeq /\ cert.epoch = EpochOf(n) /\ LaneSeq(cert) = seq /\ cert \in signed /\ cert \in Certs
  BY NextRecord
<1>3. seq = old + 1
  <2>1. ~lane_state[n].exists => lane_state[n].max_seq = 0
    BY <1>1 DEF StoredInv
  <2> QED
    BY <1>1, <1>2, <2>1, Appendable
<1>4. /\ stored' \in [LaneNodes -> [1..MaxSeq -> Certs \cup {NoCert}]]
      /\ lane_state' \in [LaneNodes -> LaneStates]
      /\ \A m \in LaneNodes \ {n} : stored'[m] = stored[m] /\ lane_state'[m] = lane_state[m]
      /\ stored'[n][LaneSeq(cert)] = cert
      /\ \A s \in 1..MaxSeq : s # LaneSeq(cert) => stored'[n][s] = stored[n][s]
      /\ lane_state'[n].exists /\ lane_state'[n].max_seq = LaneSeq(cert)
      /\ Len(lane_state'[n].root) = LaneSeq(cert)
      /\ \A s \in 1..lane_state[n].max_seq : lane_state'[n].root[s] = lane_state[n].root[s]
      /\ lane_state'[n].root[LaneSeq(cert)] = cert.tx
  <2>1. LaneSeq(cert) = lane_state[n].max_seq + 1 /\ LaneSeq(cert) <= MaxSeq
        /\ Store(n, LaneSeq(cert), <<cert>>, Extended(lane_state[n], cert))
    BY <1>1, <1>2, <1>3
  <2> QED
    BY <1>2, <2>1, OneStored
<1> HIDE DEF cursor
<1>5. ASSUME NEW s \in 1..MaxSeq, stored'[n][s] # NoCert
      PROVE  /\ stored'[n][s] \in signed /\ LaneSeq(stored'[n][s]) = s /\ s <= seq /\ stored'[n][s].epoch <= EpochOf(n)
             /\ s # seq => stored[n][s] = stored'[n][s]
  <2>1. CASE s = seq
    BY <1>1, <1>2, <1>4, <2>1
  <2>2. CASE s # seq
    <3>1. stored'[n][s] = stored[n][s]
      BY <1>2, <1>4, <2>2
    <3>2. stored[n][s] \in signed /\ LaneSeq(stored[n][s]) = s /\ s <= old /\ stored[n][s].epoch <= EpochOf(n)
      BY <1>1, <1>5, <3>1 DEF StoredInv
    <3> QED
      BY <1>1, <1>3, <3>1, <3>2
  <2> QED
    BY <2>1, <2>2
<1>6. \A s \in 1..seq : stored'[n][s] = ledger.records[s]
  <2>1. \A s \in 1..seq : s \in 1..MaxSeq /\ (s = seq \/ s \in 1..Cursor(n))
    BY <1>1, <1>2
  <2>2. \A s \in 1..Cursor(n) : stored[n][s] = ledger.records[s]
    BY <1>1 DEF StoredInv
  <2> QED
    BY <1>1, <1>2, <1>4, <2>1, <2>2, SMTT(20)
<1>7. ASSUME NEW s \in 1..MaxSeq, NEW v \in 1..MaxSeq, s < v, stored'[n][s] # NoCert, stored'[n][v] # NoCert
      PROVE  stored'[n][s].epoch <= stored'[n][v].epoch
  <2>1. CASE v = seq
    BY <1>2, <1>4, <1>5, <1>7, <2>1
  <2>2. CASE v # seq
    <3>1. s # seq /\ stored[n][s] = stored'[n][s] /\ stored[n][v] = stored'[n][v]
      BY <1>1, <1>5, <1>7, <2>2
    <3> QED
      BY <1>1, <1>7, <3>1 DEF StoredInv
  <2> QED
    BY <2>1, <2>2
<1>8. \A s \in 1..MaxSeq : s = seq + 1 => stored'[n][s] = NoCert
  BY <1>1, <1>5
<1>9. n \notin cut => \A s \in 1..seq : stored'[n][s] # NoCert /\ lane_state'[n].root[s] = stored'[n][s].tx
  <2> SUFFICES ASSUME n \notin cut, NEW s \in 1..seq
               PROVE  stored'[n][s] # NoCert /\ lane_state'[n].root[s] = stored'[n][s].tx
    OBVIOUS
  <2>1. CASE s = seq
    BY <1>2, <1>4, <2>1, LaneBounds
  <2>2. CASE s # seq
    <3>1. s \in 1..old /\ s \in 1..MaxSeq
      BY <1>1, <1>2, <1>3, <2>2
    <3>2. stored[n][s] # NoCert /\ lane_state[n].root[s] = stored[n][s].tx
      BY <1>1, <3>1 DEF WholeInv
    <3> QED
      BY <1>2, <1>4, <2>2, <3>1, <3>2
  <2> QED
    BY <2>1, <2>2
<1>10. \A s \in 1..MaxSeq : stored[n][s] # NoCert => stored'[n][s] = stored[n][s]
  BY <1>2, <1>4
<1>11. lane_state'[n].max_seq = seq /\ Len(lane_state'[n].root) = seq /\ lane_state'[n].exists /\ seq <= MaxSeq
  BY <1>1, <1>2, <1>4
<1>12. FinalizedSeq(applied[n] + 1) = seq
  BY <1>2 DEF cursor
<1> QED
  BY <1>1, <1>4, <1>5, <1>6, <1>7, <1>8, <1>9, <1>10, <1>11, <1>12 DEF BlockStored

\* The block is applied, and the drop of stale records after it starts or not.
LEMMA BlockKeeps ==
    ASSUME LanesInv, NEW n \in LaneNodes, BlockStored(n), applied[n] + 1 <= Len(ledger.next),
           truncating[n] \in {<<>>, Replaced},
           applied' = [applied EXCEPT ![n] = applied[n] + 1],
           truncating' = [truncating EXCEPT ![n] = StaleDrop(n, applied[n] + 1, lane_state'[n], stored'[n])],
           UNCHANGED <<certifier, signed, range_request, range_answer, ledger, cut, laneFaults>>
    PROVE  LanesInv'
<1>0. PICK h \in 0..Len(ledger.next) : h = applied[n] + 1 /\ h \in Nat /\ h > 0
  BY LaneFacts
<1>1. PICK t, row, state : /\ t = StaleDrop(n, h, state, row) /\ row = stored'[n] /\ state = lane_state'[n]
                           /\ truncating' = [truncating EXCEPT ![n] = t]
  BY <1>0
<1> DEFINE cursor == FinalizedSeq(h)
           at == cursor + 1
           old == EpochOf(n)
           new == LaneEpoch(h + 1)
           stale == /\ state.exists /\ state.max_seq > cursor
                    /\ row[at] # NoCert /\ row[at].epoch < new
<1>2. /\ LedgerInv /\ SignedInv /\ MaxSeq \in Nat /\ Len(ledger.records) \in Nat /\ old \in Nat \ {0}
      /\ applied \in [LaneNodes -> Nat] /\ truncating \in [LaneNodes -> {<<>>} \cup Truncations] /\ laneFaults \in Nat
      /\ cursor \in 0..Len(ledger.records)
  BY LaneFacts, RootOfFinalized DEF LanesInv, LanesTypeOK
<1>3. new \in Nat /\ old <= new
  BY <1>0, EpochsGrow DEF EpochOf
<1>4. /\ stored' \in [LaneNodes -> [1..MaxSeq -> Certs \cup {NoCert}]]
      /\ lane_state' \in [LaneNodes -> LaneStates] /\ state \in LaneStates /\ state.max_seq \in Nat
      /\ \A m \in LaneNodes \ {n} : stored'[m] = stored[m] /\ lane_state'[m] = lane_state[m]
      /\ state.max_seq <= MaxSeq /\ Len(state.root) = state.max_seq /\ (~state.exists => state.max_seq = 0)
      /\ cursor <= state.max_seq
      /\ \A s \in 1..MaxSeq : row[s] # NoCert =>
             row[s] \in signed /\ LaneSeq(row[s]) = s /\ s <= state.max_seq /\ row[s].epoch <= old
      /\ \A s \in 1..cursor : row[s] = ledger.records[s]
      /\ \A s, v \in 1..MaxSeq : s < v /\ row[s] # NoCert /\ row[v] # NoCert => row[s].epoch <= row[v].epoch
      /\ \A s \in 1..MaxSeq : s = at /\ row[s] # NoCert => row[s].epoch = old
      /\ \A s \in 1..MaxSeq : stored[n][s] # NoCert => row[s] = stored[n][s]
      /\ n \notin cut => \A s \in 1..state.max_seq : row[s] # NoCert /\ state.root[s] = row[s].tx
  BY <1>0, <1>1 DEF BlockStored, LaneStates
<1>5. IF stale THEN IsDrop(t, h) ELSE t = <<>>
  <2>0. LedgerInv /\ t = StaleDrop(n, h, state, row)
    BY <1>1, <1>2
  <2>1. IF StaleAt(h, state, row) THEN IsDrop(t, h) ELSE t = <<>>
    BY <2>0, Drops
  <2>2. StaleAt(h, state, row) <=> stale
    BY Zenon DEF StaleAt
  <2> QED
    BY <2>1, <2>2, Zenon
<1>6. t \in {<<>>} \cup Truncations
  BY <1>5 DEF IsDrop
<1>7. /\ truncating' \in [LaneNodes -> {<<>>} \cup Truncations] /\ truncating'[n] = t
      /\ applied' \in [LaneNodes -> Nat] /\ applied'[n] = h
      /\ \A m \in LaneNodes \ {n} : truncating'[m] = truncating[m] /\ applied'[m] = applied[m]
  BY <1>0, <1>1, <1>2, <1>6
<1>8. LanesTypeOK' /\ SignedInv' /\ LedgerInv' /\ RangesInv' /\ DOMAIN certifier' \subseteq Nat \ {0}
  <2>1. LanesTypeOK'
    BY <1>2, <1>4, <1>7 DEF LanesTypeOK
  <2> QED
    BY <2>1, SharedKept, RangesKept DEF LanesInv
<1>9. FinalizedSeq(h)' = cursor /\ FinalizedRoot(h)' = FinalizedRoot(h)
  BY DEF FinalizedSeq, FinalizedRoot
<1>10. Cursor(n)' = cursor /\ EpochOf(n)' = new
  <2>1. Cursor(n)' = FinalizedSeq(h)' /\ EpochOf(n)' = LaneEpoch(h + 1)
    BY <1>7 DEF Cursor, EpochOf, LaneEpoch, FinalizedSeq
  <2> QED
    BY <1>9, <2>1
<1>10a. FinalizedRoot(applied[n])' = FinalizedRoot(h)
  BY <1>7, <1>9 DEF FinalizedRoot, FinalizedSeq
<1> HIDE DEF cursor, new
<1>11. \A s \in 1..MaxSeq : row[s] # NoCert => row[s].epoch \in Nat /\ row[s].epoch <= new
  BY <1>2, <1>3, <1>4 DEF SignedInv, Certs
<1>12. StoredInv(n)'
  <2>1. /\ applied'[n] <= Len(ledger'.next) /\ stored'[n] = row /\ lane_state'[n] = state /\ signed' = signed /\ ledger' = ledger
    BY <1>0, <1>1, <1>7
  <2> QED
    BY <1>4, <1>10, <1>11, <2>1 DEF StoredInv, LaneSeq
<1>13. \A s \in 1..MaxSeq : s = at /\ row[s] # NoCert => (stale <=> row[s].epoch < new)
  BY <1>2, <1>4
<1>14. TruncatingInv(n)'
  <2>1. CASE stale
    <3>1. /\ t \notin {<<>>, Replaced} /\ t.next = cursor + 1 /\ t.keep = cursor /\ t.root = FinalizedRoot(h) /\ t.block = FALSE
      BY <1>5, <2>1 DEF IsDrop, cursor
    <3>2. t.next \in (cursor + 1)..(state.max_seq + 1) /\ \A s \in (cursor + 1)..(t.next - 1) : FALSE
      BY <1>2, <1>4, <2>1, <3>1
    <3> QED
      BY <1>1, <1>7, <1>10, <1>10a, <3>1, <3>2 DEF TruncatingInv, Replaced
  <2>2. CASE ~stale
    <3>1. t = <<>>
      BY <1>5, <2>2
    <3>2. \A s \in 1..MaxSeq : s = at /\ row[s] # NoCert => row[s].epoch = new
      BY <1>3, <1>11, <1>13, <2>2
    <3> QED
      BY <1>1, <1>7, <1>10, <3>1, <3>2 DEF TruncatingInv
  <2> QED
    BY <2>1, <2>2
<1>16. WholeInv(n)'
  <2>1. CASE stale
    <3>1. t \notin {<<>>, Replaced}
      BY <1>5, <2>1 DEF IsDrop
    <3> QED
      BY <1>1, <1>4, <1>7, <3>1 DEF WholeInv, Replaced
  <2>2. CASE ~stale
    <3>1. t = <<>>
      BY <1>5, <2>2
    <3> QED
      BY <1>1, <1>4, <1>7, <3>1 DEF WholeInv
  <2> QED
    BY <2>1, <2>2
<1>17. ASSUME NEW m \in LaneNodes \ {n} PROVE LaneInv(m)'
  <2>1. stored'[m] = stored[m] /\ lane_state'[m] = lane_state[m] /\ truncating'[m] = truncating[m] /\ applied'[m] = applied[m]
    BY <1>4, <1>7
  <2> QED
    BY <2>1, OnlyOneLane
<1> QED
  BY <1>8, <1>12, <1>14, <1>16, <1>17 DEF LanesInv, LaneInv

\* A block is applied, whatever the node holds in its place.
LEMMA ApplyKeeps ==
    ASSUME LanesInv, NEW n \in LaneNodes, NEW resigned \in BOOLEAN, ApplyBlock(n, resigned)
    PROVE  LanesInv'
<1> DEFINE carries == FinalizedSeq(applied[n] + 1) >= Cursor(n) + 1
           existing == stored[n][Cursor(n) + 1]
           cert == ledger.records[Cursor(n) + 1]
           missing == carries /\ existing = NoCert
           state == IF missing THEN Extended(lane_state[n], cert) ELSE lane_state[n]
<1>1. CASE carries /\ Displaced(existing, cert, resigned)
  BY <1>1, DisplacedKeeps
<1>2. CASE ~(carries /\ Displaced(existing, cert, resigned))
  <2>1. /\ truncating[n] \in {<<>>, Replaced} /\ applied[n] + 1 <= Len(ledger.next)
        /\ missing => AppendResult(n, cert, lane_state[n], LaneEpoch(applied[n] + 1)) = "ok"
        /\ Store(n, Cursor(n) + 1, IF missing THEN <<cert>> ELSE <<>>, state)
        /\ applied' = [applied EXCEPT ![n] = applied[n] + 1]
        /\ truncating' = [truncating EXCEPT ![n] = StaleDrop(n, applied[n] + 1, state, stored'[n])]
        /\ UNCHANGED <<certifier, signed, range_request, range_answer, ledger, cut, laneFaults>>
    BY <1>2, Zenon DEF ApplyBlock
  <2>2. stored \in [LaneNodes -> [1..MaxSeq -> Certs \cup {NoCert}]] /\ lane_state \in [LaneNodes -> LaneStates]
    BY DEF LanesInv, LanesTypeOK
  <2>3. lane_state'[n] = state
    BY <2>1, <2>2 DEF Store
  <2>4. BlockStored(n)
    <3>1. CASE missing
      <4>1. Store(n, Cursor(n) + 1, <<cert>>, Extended(lane_state[n], cert))
        BY <2>1, <3>1, Zenon
      <4>2. PICK c : c = cert
        OBVIOUS
      <4>3. /\ AppendResult(n, c, lane_state[n], LaneEpoch(applied[n] + 1)) = "ok"
            /\ Store(n, Cursor(n) + 1, <<c>>, Extended(lane_state[n], c))
            /\ FinalizedSeq(applied[n] + 1) >= Cursor(n) + 1 /\ stored[n][Cursor(n) + 1] = NoCert
        BY <2>1, <3>1, <4>1, <4>2, Zenon
      <4> QED
        BY <2>1, <4>2, <4>3, MissingBlock
    <3>2. CASE ~missing
      <4>1. Store(n, Cursor(n) + 1, <<>>, lane_state[n])
        BY <2>1, <3>2, Zenon
      <4>2. stored' = stored /\ lane_state' = lane_state
        <5>1. Cursor(n) \in Nat
          BY LaneFacts
        <5>2. \A s \in 1..MaxSeq : s \notin (Cursor(n) + 1)..(Cursor(n) + 1 + Len(<<>>) - 1)
          BY <5>1
        <5>3. stored[n] = [s \in 1..MaxSeq |-> IF s \in (Cursor(n) + 1)..(Cursor(n) + 1 + Len(<<>>) - 1)
                                               THEN <<>>[s - (Cursor(n) + 1) + 1] ELSE stored[n][s]]
          BY <2>2, <5>2
        <5>4. stored' = [stored EXCEPT ![n] = stored[n]] /\ lane_state' = [lane_state EXCEPT ![n] = lane_state[n]]
          BY <4>1, <5>3, Zenon DEF Store
        <5> QED
          BY <2>2, <5>4
      <4>3. carries => cert # NoCert /\ existing = cert
        <5>1. carries => cert \in Certs
          BY <2>1, NextRecord
        <5> QED
          BY <1>2, <3>2, <5>1, LaneBounds DEF Displaced
      <4> QED
        BY <2>1, <4>2, <4>3, HeldBlock
    <3> QED
      BY <3>1, <3>2
  <2>5. truncating' = [truncating EXCEPT ![n] = StaleDrop(n, applied[n] + 1, lane_state'[n], stored'[n])]
    BY <2>1, <2>3, Zenon
  <2> QED
    BY <2>1, <2>4, <2>5, BlockKeeps
<1> QED
  BY <1>1, <1>2

\* Empty lanes.
LEMMA LanesStart == InInit => LanesInv
<1> SUFFICES ASSUME InInit PROVE LanesInv
  OBVIOUS
<1>1. /\ certifier \in Certifiers /\ signed = {}
      /\ stored = [n \in LaneNodes |-> [s \in 1..MaxSeq |-> NoCert]]
      /\ lane_state = [n \in LaneNodes |-> [exists |-> FALSE, max_seq |-> 0, root |-> <<>>]]
      /\ range_request = [x \in Pairs |-> <<>>] /\ range_answer = [x \in Pairs |-> <<>>]
      /\ ledger = [records |-> <<>>, next |-> <<>>] /\ applied = [n \in LaneNodes |-> 0]
      /\ truncating = [n \in LaneNodes |-> <<>>] /\ cut = {} /\ laneFaults = 0
  BY DEF InInit
<1>2. <<>> \in Seq(Certs) /\ <<>> \in Seq(Nat) /\ <<>> \in Seq(LaneTxs) /\ Len(<<>>) = 0
  OBVIOUS
<1>3. LanesTypeOK
  <2>1. [exists |-> FALSE, max_seq |-> 0, root |-> <<>>] \in LaneStates
    BY <1>2 DEF LaneStates
  <2> QED
    BY <1>1, <2>1 DEF LanesTypeOK
<1>4. SignedInv /\ RangesInv /\ DOMAIN certifier \subseteq Nat \ {0}
  BY <1>1, LanesAssumption DEF SignedInv, RangesInv
<1>5. ledger.records = <<>> /\ ledger.next = <<>> /\ FinalizedSeq(0) = 0
  BY <1>1 DEF FinalizedSeq
<1>6. LedgerInv
  <2>1. LinkedInv
    BY <1>2, <1>5 DEF LinkedInv
  <2> QED
    BY <1>1, <1>2, <1>5, <2>1 DEF LedgerInv
<1>7. ASSUME NEW n \in LaneNodes PROVE LaneInv(n)
  <2>1. /\ applied[n] = 0 /\ truncating[n] = <<>> /\ Cursor(n) = 0 /\ \A s \in 1..MaxSeq : stored[n][s] = NoCert
    BY <1>1, <1>5 DEF Cursor
  <2>2. lane_state[n].max_seq = 0 /\ lane_state[n].root = <<>> /\ ~lane_state[n].exists
    BY <1>1
  <2>3. MaxSeq \in Nat
    BY LaneBounds
  <2>4. StoredInv(n)
    BY <1>2, <1>5, <2>1, <2>2, <2>3 DEF StoredInv
  <2>5. TruncatingInv(n) /\ WholeInv(n)
    BY <1>1, <2>1, <2>2 DEF TruncatingInv, WholeInv
  <2> QED
    BY <2>4, <2>5 DEF LaneInv
<1> QED
  BY <1>3, <1>4, <1>6, <1>7 DEF LanesInv

\* Every action keeps the invariant.
LEMMA LanesStep == LanesInv /\ [InNext]_inVars => LanesInv'
<1> SUFFICES ASSUME LanesInv, [InNext]_inVars PROVE LanesInv'
  OBVIOUS
<1>1. CASE UNCHANGED inVars
  <2>1. UNCHANGED <<certifier, signed, stored, lane_state, range_request, range_answer, ledger, applied, truncating, cut, laneFaults>>
    BY <1>1 DEF inVars
  <2>2. RangesInv'
    BY <2>1, RangesKept DEF LanesInv
  <2> QED
    BY <2>1, <2>2, LanesSame
<1>2. ASSUME NEW n \in LaneNodes, NEW resigned \in BOOLEAN, ApplyBlock(n, resigned) PROVE LanesInv'
  BY <1>2, ApplyKeeps
<1>3. ASSUME NEW n \in LaneNodes, TruncateStep(n) PROVE LanesInv'
  BY <1>3, EraseKeeps, TruncatedKeeps
<1>4. ASSUME NEW n \in LaneNodes, CrashNode(n) PROVE LanesInv'
  BY <1>4, CrashKeeps
<1>5. ASSUME NEW n \in LaneNodes, NEW tx \in LaneTxs, maybe_certify_record(n, tx) PROVE LanesInv'
  BY <1>5, CertifyKeeps
<1>6. ASSUME NEW tx \in LaneTxs, NEW epoch \in DOMAIN certifier,
             NEW prev \in {<<>>} \cup {Append(c.prev, c.tx) : c \in signed}, SignAnything(epoch, prev, tx)
      PROVE  LanesInv'
  BY <1>6, ForgedKeeps
<1>7. ASSUME NEW n \in LaneNodes, NEW cert \in signed, handle_ingress_record(n, cert) PROVE LanesInv'
  BY <1>7, RecordKeeps
<1>8. ASSUME NEW x \in Pairs, \/ handle_ingress_tips(x[1], x[2]) \/ on_get_ingress_range(x[1], x[2])
                              \/ handle_ingress_range(x[1], x[2]) \/ RangeTimeout(x)
      PROVE  LanesInv'
  BY <1>8, TipsKeeps, AnswerKeeps, RangeKeeps, TimeoutKeeps
<1>9. ASSUME FinalizeLaneBlock(<<>>) PROVE LanesInv'
  <2>0. <<>> \in Seq(signed) /\ Len(<<>>) <= 1
    OBVIOUS
  <2>1. PICK certs \in Seq(signed) : certs = <<>> /\ Len(certs) <= 1
    BY <2>0, Zenon
  <2> QED
    BY <1>9, <2>1, FinalizeKeeps
<1>10. ASSUME NEW cert \in signed, FinalizeLaneBlock(<<cert>>) PROVE LanesInv'
  <2>1. PICK certs \in Seq(signed) : certs = <<cert>> /\ Len(certs) <= 1
    BY <1>10
  <2> QED
    BY <1>10, <2>1, FinalizeKeeps
<1> QED
  BY <1>1, <1>2, <1>3, <1>4, <1>5, <1>6, <1>7, <1>8, <1>9, <1>10, Zenon DEF InNext

\* The inductive invariant of the lanes, for every schedule of certifiers and any number of
\* nodes, transactions, blocks and crashes.
THEOREM LanesInvariant == InSpec => []LanesInv
<1> QED
  BY LanesStart, LanesStep, PTL DEF InSpec

\* The invariant implies what the lanes promise.
LEMMA WholeLanes == LanesInv => LanesFollowChain
<1> SUFFICES ASSUME LanesInv, NEW n \in LaneNodes
             PROVE  /\ \A s \in 1..Cursor(n) : stored[n][s] = FinalizedCerts(applied[n])[s]
                    /\ Free(n) /\ n \notin cut =>
                         /\ \A s \in 1..MaxSeq : stored[n][s] # NoCert <=> s <= lane_state[n].max_seq
                         /\ lane_state[n].root = Root(SubSeq(stored[n], 1, lane_state[n].max_seq))
  BY DEF LanesFollowChain
<1> DEFINE k == lane_state[n].max_seq
<1>1. /\ StoredInv(n) /\ WholeInv(n) /\ LedgerInv /\ applied[n] \in 0..Len(ledger.next)
      /\ k \in Nat /\ MaxSeq \in Nat /\ lane_state[n].root \in Seq(LaneTxs) /\ Cursor(n) \in Nat
  BY LaneFacts
<1>2. ASSUME NEW s \in 1..Cursor(n) PROVE stored[n][s] = FinalizedCerts(applied[n])[s]
  <2>1. FinalizedCerts(applied[n]) = [i \in 1..Cursor(n) |-> ledger.records[i]]
    BY <1>1, RootOfFinalized DEF Cursor
  <2> QED
    BY <1>1, <1>2, <2>1 DEF StoredInv
<1>3. ASSUME Free(n), n \notin cut
      PROVE  /\ \A s \in 1..MaxSeq : stored[n][s] # NoCert <=> s <= k
             /\ lane_state[n].root = Root(SubSeq(stored[n], 1, k))
  <2>1. \A s \in 1..k : stored[n][s] # NoCert /\ lane_state[n].root[s] = stored[n][s].tx
    BY <1>1, <1>3 DEF WholeInv, Free
  <2>2. \A s \in 1..MaxSeq : stored[n][s] # NoCert <=> s <= k
    BY <1>1, <2>1 DEF StoredInv
  <2>3. k <= MaxSeq /\ Len(lane_state[n].root) = k
    BY <1>1 DEF StoredInv
  <2>4. stored[n] \in Seq(Certs \cup {NoCert}) /\ Len(stored[n]) = MaxSeq
    <3>1. stored[n] \in [1..MaxSeq -> Certs \cup {NoCert}]
      BY DEF LanesInv, LanesTypeOK
    <3> QED
      BY <1>1, <3>1, SMTT(20)
  <2>5. PICK root \in Seq(LaneTxs), row \in Seq(Certs \cup {NoCert}), m \in Nat :
          root = lane_state[n].root /\ row = stored[n] /\ m = k
    BY <1>1, <2>4
  <2>6. SubSeq(row, 1, m) = [s \in 1..m |-> row[s]] /\ Len(SubSeq(row, 1, m)) = m
    BY <1>1, <2>3, <2>4, <2>5
  <2>7. Root(SubSeq(row, 1, m)) = [s \in 1..m |-> row[s].tx]
    BY <2>6 DEF Root
  <2>8. root = [s \in 1..m |-> row[s].tx]
    <3>1. DOMAIN root = 1..m /\ root = [s \in DOMAIN root |-> root[s]]
      BY <2>3, <2>5
    <3>2. \A s \in 1..m : root[s] = row[s].tx
      BY <2>1, <2>5
    <3> QED
      BY <3>1, <3>2
  <2> QED
    BY <2>2, <2>5, <2>7, <2>8
<1> QED
  BY <1>2, <1>3

\* The lane of every node holds the finalized records in their order, and, a crash in a truncation
\* aside, no record below its tip is missing and its root is the one of what it holds:
\* append_ingress_record_atomic, store_finalized_lane_certificates_locked and truncate_ingress_lane
\* keep that together, whatever certificates faulty members of the committees sign.
THEOREM LanesFollow == InSpec => []LanesFollowChain
<1> QED
  BY LanesInvariant, WholeLanes, PTL

\* The invariant implies that the record of the next block can be stored.
LEMMA NextBlockStored == LanesInv => BlocksApply
<1> SUFFICES ASSUME LanesInv, NEW n \in LaneNodes, truncating[n] \in {<<>>, Replaced}, n \notin cut,
                    applied[n] + 1 <= Len(ledger.next), FinalizedSeq(applied[n] + 1) >= Cursor(n) + 1,
                    stored[n][Cursor(n) + 1] = NoCert
             PROVE  AppendResult(n, ledger.records[Cursor(n) + 1], lane_state[n], LaneEpoch(applied[n] + 1)) = "ok"
  BY Zenon DEF BlocksApply
<1> DEFINE k == Cursor(n)
           cert == ledger.records[k + 1]
           state == lane_state[n]
<1>1. /\ k + 1 \in 1..Len(ledger.records) /\ k + 1 \in 1..MaxSeq /\ cert \in Certs
      /\ LaneSeq(cert) = k + 1 /\ cert.epoch = LaneEpoch(applied[n] + 1)
  BY NextRecord DEF EpochOf
<1>2. /\ StoredInv(n) /\ WholeInv(n) /\ LedgerInv /\ state \in LaneStates /\ state.max_seq \in Nat
      /\ state.root \in Seq(LaneTxs) /\ k \in Nat /\ k <= state.max_seq
  BY LaneFacts
<1>3. \A s \in 1..state.max_seq : stored[n][s] # NoCert /\ state.root[s] = stored[n][s].tx
  BY <1>2 DEF WholeInv
<1>4. state.max_seq = k /\ Len(state.root) = k /\ (~state.exists => k = 0)
  BY <1>1, <1>2, <1>3 DEF StoredInv
<1>5. \A s \in 1..k : state.root[s] = ledger.records[s].tx /\ cert.prev[s] = ledger.records[s].tx
  BY <1>1, <1>2, <1>3, <1>4, SMTT(20) DEF StoredInv, LedgerInv, LinkedInv
<1>6. cert.prev \in Seq(LaneTxs) /\ Len(cert.prev) = k
  BY <1>1, <1>2 DEF Certs, LaneSeq
<1>7. cert.prev = state.root
  <2>1. PICK a \in Seq(LaneTxs), b \in Seq(LaneTxs) : a = cert.prev /\ b = state.root
    BY <1>2, <1>6
  <2>2. Len(a) = Len(b) /\ \A s \in 1..Len(a) : a[s] = b[s]
    BY <1>4, <1>5, <1>6, <2>1
  <2>3. a = b
    BY <2>2
  <2> QED
    BY <2>1, <2>3
<1>8. cert # NoCert
  BY <1>1, LaneBounds
<1> HIDE DEF cert, state, k
<1> QED
  BY <1>1, <1>4, <1>7, <1>8 DEF AppendResult, detect_ingress_equivocation, cert, state, k

\* store_finalized_lane_certificates_locked never refuses the certificate of the next finalized block,
\* for any committees with any number of faulty members: what it displaces is truncated to the
\* finalized records, and the certificate follows those.  A crash in a truncation is the exception.
THEOREM BlocksAlwaysApply == InSpec => []BlocksApply
<1> QED
  BY LanesInvariant, NextBlockStored, PTL
================================================================================
