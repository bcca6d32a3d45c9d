------------------------------ MODULE NodeProofs ------------------------------
(* NodeRestart: NeverVotesTwice and StartedIsCanonical for every number of    *)
(* heights, every length of an epoch, every span of the search for lost rows   *)
(* that is longer than it, and any number of crashes, failed writes and        *)
(* damaged rows.  LightWallet: VerifiedIsReal and HonestNotBlamed for every    *)
(* chain of committees, any servers and any coins.                             *)
EXTENDS NodeRestart, LightWallet, FiniteSetTheorems, WellFoundedInduction, TLAPS

-------------------------------------------------------------------------------
(* The rows of the database, and the writes a start makes one by one.          *)

Cache == [at : Int, extra : SUBSET Int]
Tip == [height : Int, id : Int]
Tables == {"transitions", "mapped", "certs", "hash"}

Rows ==
    [marker : BOOLEAN, json : BOOLEAN, tip : Tip, frontier : Int, hash : SUBSET Int, mapped : SUBSET Int,
     transitions : SUBSET Int, certs : SUBSET Int, lanes : SUBSET Int, cache : Cache, commitment : Int,
     primary : [RowHeights -> Int], mirror : [RowHeights -> Int], quarantine : SUBSET RowHeights,
     highwater : Nat]

Writes ==
         [name : {"marker", "json"}, value : {TRUE}] \cup [name : Tables, value : SUBSET Int]
    \cup [name : {"frontier", "commitment"}, value : Int] \cup [name : {"tip"}, value : Tip]
    \cup [name : {"cache"}, value : Cache]

Stages == {"down", "refused", "stopped", "genesis", "load", "replay", "repair", "save", "restore", "running"}

RsTypeOK ==
    /\ disk \in Rows /\ pending \in Seq(Writes) /\ stage \in Stages
    /\ mem \in [height : Nat, id : Int, state : Cache, votes : [RowHeights -> Int], abstain : SUBSET RowHeights]
    /\ signedVotes \subseteq RowHeights \X Payloads
    /\ overridden \subseteq RowHeights /\ reported \in Nat /\ lost \subseteq Int

-------------------------------------------------------------------------------
(* The inductive invariant.                                                    *)

\* The tip below the running epoch of the cached rows: a repair goes no further back.
Low == RsEpochStart(disk.cache.at + 1) - 1

\* What is left to write, by stage.
GenesisWrites ==
    /\ disk.marker \/ (Len(pending) > 1 /\ pending[1] = Row("marker", TRUE))
    /\ \A i \in 1..Len(pending) :
          /\ pending[i].name # "frontier" /\ pending[i].name \notin Tables
          /\ pending[i].name = "tip" => pending[i].value = [height |-> 0, id |-> 0]
          /\ pending[i].name = "cache" => pending[i].value.at = 0

RepairWrites ==
    LET n == Len(pending)
    IN  /\ pending[n] = Row("tip", [height |-> mem.height, id |-> mem.id])
        /\ n >= 2 => pending[n - 1] = Row("frontier", mem.height)
        /\ n >= 3 => pending[n - 2] = Row("frontier", Absent)
        /\ \A i \in 1..(n - 3) : pending[i].name \in Tables
        /\ n = 1 => disk.frontier = mem.height
        /\ \A i \in 1..n : pending[i].name = "transitions" => pending[i].value \ disk.lanes \subseteq lost
        /\ mem.height > 0 => mem.id = mem.height
        /\ disk.tip.height > 0 /\ Low <= mem.height /\ mem.height + 1 \in lost

SaveWrites ==
    LET n == Len(pending)
    IN  /\ pending[n].name = "cache" /\ pending[n].value.at = mem.height
        /\ \A i \in 1..(n - 1) : pending[i].name = "commitment"
        /\ Low <= mem.height
        /\ \/ disk.cache.at = mem.height
           \/ disk.frontier = mem.height
           \/ disk.frontier = Absent /\ mem.height = 0

WritesInv ==
    /\ stage \in {"genesis", "repair", "save"} <=> pending # <<>>
    /\ stage = "genesis" => GenesisWrites
    /\ stage = "repair" => RepairWrites
    /\ stage = "save" => SaveWrites

\* The history: what the tip, the frontier, the cached rows and the node's memory say of it.
HistoryInv ==
    /\ disk.frontier # Absent => Low <= disk.frontier
    /\ disk.frontier = Absent => disk.cache.at <= 0 \/ disk.tip.height > 0
    /\ disk.frontier >= 1 => disk.tip.height >= 1
    /\ disk.tip = NoTip \/ disk.tip.height >= 0
    /\ disk.tip.height > 0 => disk.tip.id = disk.tip.height
    /\ ~disk.marker \/ stage = "genesis" => disk.frontier = Absent /\ disk.cache.at <= 0 /\ reported = 0
    /\ stage \in {"load", "replay", "repair", "save", "restore", "running"} => disk.marker
    /\ stage \in {"replay", "save", "restore", "running"} =>
          disk.tip.height = mem.height /\ disk.tip.id = mem.id
    /\ stage \in {"save", "restore", "running"} => mem.id = mem.height /\ mem.state = StateAt(mem.height)
    /\ stage \in {"restore", "running"} => disk.cache.at = mem.height

\* What may be missing of what was reported.
ReportedInv ==
    /\ disk.transitions \ disk.lanes \subseteq lost
    /\ stage = "running" => reported = mem.height
    /\ IF disk.tip = NoTip THEN reported = 0
       ELSE reported <= disk.tip.height \/ disk.tip.height + 1 \in lost

\* Every vote that was not overridden is below the mark and within the span of any start,
\* and the row of its height records it, is lost, or is in quarantine.
VotesInv ==
    \A s \in signedVotes :
        /\ s[1] \in Seats /\ s[1] <= Low + SafetySpan
        /\ s[1] \notin overridden =>
              /\ s[1] <= disk.highwater
              /\ s[1] \in disk.quarantine \/ SafetyRow(s[1]) \in {s[2], NoRow, Unreadable}

\* A running node has in memory what its rows say, and abstains or knows its vote.
MemoryInv ==
    stage = "running" =>
        /\ disk.mirror = disk.primary /\ mem.abstain = disk.quarantine
        /\ \A h \in RowHeights :
              /\ disk.primary[h] # Unreadable
              /\ mem.votes[h] = IF disk.primary[h] = Polka THEN NoRow ELSE disk.primary[h]
        /\ \A s \in signedVotes :
              s[1] > mem.height /\ s[1] \notin overridden =>
                  s[1] \in mem.abstain \/ mem.votes[s[1]] = s[2]

RestartInv ==
    RsTypeOK /\ WritesInv /\ HistoryInv /\ ReportedInv /\ VotesInv /\ MemoryInv /\ NeverVotesTwice

-------------------------------------------------------------------------------
(* Epochs and marks.                                                           *)

LEMMA Division ==
    ASSUME NEW i \in Int
    PROVE  /\ i % BlocksOfEpoch \in 0..(BlocksOfEpoch - 1)
           /\ i \div BlocksOfEpoch \in Int
           /\ i = BlocksOfEpoch * (i \div BlocksOfEpoch) + (i % BlocksOfEpoch)
<1>1. BlocksOfEpoch \in Int /\ BlocksOfEpoch > 0
  BY RestartAssumption
<1> QED
  BY <1>1, Z3

LEMMA EpochStartBounds ==
    ASSUME NEW n \in Int
    PROVE  /\ RsEpochStart(n) \in Int
           /\ RsEpochStart(n) <= n
           /\ n < RsEpochStart(n) + BlocksOfEpoch
<1>1. (n - 1) % BlocksOfEpoch \in 0..(BlocksOfEpoch - 1) /\ BlocksOfEpoch \in Nat
  BY Division, RestartAssumption
<1> QED
  BY <1>1 DEF RsEpochStart

\* A height that is not before the epoch of another has an epoch that is not before it.
LEMMA EpochStartMonotone ==
    ASSUME NEW m \in Int, NEW n \in Int, m >= RsEpochStart(n)
    PROVE  RsEpochStart(m) >= RsEpochStart(n)
<1> DEFINE B == BlocksOfEpoch
           p == (m - 1) \div B
           q == (n - 1) \div B
<1>1. B \in Int /\ B > 0 /\ p \in Int /\ q \in Int
  BY Division, RestartAssumption
<1>2. RsEpochStart(m) = B * p + 1 /\ RsEpochStart(n) = B * q + 1
  <2>1. /\ m - 1 = B * p + ((m - 1) % B) /\ (m - 1) % B \in Int
        /\ n - 1 = B * q + ((n - 1) % B) /\ (n - 1) % B \in Int
    BY Division
  <2>2. B * p \in Int /\ B * q \in Int
    BY <1>1
  <2> HIDE DEF p, q, B
  <2> QED
    BY <2>1, <2>2 DEF RsEpochStart, B
<1>3. m - 1 < B * p + B
  <2>1. (m - 1) % B \in Int /\ (m - 1) % B < B /\ m - 1 = B * p + ((m - 1) % B) /\ B * p \in Int
    BY Division, <1>1
  <2> HIDE DEF p, B
  <2> QED
    BY <2>1, <1>1
<1>4. B * q < B * (p + 1)
  <2> HIDE DEF p, q, B
  <2>1. B * p \in Int /\ B * q \in Int /\ B * (p + 1) = B * p + B
    BY <1>1
  <2> QED
    BY <2>1, <1>1, <1>2, <1>3
<1>5. q <= p
  <2> HIDE DEF p, q, B
  <2>1. SUFFICES ASSUME p + 1 <= q PROVE FALSE
    BY <1>1
  <2>2. B * (p + 1) <= B * q
    BY <1>1, <2>1
  <2> QED
    BY <2>2, <1>1, <1>4
<1>6. B * q <= B * p
  <2> HIDE DEF p, q, B
  <2> QED
    BY <1>1, <1>5
<1> HIDE DEF p, q, B
<1> QED
  BY <1>1, <1>2, <1>6

LEMMA LargestOfTwo ==
    ASSUME NEW a \in Nat, NEW b \in Nat
    PROVE  Largest({a, b}) \in Nat /\ Largest({a, b}) >= a /\ Largest({a, b}) >= b
<1>1. \E x \in {a, b} : \A y \in {a, b} : y <= x
  OBVIOUS
<1>2. Largest({a, b}) \in {a, b} /\ \A y \in {a, b} : y <= Largest({a, b})
  BY <1>1 DEF Largest
<1> QED
  BY <1>2

LEMMA SmallestOfSome ==
    ASSUME NEW S, S \subseteq Nat, S # {}
    PROVE  Smallest(S) \in S
<1>1. PICK x \in S : \A y \in S : ~(<<y, x>> \in OpToRel(<, Nat))
  BY NatLessThanWellFounded, WFMin
<1>2. \A y \in S : ~(y < x)
  BY <1>1 DEF OpToRel
<1>3. \A y \in S : x <= y
  BY <1>2
<1> QED
  BY <1>3 DEF Smallest

\* The epochs of a disk are never before those of an earlier one, so votes stay in reach.
LEMMA LowBounds ==
    ASSUME RsTypeOK
    PROVE  Low \in Int /\ Low <= disk.cache.at /\ disk.cache.at < Low + BlocksOfEpoch
<1>1. disk.cache.at \in Int
  BY DEF RsTypeOK, Rows, Cache
<1>2. BlocksOfEpoch \in Nat
  BY RestartAssumption
<1> QED
  BY <1>1, <1>2, EpochStartBounds DEF Low

-------------------------------------------------------------------------------
(* What leaves the vote records alone leaves the votes safe.                   *)

LEMMA SafetyRowSame ==
    ASSUME disk'.primary = disk.primary, disk'.mirror = disk.mirror
    PROVE  \A h : SafetyRow(h)' = SafetyRow(h)
BY DEF SafetyRow

LEMMA VotesKept ==
    ASSUME VotesInv, RsTypeOK, RsTypeOK', Low <= Low',
           disk'.primary = disk.primary, disk'.mirror = disk.mirror,
           disk'.quarantine = disk.quarantine, disk'.highwater = disk.highwater,
           signedVotes' = signedVotes, overridden' = overridden
    PROVE  VotesInv' /\ (NeverVotesTwice => NeverVotesTwice')
<1>1. \A h : SafetyRow(h)' = SafetyRow(h)
  BY SafetyRowSame
<1>2. Low \in Int /\ Low' \in Int /\ SafetySpan \in Int
  <2>1. disk.cache.at \in Int /\ disk'.cache.at \in Int
    BY DEF RsTypeOK, Rows, Cache
  <2> QED
    BY <2>1, EpochStartBounds, RestartAssumption DEF Low
<1>3. \A s \in signedVotes : s[1] \in Int
  BY DEF RsTypeOK, RowHeights
<1>4. VotesInv'
  BY <1>1, <1>2, <1>3 DEF VotesInv
<1>5. NeverVotesTwice => NeverVotesTwice'
  BY DEF NeverVotesTwice
<1> QED
  BY <1>4, <1>5

-------------------------------------------------------------------------------
(* One lemma per action.                                                       *)

LEMMA NoMemoryType ==
    NoMemory \in [height : Nat, id : Int, state : Cache, votes : [RowHeights -> Int], abstain : SUBSET RowHeights]
BY DEF NoMemory, Cache, NoRow, Absent

LEMMA OpenKeeps ==
    ASSUME RestartInv,
           NEW fast \in BOOLEAN, NEW reindex \in BOOLEAN, NEW discard \in Discards,
           Open(fast, reindex, discard)
    PROVE  RestartInv'
<1> USE DEF RestartInv
<1>0. /\ mem' = NoMemory /\ UNCHANGED <<signedVotes, overridden, reported, lost>>
      /\ \/ ~disk.marker /\ stage' = "genesis" /\ pending' = GenesisRows
         \/ disk.marker /\ stage' \in {"refused", "load"} /\ pending' = <<>>
  BY Zenon DEF Open
<1>1. /\ disk' \in Rows
      /\ disk'.tip = disk.tip /\ disk'.frontier = disk.frontier /\ disk'.cache = disk.cache
      /\ disk'.marker = disk.marker /\ disk'.transitions = disk.transitions /\ disk'.lanes = disk.lanes
      /\ disk'.primary = disk.primary /\ disk'.mirror = disk.mirror
      /\ disk'.quarantine = disk.quarantine /\ disk'.highwater = disk.highwater
  <2> DEFINE c == IF reindex THEN Absent ELSE disk.commitment
             j == disk.json \/ disk.marker
  <2>1. c \in Int /\ j \in BOOLEAN
    BY DEF RsTypeOK, Rows, Absent
  <2>2. disk' = [disk EXCEPT !.commitment = c, !.json = j]
    BY DEF Open
  <2> HIDE DEF c, j
  <2> QED
    BY <2>1, <2>2 DEF RsTypeOK, Rows
<1>2. Low' = Low
  BY <1>1 DEF Low
<1>3. GenesisRows \in Seq(Writes)
  <2>1. persist_canonical_cache_rows(disk.cache, 0) \in Cache
    BY DEF persist_canonical_cache_rows, Cache, Registered, RsTypeOK, Rows
  <2> DEFINE a == Row("marker", TRUE)
             b == Row("json", TRUE)
             c == Row("tip", [height |-> 0, id |-> 0])
             d == Row("cache", persist_canonical_cache_rows(disk.cache, 0))
             e == Row("commitment", 0)
  <2>2. a \in Writes /\ b \in Writes /\ c \in Writes /\ d \in Writes /\ e \in Writes
    BY <2>1 DEF Row, Writes, Tip
  <2>3. GenesisRows = <<a, b, c, d, e>>
    BY DEF GenesisRows
  <2> HIDE DEF RestartInv, a, b, c, d, e
  <2> QED
    BY <2>2, <2>3
<1>4. RsTypeOK'
  <2>1. stage' \in Stages
    BY <1>0 DEF Stages
  <2>2. pending' \in Seq(Writes)
    <3>1. <<>> \in Seq(Writes)
      OBVIOUS
    <3> QED
      BY <1>0, <1>3, <3>1, Zenon
  <2>3. mem' \in [height : Nat, id : Int, state : Cache, votes : [RowHeights -> Int], abstain : SUBSET RowHeights]
    BY <1>0, NoMemoryType
  <2> QED
    BY <1>0, <1>1, <2>1, <2>2, <2>3 DEF RsTypeOK
<1>5. WritesInv'
  <2>1. GenesisRows # <<>> /\ Len(GenesisRows) = 5 /\ GenesisRows[1] = Row("marker", TRUE)
    BY DEF GenesisRows
  <2>2. CASE ~disk.marker
    <3>1. pending' = GenesisRows /\ stage' = "genesis"
      BY <1>0, <2>2
    <3>2. ASSUME NEW i \in 1..5
          PROVE  /\ GenesisRows[i].name # "frontier" /\ GenesisRows[i].name \notin Tables
                 /\ GenesisRows[i].name = "tip" => GenesisRows[i].value = [height |-> 0, id |-> 0]
                 /\ GenesisRows[i].name = "cache" => GenesisRows[i].value.at = 0
      <4>1. i = 1 \/ i = 2 \/ i = 3 \/ i = 4 \/ i = 5
        OBVIOUS
      <4> QED
        BY <4>1 DEF GenesisRows, Row, Tables, persist_canonical_cache_rows
    <3>3. GenesisWrites'
      <4>1. pending'[1] = Row("marker", TRUE)
        BY <2>1, <3>1, Zenon
      <4>2. Len(pending') = 5
        BY <2>1, <3>1, Zenon
      <4> QED
        BY <4>1, <4>2, <3>1, <3>2 DEF GenesisWrites, Row
    <3> QED
      BY <2>1, <3>1, <3>3 DEF WritesInv
  <2>3. CASE disk.marker
    BY <1>0, <2>3 DEF WritesInv
  <2> QED
    BY <2>2, <2>3
<1>6. HistoryInv'
  BY <1>0, <1>1, <1>2 DEF HistoryInv
<1>7. ReportedInv'
  BY <1>0, <1>1 DEF ReportedInv
<1>8. VotesInv' /\ NeverVotesTwice'
  <2>1. Low <= Low'
    BY <1>2, LowBounds
  <2> QED
    BY <1>0, <1>1, <1>4, <2>1, VotesKept
<1>9. MemoryInv'
  BY <1>0 DEF MemoryInv
<1> QED
  BY <1>4, <1>5, <1>6, <1>7, <1>8, <1>9

LEMMA CrashKeeps ==
    ASSUME RestartInv, CrashOrStop
    PROVE  RestartInv'
<1> USE DEF RestartInv
<1>1. disk' = disk /\ stage' = "down"
  BY DEF CrashOrStop
<1>2. Low' = Low
  BY <1>1 DEF Low
<1>4. RsTypeOK'
  <2>1. pending' \in Seq(Writes) /\ stage' \in Stages
    BY DEF CrashOrStop, Stages
  <2> QED
    BY <1>1, <2>1, NoMemoryType DEF RsTypeOK, CrashOrStop
<1>5. WritesInv'
  BY DEF WritesInv, CrashOrStop
<1>6. HistoryInv'
  BY <1>1, <1>2 DEF HistoryInv, CrashOrStop
<1>7. ReportedInv'
  BY <1>1 DEF ReportedInv, CrashOrStop
<1>8. VotesInv' /\ NeverVotesTwice'
  <2>1. Low <= Low'
    BY <1>2, LowBounds
  <2> QED
    BY <1>1, <1>4, <2>1, VotesKept DEF CrashOrStop
<1>9. MemoryInv'
  BY <1>1 DEF MemoryInv
<1> QED
  BY <1>4, <1>5, <1>6, <1>7, <1>8, <1>9

\* One row is written, and never one that records votes.
Written(w) ==
    /\ disk' \in Rows
    /\ disk'.primary = disk.primary /\ disk'.mirror = disk.mirror /\ disk'.lanes = disk.lanes
    /\ disk'.quarantine = disk.quarantine /\ disk'.highwater = disk.highwater
    /\ IF w.name = "marker" THEN disk'.marker = TRUE ELSE disk'.marker = disk.marker
    /\ disk'.frontier = IF w.name = "frontier" THEN w.value ELSE disk.frontier
    /\ disk'.tip = IF w.name = "tip" THEN w.value ELSE disk.tip
    /\ disk'.cache = IF w.name = "cache" THEN w.value ELSE disk.cache
    /\ disk'.transitions = IF w.name = "transitions" THEN w.value ELSE disk.transitions

LEMMA WriteEffect ==
    ASSUME RsTypeOK, NEW w \in Writes, disk' = [disk EXCEPT ![w.name] = w.value]
    PROVE  Written(w)
<1> USE DEF Written
<1>1. CASE w.name = "marker" /\ w.value = TRUE
  BY <1>1 DEF RsTypeOK, Rows
<1>2. CASE w.name = "json" /\ w.value = TRUE
  BY <1>2 DEF RsTypeOK, Rows
<1>3. CASE w.name = "transitions" /\ w.value \in SUBSET Int
  BY <1>3 DEF RsTypeOK, Rows
<1>4. CASE w.name = "mapped" /\ w.value \in SUBSET Int
  BY <1>4 DEF RsTypeOK, Rows
<1>5. CASE w.name = "certs" /\ w.value \in SUBSET Int
  BY <1>5 DEF RsTypeOK, Rows
<1>6. CASE w.name = "hash" /\ w.value \in SUBSET Int
  BY <1>6 DEF RsTypeOK, Rows
<1>7. CASE w.name = "frontier" /\ w.value \in Int
  BY <1>7 DEF RsTypeOK, Rows
<1>8. CASE w.name = "commitment" /\ w.value \in Int
  BY <1>8 DEF RsTypeOK, Rows
<1>9. CASE w.name = "tip" /\ w.value \in Tip
  BY <1>9 DEF RsTypeOK, Rows
<1>10. CASE w.name = "cache" /\ w.value \in Cache
  BY <1>10 DEF RsTypeOK, Rows
<1> QED
  BY <1>1, <1>2, <1>3, <1>4, <1>5, <1>6, <1>7, <1>8, <1>9, <1>10 DEF Writes, Tables

\* The rest of the writes.
LEMMA TailOfWrites ==
    ASSUME RsTypeOK, pending # <<>>, pending' = Tail(pending)
    PROVE  /\ Head(pending) \in Writes /\ Head(pending) = pending[1] /\ Len(pending) \in Nat \ {0}
           /\ pending' \in Seq(Writes) /\ Len(pending') = Len(pending) - 1
           /\ \A i \in 1..Len(pending') : pending'[i] = pending[i + 1]
           /\ pending' = <<>> <=> Len(pending) = 1
<1>1. pending \in Seq(Writes)
  BY DEF RsTypeOK
<1>2. /\ Head(pending) \in Writes /\ Head(pending) = pending[1] /\ Len(pending) \in Nat \ {0}
  BY <1>1
<1>3. /\ pending' \in Seq(Writes) /\ Len(pending') = Len(pending) - 1
  BY <1>1
<1>4. \A i \in 1..Len(pending') : pending'[i] = pending[i + 1]
  BY <1>1, <1>3
<1>5. pending' = <<>> <=> Len(pending) = 1
  <2>1. pending' = <<>> <=> Len(pending') = 0
    BY <1>3
  <2> QED
    BY <1>2, <1>3, <2>1
<1> QED
  BY <1>2, <1>3, <1>4, <1>5

LEMMA WriteStep ==
    ASSUME RestartInv, WriteRow
    PROVE  /\ UNCHANGED <<boot, mem, signedVotes, overridden, reported, lost>>
           /\ Head(pending) \in Writes /\ Head(pending) = pending[1] /\ Len(pending) \in Nat \ {0}
           /\ pending' \in Seq(Writes) /\ Len(pending') = Len(pending) - 1
           /\ \A i \in 1..Len(pending') : i + 1 \in 1..Len(pending) /\ pending'[i] = pending[i + 1]
           /\ pending' = <<>> <=> Len(pending) = 1
           /\ Written(Head(pending))
<1>1. /\ pending # <<>> /\ pending' = Tail(pending)
      /\ disk' = [disk EXCEPT ![Head(pending).name] = Head(pending).value]
      /\ UNCHANGED <<boot, mem, signedVotes, overridden, reported, lost>>
  BY DEF WriteRow
<1>2. RsTypeOK
  BY DEF RestartInv
<1>3. /\ Head(pending) \in Writes /\ Head(pending) = pending[1] /\ Len(pending) \in Nat \ {0}
      /\ pending' \in Seq(Writes) /\ Len(pending') = Len(pending) - 1
      /\ \A i \in 1..Len(pending') : pending'[i] = pending[i + 1]
      /\ pending' = <<>> <=> Len(pending) = 1
  BY <1>1, <1>2, TailOfWrites
<1>4. \A i \in 1..Len(pending') : i + 1 \in 1..Len(pending)
  BY <1>3
<1>5. Written(Head(pending))
  BY <1>1, <1>2, <1>3, WriteEffect
<1> QED
  BY <1>1, <1>3, <1>4, <1>5

LEMMA GenesisWrite ==
    ASSUME RestartInv, WriteRow, stage = "genesis"
    PROVE  RestartInv'
<1> USE DEF RestartInv
<1> DEFINE w == Head(pending)
<1>1. UNCHANGED <<boot, mem, signedVotes, overridden, reported, lost>>
  BY WriteStep
<1>2. /\ w \in Writes /\ w = pending[1] /\ Len(pending) \in Nat \ {0}
      /\ pending' \in Seq(Writes) /\ Len(pending') = Len(pending) - 1
      /\ \A i \in 1..Len(pending') : i + 1 \in 1..Len(pending) /\ pending'[i] = pending[i + 1]
      /\ pending' = <<>> <=> Len(pending) = 1
  BY WriteStep
<1>3. stage' = IF Len(pending) > 1 THEN "genesis" ELSE "load"
  BY DEF WriteRow
<1>4. Written(w)
  BY WriteStep
<1>5. /\ disk.frontier = Absent /\ disk.cache.at <= 0 /\ reported = 0 /\ GenesisWrites
  BY DEF HistoryInv, WritesInv
<1>6. /\ w.name # "frontier" /\ w.name \notin Tables
      /\ w.name = "tip" => w.value = [height |-> 0, id |-> 0]
      /\ w.name = "cache" => w.value.at = 0
  BY <1>2, <1>5 DEF GenesisWrites
<1>7. disk'.marker = TRUE
  BY <1>2, <1>4, <1>5 DEF GenesisWrites, Row, RsTypeOK, Rows, Written
<1>8. /\ disk'.frontier = Absent /\ disk'.cache.at \in Int /\ disk'.cache.at <= 0
      /\ disk'.transitions = disk.transitions
      /\ disk'.tip = disk.tip \/ disk'.tip = [height |-> 0, id |-> 0]
      /\ disk'.cache.at >= disk.cache.at /\ disk.cache.at \in Int
  BY <1>4, <1>5, <1>6 DEF Tables, RsTypeOK, Rows, Cache, Written
<1> HIDE DEF w
<1>9. RsTypeOK'
  BY <1>1, <1>2, <1>3, <1>4 DEF RsTypeOK, Stages, Written
<1>10. WritesInv'
  <2>1. GenesisWrites'
    <3>1. ASSUME NEW i \in 1..Len(pending')
          PROVE  /\ pending'[i].name # "frontier" /\ pending'[i].name \notin Tables
                 /\ pending'[i].name = "tip" => pending'[i].value = [height |-> 0, id |-> 0]
                 /\ pending'[i].name = "cache" => pending'[i].value.at = 0
      <4>1. i + 1 \in 1..Len(pending) /\ pending'[i] = pending[i + 1]
        BY <1>2
      <4> QED
        BY <4>1, <1>5 DEF GenesisWrites
    <3> QED
      BY <3>1, <1>7 DEF GenesisWrites
  <2> QED
    BY <1>2, <1>3, <2>1 DEF WritesInv
<1>11. HistoryInv'
  BY <1>3, <1>1, <1>7, <1>8, <1>5 DEF HistoryInv, Absent, NoTip
<1>12. ReportedInv'
  BY <1>1, <1>3, <1>4, <1>5, <1>8 DEF ReportedInv, Written, NoTip
<1>13. VotesInv' /\ NeverVotesTwice'
  <2>1. Low <= Low'
    <3>1. disk'.cache.at + 1 >= RsEpochStart(disk.cache.at + 1)
      BY <1>8, EpochStartBounds
    <3> QED
      BY <1>8, <3>1, EpochStartMonotone, EpochStartBounds DEF Low
  <2> QED
    BY <1>1, <1>4, <1>9, <2>1, VotesKept DEF Written
<1>14. MemoryInv'
  BY <1>3 DEF MemoryInv
<1> QED
  BY <1>9, <1>10, <1>11, <1>12, <1>13, <1>14

LEMMA RepairWrite ==
    ASSUME RestartInv, WriteRow, stage = "repair"
    PROVE  RestartInv'
<1> USE DEF RestartInv
<1> DEFINE w == Head(pending)
           n == Len(pending)
<1>1. UNCHANGED <<boot, mem, signedVotes, overridden, reported, lost>>
  BY WriteStep
<1>2. /\ w \in Writes /\ w = pending[1] /\ n \in Nat \ {0}
      /\ pending' \in Seq(Writes) /\ Len(pending') = n - 1
      /\ \A i \in 1..Len(pending') : i + 1 \in 1..Len(pending) /\ pending'[i] = pending[i + 1]
      /\ pending' = <<>> <=> n = 1
  BY WriteStep
<1>3. stage' = IF n > 1 THEN "repair" ELSE "replay"
  BY DEF WriteRow
<1>4. Written(w)
  BY WriteStep
<1>5. RepairWrites /\ mem.height \in Nat /\ mem.id \in Int
  BY DEF WritesInv, RsTypeOK
<1>6. /\ n = 1 => w = Row("tip", [height |-> mem.height, id |-> mem.id])
      /\ n = 2 => w = Row("frontier", mem.height)
      /\ n = 3 => w = Row("frontier", Absent)
      /\ n > 3 => w.name \in Tables
  <2>1. n = 1 => w = Row("tip", [height |-> mem.height, id |-> mem.id])
    BY <1>2, <1>5 DEF RepairWrites
  <2>2. n = 2 => w = Row("frontier", mem.height)
    BY <1>2, <1>5 DEF RepairWrites
  <2>3. n = 3 => w = Row("frontier", Absent)
    BY <1>2, <1>5 DEF RepairWrites
  <2>4. n > 3 => w.name \in Tables
    BY <1>2, <1>5 DEF RepairWrites
  <2> QED
    BY <2>1, <2>2, <2>3, <2>4
<1>7. /\ disk'.marker = disk.marker /\ disk'.cache = disk.cache
      /\ n # 1 => disk'.tip = disk.tip
      /\ n = 1 => disk'.tip = [height |-> mem.height, id |-> mem.id]
      /\ disk'.frontier = IF n = 2 THEN mem.height ELSE IF n = 3 THEN Absent ELSE disk.frontier
      /\ disk'.transitions \ disk'.lanes \subseteq lost
  <2>1. w.name = "transitions" => w.value \ disk.lanes \subseteq lost
    BY <1>2, <1>5 DEF RepairWrites
  <2>2. n = 1 \/ n = 2 \/ n = 3 \/ n > 3
    BY <1>2
  <2> HIDE DEF w, n
  <2> QED
    BY <1>4, <1>6, <2>1, <2>2 DEF Written, Row, Tables, ReportedInv
<1> HIDE DEF w, n
<1>8. Low' = Low /\ Low \in Int
  BY <1>7, LowBounds DEF Low
<1>9. RsTypeOK'
  BY <1>1, <1>2, <1>3, <1>4 DEF RsTypeOK, Stages, Written
<1>10. WritesInv'
  <2>1. CASE n > 1
    <3>1. RepairWrites'
      <4>1. Len(pending') = n - 1 /\ mem' = mem /\ lost' = lost
        BY <1>1, <1>2
      <4>2. pending'[n - 1] = pending[n]
        BY <1>2, <2>1
      <4>3. n - 1 >= 2 => pending'[n - 2] = pending[n - 1]
        BY <1>2
      <4>4. n - 1 >= 3 => pending'[n - 3] = pending[n - 2]
        BY <1>2
      <4>5. \A i \in 1..(n - 1 - 3) : pending'[i].name \in Tables
        <5>1. SUFFICES ASSUME NEW i \in 1..(n - 4) PROVE pending'[i].name \in Tables
          BY <1>2
        <5>2. i \in 1..Len(pending') /\ i + 1 \in 1..(n - 3)
          BY <1>2
        <5> QED
          BY <1>2, <1>5, <5>2 DEF RepairWrites, n
      <4>6. n - 1 = 1 => disk'.frontier = mem.height
        BY <1>7
      <4>7. ASSUME NEW i \in 1..(n - 1), pending'[i].name = "transitions"
            PROVE  pending'[i].value \ disk'.lanes \subseteq lost
        BY <1>2, <1>4, <1>5, <4>7 DEF RepairWrites, Written, n
      <4>8. disk'.tip.height > 0 /\ Low' <= mem.height /\ mem.height + 1 \in lost
        BY <1>5, <1>7, <1>8, <2>1 DEF RepairWrites
      <4> QED
        BY <4>1, <4>2, <4>3, <4>4, <4>5, <4>6, <4>7, <4>8, <1>5, <1>2, <2>1 DEF RepairWrites, n
    <3> QED
      BY <1>2, <1>3, <2>1, <3>1 DEF WritesInv
  <2>2. CASE n = 1
    BY <1>2, <1>3, <2>2 DEF WritesInv
  <2> QED
    BY <1>2, <2>1, <2>2
<1>11. HistoryInv'
  <2>1. /\ disk.marker /\ disk'.marker /\ Low <= mem.height /\ disk.tip.height > 0
        /\ mem.height > 0 => mem.id = mem.height
        /\ n = 1 => disk.frontier = mem.height
        /\ mem' = mem /\ reported' = reported /\ disk.tip.height \in Int /\ disk.frontier \in Int
    BY <1>1, <1>5, <1>7 DEF HistoryInv, RepairWrites, n, RsTypeOK, Rows, Tip
  <2>2. CASE n > 1
    BY <1>2, <1>3, <1>5, <1>7, <1>8, <2>1, <2>2 DEF HistoryInv, Absent
  <2>3. CASE n = 1
    <3>1. disk'.tip.height = mem.height /\ disk'.tip.id = mem.id /\ stage' = "replay" /\ disk'.frontier = mem.height
      BY <1>3, <1>7, <2>1, <2>3
    <3> QED
      BY <1>5, <1>8, <2>1, <3>1 DEF HistoryInv, Absent
  <2> QED
    BY <1>2, <2>2, <2>3
<1>12. ReportedInv'
  BY <1>1, <1>3, <1>5, <1>7 DEF ReportedInv, RepairWrites, NoTip, Absent, RsTypeOK
<1>13. VotesInv' /\ NeverVotesTwice'
  <2>1. Low <= Low'
    BY <1>8
  <2> QED
    BY <1>1, <1>4, <1>9, <2>1, VotesKept DEF Written
<1>14. MemoryInv'
  BY <1>3 DEF MemoryInv
<1> QED
  BY <1>9, <1>10, <1>11, <1>12, <1>13, <1>14

LEMMA SaveWrite ==
    ASSUME RestartInv, WriteRow, stage = "save"
    PROVE  RestartInv'
<1> USE DEF RestartInv
<1> DEFINE w == Head(pending)
           n == Len(pending)
<1>1. UNCHANGED <<boot, mem, signedVotes, overridden, reported, lost>>
  BY WriteStep
<1>2. /\ w \in Writes /\ w = pending[1] /\ n \in Nat \ {0}
      /\ pending' \in Seq(Writes) /\ Len(pending') = n - 1
      /\ \A i \in 1..Len(pending') : i + 1 \in 1..Len(pending) /\ pending'[i] = pending[i + 1]
      /\ pending' = <<>> <=> n = 1
  BY WriteStep
<1>3. stage' = IF n > 1 THEN "save" ELSE "restore"
  BY DEF WriteRow
<1>4. Written(w)
  BY WriteStep
<1>5. SaveWrites /\ mem.height \in Nat /\ Low <= mem.height
  BY DEF WritesInv, RsTypeOK, SaveWrites
<1>6. /\ n = 1 => w.name = "cache" /\ w.value.at = mem.height
      /\ n > 1 => w.name = "commitment"
  BY <1>2, <1>5 DEF SaveWrites
<1>7. /\ disk'.marker = disk.marker /\ disk'.tip = disk.tip /\ disk'.frontier = disk.frontier
      /\ disk'.transitions = disk.transitions
      /\ disk'.cache.at = IF n = 1 THEN mem.height ELSE disk.cache.at
  BY <1>2, <1>4, <1>6 DEF Written
<1> HIDE DEF w, n
<1>8. /\ Low \in Int /\ Low' \in Int /\ Low <= Low' /\ Low' <= mem.height
      /\ n > 1 => Low' = Low
  <2>1. disk.cache.at \in Int /\ Low \in Int
    BY LowBounds DEF RsTypeOK, Rows, Cache
  <2>2. CASE n = 1
    <3>1. Low' = RsEpochStart(mem.height + 1) - 1
      BY <1>7, <2>2 DEF Low
    <3>2. mem.height + 1 >= RsEpochStart(disk.cache.at + 1)
      BY <1>5, <2>1, EpochStartBounds DEF Low
    <3>3. RsEpochStart(mem.height + 1) >= RsEpochStart(disk.cache.at + 1)
      BY <1>5, <2>1, <3>2, EpochStartMonotone
    <3> QED
      BY <1>5, <2>1, <2>2, <3>1, <3>3, EpochStartBounds DEF Low
  <2>3. CASE n > 1
    BY <1>5, <1>7, <2>1, <2>3 DEF Low
  <2> QED
    BY <1>2, <2>2, <2>3
<1>9. RsTypeOK'
  BY <1>1, <1>2, <1>3, <1>4 DEF RsTypeOK, Stages, Written
<1>10. WritesInv'
  <2>1. CASE n > 1
    <3>1. SaveWrites'
      <4>1. Len(pending') = n - 1 /\ mem' = mem /\ pending'[n - 1] = pending[n]
        BY <1>1, <1>2, <2>1
      <4>2. \A i \in 1..(n - 1 - 1) : pending'[i].name = "commitment"
        <5>1. SUFFICES ASSUME NEW i \in 1..(n - 2) PROVE pending'[i].name = "commitment"
          BY <1>2
        <5>2. i \in 1..Len(pending') /\ i + 1 \in 1..(n - 1)
          BY <1>2
        <5> QED
          BY <1>2, <1>5, <5>2 DEF SaveWrites, n
      <4> QED
        BY <4>1, <4>2, <1>5, <1>7, <1>8, <2>1 DEF SaveWrites, n
    <3> QED
      BY <1>2, <1>3, <2>1, <3>1 DEF WritesInv
  <2>2. CASE n = 1
    BY <1>2, <1>3, <2>2 DEF WritesInv
  <2> QED
    BY <1>2, <2>1, <2>2
<1>11. HistoryInv'
  <2>1. /\ disk.marker /\ disk'.marker /\ mem' = mem /\ reported' = reported
        /\ disk.tip.height = mem.height /\ disk.tip.id = mem.id
        /\ mem.id = mem.height /\ mem.state = StateAt(mem.height)
    BY <1>1, <1>7 DEF HistoryInv
  <2>2. CASE n > 1
    BY <1>3, <1>7, <1>8, <2>1, <2>2 DEF HistoryInv
  <2>3. CASE n = 1
    <3>1. stage' = "restore" /\ disk'.cache.at = mem.height
      BY <1>3, <1>7, <2>3
    <3>2. disk.frontier # Absent => Low' <= disk.frontier
      <4>1. CASE disk.cache.at = mem.height
        BY <3>1, <4>1 DEF HistoryInv, Low
      <4>2. CASE disk.frontier = mem.height
        BY <1>8, <4>2
      <4> QED
        BY <1>5, <4>1, <4>2 DEF SaveWrites
    <3> QED
      BY <1>5, <1>7, <1>8, <2>1, <3>1, <3>2 DEF HistoryInv
  <2> QED
    BY <1>2, <2>2, <2>3
<1>12. ReportedInv'
  BY <1>1, <1>3, <1>4, <1>7 DEF ReportedInv, Written
<1>13. VotesInv' /\ NeverVotesTwice'
  BY <1>1, <1>4, <1>9, <1>8, VotesKept DEF Written
<1>14. MemoryInv'
  BY <1>3 DEF MemoryInv
<1> QED
  BY <1>9, <1>10, <1>11, <1>12, <1>13, <1>14

LEMMA SavedRows ==
    ASSUME RsTypeOK, NEW h \in Int
    PROVE  /\ SaveState(h) \in Seq(Writes) /\ Len(SaveState(h)) = 3
           /\ SaveState(h)[1].name = "commitment" /\ SaveState(h)[2].name = "commitment"
           /\ SaveState(h)[3].name = "cache" /\ SaveState(h)[3].value.at = h
<1> DEFINE a == Row("commitment", Absent)
           b == Row("commitment", h)
           c == Row("cache", persist_canonical_cache_rows(disk.cache, h))
<1>1. SaveState(h) = <<a, b, c>>
  BY DEF SaveState
<1>2. persist_canonical_cache_rows(disk.cache, h) \in Cache
  BY DEF persist_canonical_cache_rows, Cache, Registered, RsTypeOK, Rows
<1>3. a \in Writes /\ b \in Writes /\ c \in Writes
  BY <1>2 DEF Row, Writes, Absent
<1>4. a.name = "commitment" /\ b.name = "commitment" /\ c.name = "cache" /\ c.value.at = h
  BY DEF Row, persist_canonical_cache_rows
<1> HIDE DEF a, b, c
<1> QED
  BY <1>1, <1>3, <1>4

LEMMA RolledBackRows ==
    ASSUME RsTypeOK, NEW bad \in Nat, NEW f \in Nat, 1 <= bad, bad <= f
    PROVE  LET R == RollbackRows(bad, f)
               n == Len(R)
           IN  /\ R \in Seq(Writes) /\ n >= 3
               /\ R[n] = Row("tip", [height |-> bad - 1, id |-> IF bad = 1 THEN Absent ELSE bad - 1])
               /\ R[n - 1] = Row("frontier", bad - 1)
               /\ R[n - 2] = Row("frontier", Absent)
               /\ \A i \in 1..(n - 3) :
                     R[i].name \in Tables /\ (R[i].name = "transitions" => R[i].value \subseteq disk.transitions)
<1> DEFINE k == 4 * (f - bad + 1)
           tables == <<"transitions", "mapped", "certs", "hash">>
           Erased(i) == LET name == tables[(i % 4) + 1] IN Row(name, disk[name] \ ((f - (i \div 4))..f))
           E == [i \in 1..k |-> Erased(i - 1)]
           a == Row("frontier", Absent)
           b == Row("frontier", bad - 1)
           c == Row("tip", [height |-> bad - 1, id |-> IF bad = 1 THEN Absent ELSE bad - 1])
           R == RollbackRows(bad, f)
<1>1. R = E \o <<a, b, c>>
  BY DEF RollbackRows
<1>2. k \in Nat
  OBVIOUS
<1>3. a \in Writes /\ b \in Writes /\ c \in Writes
  BY DEF Row, Writes, Absent, Tip
<1>4. ASSUME NEW i \in 1..k
      PROVE  /\ E[i] \in Writes /\ E[i].name \in Tables
             /\ E[i].name = "transitions" => E[i].value \subseteq disk.transitions
  <2> DEFINE j == i - 1
             name == tables[(j % 4) + 1]
  <2>1. (j % 4) + 1 \in 1..4
    BY <1>2
  <2>2. name \in Tables
    <3>1. (j % 4) + 1 = 1 \/ (j % 4) + 1 = 2 \/ (j % 4) + 1 = 3 \/ (j % 4) + 1 = 4
      BY <2>1
    <3> QED
      BY <3>1 DEF Tables
  <2> HIDE DEF name, tables
  <2>3. disk[name] \in SUBSET Int
    BY <2>2 DEF Tables, RsTypeOK, Rows
  <2>4. E[i] = Row(name, disk[name] \ ((f - (j \div 4))..f))
    BY DEF name
  <2>5. /\ E[i].name = name /\ E[i].value \subseteq disk[name]
        /\ E[i] = [name |-> name, value |-> E[i].value]
    BY <2>4 DEF Row
  <2> HIDE DEF E, Erased
  <2> QED
    BY <2>2, <2>3, <2>5 DEF Writes
<1> HIDE DEF k, E, Erased, a, b, c, R
<1>5. E \in Seq(Writes) /\ Len(E) = k
  <2>1. E = [i \in 1..k |-> E[i]]
    BY DEF E
  <2> QED
    BY <1>2, <1>4, <2>1
<1>6. <<a, b, c>> \in Seq(Writes) /\ Len(<<a, b, c>>) = 3
  BY <1>3
<1>7. R \in Seq(Writes) /\ Len(R) = k + 3
  BY <1>1, <1>5, <1>6
<1>8. \A i \in 1..k : R[i] = E[i]
  BY <1>1, <1>2, <1>5
<1>9. R[k + 1] = a /\ R[k + 2] = b /\ R[k + 3] = c
  BY <1>1, <1>2, <1>5
<1>10. Len(R) - 1 = k + 2 /\ Len(R) - 2 = k + 1 /\ Len(R) - 3 = k /\ Len(R) >= 3
  BY <1>2, <1>7
<1>11. /\ R[Len(R)] = c /\ R[Len(R) - 1] = b /\ R[Len(R) - 2] = a
  BY <1>7, <1>9, <1>10
<1> QED
  BY <1>4, <1>7, <1>8, <1>10, <1>11 DEF R, a, b, c

LEMMA LoadTipKeeps ==
    ASSUME RestartInv, LoadTip
    PROVE  RestartInv'
<1> USE DEF RestartInv
<1> DEFINE t == IF disk.tip = NoTip THEN [height |-> 0, id |-> Absent] ELSE disk.tip
<1>1. /\ stage = "load" /\ disk' = [disk EXCEPT !.tip = t]
      /\ UNCHANGED <<boot, signedVotes, overridden, reported, lost>>
  BY DEF LoadTip
<1>2. /\ t \in Tip /\ t.height \in Nat /\ t.height \in Int /\ t.id \in Int /\ t # NoTip
      /\ t.height > 0 => t = disk.tip
      /\ disk.tip = NoTip => t.height = 0
      /\ disk.tip # NoTip => t = disk.tip
  BY DEF HistoryInv, RsTypeOK, Rows, Tip, NoTip, Absent
<1> HIDE DEF t
<1>3. /\ disk' \in Rows /\ disk'.tip = t
      /\ disk'.frontier = disk.frontier /\ disk'.cache = disk.cache
      /\ disk'.marker = disk.marker /\ disk'.transitions = disk.transitions /\ disk'.lanes = disk.lanes
      /\ disk'.primary = disk.primary /\ disk'.mirror = disk.mirror
      /\ disk'.quarantine = disk.quarantine /\ disk'.highwater = disk.highwater
  BY <1>1, <1>2 DEF RsTypeOK, Rows
<1>4. \/ stage' = "refused" /\ pending' = pending /\ mem' = mem
      \/ /\ stage' = "replay" /\ pending' = pending
         /\ mem' = [mem EXCEPT !.height = t.height, !.id = t.id]
      \/ /\ stage' = "save" /\ pending' = SaveState(t.height)
         /\ mem' = [mem EXCEPT !.height = t.height, !.id = t.id, !.state = disk.cache]
         /\ disk.cache = StateAt(t.height) /\ t.height > 0
  BY DEF LoadTip, t, trusted_checkpoint
<1>5. Low' = Low /\ Low \in Int /\ Low <= disk.cache.at
  BY <1>3, LowBounds DEF Low
<1>6. pending = <<>>
  BY <1>1 DEF WritesInv
<1>7. /\ SaveState(t.height) \in Seq(Writes) /\ Len(SaveState(t.height)) = 3
      /\ SaveState(t.height)[1].name = "commitment" /\ SaveState(t.height)[2].name = "commitment"
      /\ SaveState(t.height)[3].name = "cache" /\ SaveState(t.height)[3].value.at = t.height
  BY <1>2, SavedRows
<1>8. /\ mem' \in [height : Nat, id : Int, state : Cache, votes : [RowHeights -> Int], abstain : SUBSET RowHeights]
      /\ stage' \in {"replay", "save"} => mem'.height = t.height /\ mem'.id = t.id
      /\ stage' = "save" => mem'.state = StateAt(t.height)
  BY <1>2, <1>4 DEF RsTypeOK, Rows
<1>9. RsTypeOK'
  <2>1. pending' \in Seq(Writes)
    <3>1. <<>> \in Seq(Writes)
      OBVIOUS
    <3> QED
      BY <1>4, <1>6, <1>7, <3>1, Zenon
  <2> QED
    BY <1>1, <1>3, <1>4, <1>8, <2>1 DEF RsTypeOK, Stages
<1>10. WritesInv'
  <2>1. CASE stage' = "save"
    <3>1. /\ pending' = SaveState(t.height) /\ disk.cache.at = t.height
      BY <1>4, <2>1 DEF StateAt
    <3>2. /\ pending' \in Seq(Writes) /\ Len(pending') = 3
          /\ pending'[1].name = "commitment" /\ pending'[2].name = "commitment"
          /\ pending'[3].name = "cache" /\ pending'[3].value.at = t.height
      BY <1>7, <3>1, Zenon
    <3>3. SaveWrites'
      BY <1>2, <1>3, <1>5, <1>8, <2>1, <3>1, <3>2 DEF SaveWrites
    <3>4. pending' # <<>>
      BY <3>2
    <3> QED
      BY <2>1, <3>3, <3>4 DEF WritesInv
  <2>2. CASE stage' # "save"
    BY <1>4, <1>6, <2>2 DEF WritesInv
  <2> QED
    BY <2>1, <2>2
<1>11. HistoryInv'
  <2>1. disk.tip = NoTip => disk.tip.height = -1
    BY DEF NoTip, Absent
  <2>2. stage' = "save" => mem'.id = mem'.height /\ mem'.state = StateAt(mem'.height)
    BY <1>2, <1>4, <1>8 DEF HistoryInv
  <2>3. stage' \in {"refused", "replay", "save"} /\ reported' = reported /\ disk.marker
    BY <1>1, <1>4 DEF HistoryInv
  <2> QED
    BY <1>2, <1>3, <1>5, <1>8, <2>1, <2>2, <2>3 DEF HistoryInv
<1>12. ReportedInv'
  BY <1>1, <1>4, <1>2, <1>3 DEF ReportedInv
<1>13. VotesInv' /\ NeverVotesTwice'
  BY <1>1, <1>3, <1>5, <1>9, VotesKept
<1>14. MemoryInv'
  BY <1>4 DEF MemoryInv
<1> QED
  BY <1>9, <1>10, <1>11, <1>12, <1>13, <1>14

LEMMA ReplayKeeps ==
    ASSUME RestartInv, Replay
    PROVE  RestartInv'
<1> USE DEF RestartInv
<1> DEFINE f == IF disk.frontier = Absent THEN 0 ELSE disk.frontier
           bad == Smallest(Unloadable(f))
<1>1. /\ stage = "replay" /\ disk' = disk
      /\ UNCHANGED <<signedVotes, overridden, reported, lost>>
  BY DEF Replay
<1>2. pending = <<>>
  BY <1>1 DEF WritesInv
<1>3. Low' = Low /\ Low \in Int /\ Low <= disk.cache.at /\ disk.cache.at \in Int /\ f \in Int
  BY <1>1, LowBounds DEF Low, RsTypeOK, Rows, Cache, Absent
<1>4. disk.tip.height = mem.height /\ disk.tip.id = mem.id /\ disk.marker /\ mem.height \in Nat
  BY <1>1 DEF HistoryInv, RsTypeOK
<1>5. \/ /\ mem.height = f /\ mem.id = f /\ mem' = [mem EXCEPT !.state = StateAt(f)]
         /\ pending' = SaveState(f) /\ stage' = "save"
      \/ /\ Unloadable(f) # {} /\ LacksLaneRecord(bad) /\ CanRollBack(bad, f)
         /\ mem' = [mem EXCEPT !.height = bad - 1, !.id = IF bad = 1 THEN Absent ELSE bad - 1]
         /\ pending' = RollbackRows(bad, f) /\ stage' = "repair"
      \/ stage' = "refused" /\ UNCHANGED <<pending, mem>>
  BY DEF Replay
<1> DEFINE Memory == [height : Nat, id : Int, state : Cache, votes : [RowHeights -> Int], abstain : SUBSET RowHeights]
<1>6. CASE /\ mem.height = f /\ mem.id = f /\ mem' = [mem EXCEPT !.state = StateAt(f)]
           /\ pending' = SaveState(f) /\ stage' = "save"
  <2> HIDE DEF bad
  <2>1. /\ SaveState(f) \in Seq(Writes) /\ Len(SaveState(f)) = 3
        /\ SaveState(f)[1].name = "commitment" /\ SaveState(f)[2].name = "commitment"
        /\ SaveState(f)[3].name = "cache" /\ SaveState(f)[3].value.at = f
    BY <1>3, SavedRows
  <2>2. Low <= f
    BY <1>3, <1>4, <1>6 DEF HistoryInv
  <2>3. disk.frontier = f \/ (disk.frontier = Absent /\ f = 0)
    <3>1. CASE disk.frontier = Absent
      BY <3>1
    <3>2. CASE disk.frontier # Absent
      BY <3>2
    <3> QED
      BY <3>1, <3>2
  <2> HIDE DEF f
  <2>4. /\ mem' \in Memory /\ mem'.height = f /\ mem'.id = f /\ mem'.state = StateAt(f)
    BY <1>3, <1>6 DEF RsTypeOK, StateAt, Cache
  <2>5. RsTypeOK'
    BY <1>1, <1>6, <2>1, <2>4 DEF RsTypeOK, Stages
  <2>6. WritesInv'
    <3>1. /\ pending' \in Seq(Writes) /\ Len(pending') = 3
          /\ pending'[1].name = "commitment" /\ pending'[2].name = "commitment"
          /\ pending'[3].name = "cache" /\ pending'[3].value.at = f
      BY <1>6, <2>1, Zenon
    <3>2. SaveWrites'
      BY <1>1, <1>3, <2>2, <2>3, <2>4, <3>1 DEF SaveWrites
    <3>3. pending' # <<>>
      BY <3>1
    <3> QED
      BY <1>6, <3>2, <3>3 DEF WritesInv
  <2>7. HistoryInv'
    BY <1>1, <1>3, <1>4, <1>6, <2>4 DEF HistoryInv
  <2>8. ReportedInv' /\ MemoryInv'
    BY <1>1, <1>6 DEF ReportedInv, MemoryInv
  <2>9. VotesInv' /\ NeverVotesTwice'
    BY <1>1, <1>3, <2>5, VotesKept
  <2> QED
    BY <2>5, <2>6, <2>7, <2>8, <2>9
<1>7. CASE /\ Unloadable(f) # {} /\ LacksLaneRecord(bad) /\ CanRollBack(bad, f)
           /\ mem' = [mem EXCEPT !.height = bad - 1, !.id = IF bad = 1 THEN Absent ELSE bad - 1]
           /\ pending' = RollbackRows(bad, f) /\ stage' = "repair"
  <2>1. bad \in 1..f
    BY <1>3, <1>7, SmallestOfSome DEF Unloadable
  <2>2. f = disk.frontier /\ f >= 1 /\ bad \in Nat /\ f \in Nat /\ 1 <= bad /\ bad <= f
    BY <1>3, <2>1
  <2> HIDE DEF bad, f
  <2>3. disk.tip.height > 0
    BY <1>4, <2>2 DEF HistoryInv
  <2>4. bad - 1 >= Low
    <3>1. Low <= f
      BY <1>3, <2>2 DEF HistoryInv, Absent
    <3> QED
      BY <1>7, <3>1 DEF CanRollBack, repair_floor, Low
  <2>5. bad \in lost
    BY <1>7 DEF LacksLaneRecord, ReportedInv
  <2>6. /\ mem' \in Memory /\ mem'.height = bad - 1 /\ mem'.id = IF bad = 1 THEN Absent ELSE bad - 1
    <3> DEFINE z == IF bad = 1 THEN Absent ELSE bad - 1
    <3>1. z \in Int /\ bad - 1 \in Nat
      BY <2>2 DEF Absent
    <3> HIDE DEF z
    <3>2. mem' = [mem EXCEPT !.height = bad - 1, !.id = z]
      BY <1>7 DEF z
    <3>3. mem' \in Memory /\ mem'.height = bad - 1 /\ mem'.id = z
      BY <3>1, <3>2 DEF RsTypeOK
    <3> QED
      BY <3>3 DEF z
  <2> DEFINE R == RollbackRows(bad, f)
             n == Len(R)
  <2>7. /\ R \in Seq(Writes) /\ n >= 3
        /\ R[n] = Row("tip", [height |-> bad - 1, id |-> IF bad = 1 THEN Absent ELSE bad - 1])
        /\ R[n - 1] = Row("frontier", bad - 1)
        /\ R[n - 2] = Row("frontier", Absent)
        /\ \A i \in 1..(n - 3) :
              R[i].name \in Tables /\ (R[i].name = "transitions" => R[i].value \subseteq disk.transitions)
    BY <2>2, RolledBackRows
  <2>8. pending' = R
    BY <1>7
  <2> HIDE DEF R
  <2>9. RsTypeOK'
    BY <1>1, <1>7, <2>6, <2>7, <2>8 DEF RsTypeOK, Stages
  <2>10. WritesInv'
    <3>1. \A i \in 1..n : R[i].name = "transitions" => R[i].value \ disk.lanes \subseteq lost
      <4>1. ASSUME NEW i \in 1..n, R[i].name = "transitions"
            PROVE  i \in 1..(n - 3)
        <5>1. n \in Nat
          BY <2>7
        <5>2. R[n].name = "tip" /\ R[n - 1].name = "frontier" /\ R[n - 2].name = "frontier"
          BY <2>7 DEF Row
        <5>3. i # n /\ i # n - 1 /\ i # n - 2
          BY <4>1, <5>2
        <5> HIDE DEF n
        <5> QED
          BY <5>1, <5>3
      <4> QED
        BY <4>1, <2>7 DEF ReportedInv
    <3>2. RepairWrites'
      <4>1. mem'.height > 0 => mem'.id = mem'.height
        BY <2>2, <2>6
      <4>2. mem'.height + 1 \in lost
        BY <2>2, <2>5, <2>6
      <4>3. n \in Nat /\ n # 1
        BY <2>7
      <4> QED
        BY <1>1, <1>3, <2>3, <2>4, <2>6, <2>7, <2>8, <3>1, <4>1, <4>2, <4>3 DEF RepairWrites
    <3>3. pending' # <<>>
      BY <2>7, <2>8
    <3> QED
      BY <1>7, <3>2, <3>3 DEF WritesInv
  <2>11. HistoryInv'
    BY <1>1, <1>3, <1>4, <1>7 DEF HistoryInv
  <2>12. ReportedInv' /\ MemoryInv'
    BY <1>1, <1>7 DEF ReportedInv, MemoryInv
  <2>13. VotesInv' /\ NeverVotesTwice'
    BY <1>1, <1>3, <2>9, VotesKept
  <2> QED
    BY <2>9, <2>10, <2>11, <2>12, <2>13
<1>8. CASE stage' = "refused" /\ UNCHANGED <<pending, mem>>
  <2> HIDE DEF bad, f
  <2>1. RsTypeOK'
    BY <1>1, <1>8 DEF RsTypeOK, Stages
  <2>2. WritesInv' /\ HistoryInv' /\ ReportedInv' /\ MemoryInv'
    BY <1>1, <1>2, <1>3, <1>8 DEF WritesInv, HistoryInv, ReportedInv, MemoryInv
  <2>3. VotesInv' /\ NeverVotesTwice'
    BY <1>1, <1>3, <2>1, VotesKept
  <2> QED
    BY <2>1, <2>2, <2>3
<1> HIDE DEF bad, f
<1> QED
  BY <1>5, <1>6, <1>7, <1>8

\* Two copies that agree are taken at their word.
LEMMA EqualCopies ==
    ASSUME NEW h, disk.primary[h] = disk.mirror[h]
    PROVE  SafetyRow(h) = disk.primary[h]
BY DEF SafetyRow, Readable, NoRow, Unreadable

LEMMA EqualCopiesNext ==
    ASSUME NEW h, disk'.primary[h] = disk'.mirror[h]
    PROVE  SafetyRow(h)' = disk'.primary[h]
BY DEF SafetyRow, Readable, NoRow, Unreadable

LEMMA SafetyRowType ==
    ASSUME RsTypeOK, NEW h \in RowHeights
    PROVE  SafetyRow(h) \in Int
BY DEF SafetyRow, RsTypeOK, Rows, NoRow, Unreadable

\* A vote is a readable row, and none of the marks.
LEMMA PayloadsAreRows ==
    ASSUME RsTypeOK, NEW s \in signedVotes
    PROVE  /\ s[1] \in RowHeights /\ s[1] \in Int /\ s[2] \in Payloads
           /\ s[2] # NoRow /\ s[2] # Unreadable /\ s[2] # Polka
<1>1. s[1] \in RowHeights /\ s[2] \in Payloads
  BY DEF RsTypeOK
<1> QED
  BY <1>1, RestartAssumption DEF RowHeights, NoRow, Unreadable, Polka

LEMMA RestoreKeeps ==
    ASSUME RestartInv, RestoreSafety
    PROVE  RestartInv'
<1> USE DEF RestartInv
<1> DEFINE h == mem.height
           Q == {q \in disk.quarantine : q > h} \cup LostHistory
           Kept(i) == i > h /\ Readable(SafetyRow(i))
           copies == [i \in RowHeights |-> IF Kept(i) THEN SafetyRow(i) ELSE NoRow]
           discarded == boot.discard \in Q
           quarantine == IF discarded THEN Q \ {boot.discard} ELSE Q
           highwater == IF discarded /\ disk.highwater = boot.discard THEN disk.highwater - 1 ELSE disk.highwater
           votes == [i \in RowHeights |-> IF copies[i] = Polka THEN NoRow ELSE copies[i]]
<1>1. /\ stage = "restore" /\ stage' = "running" /\ reported' = h
      /\ UNCHANGED <<pending, signedVotes, lost>>
      /\ overridden' = IF discarded THEN overridden \cup {boot.discard} ELSE overridden
  BY DEF RestoreSafety
<1>2. disk' = [disk EXCEPT !.primary = copies, !.mirror = copies, !.quarantine = quarantine, !.highwater = highwater]
  BY DEF RestoreSafety
<1>3. mem' = [mem EXCEPT !.votes = votes, !.abstain = disk'.quarantine]
  BY DEF RestoreSafety
<1>4. Q \subseteq RowHeights
  BY DEF RsTypeOK, Rows, LostHistory
<1>5. h \in Nat /\ disk.cache.at = h /\ disk.tip.height = h /\ disk.tip.id = h /\ disk.marker
  BY <1>1 DEF RsTypeOK, HistoryInv
<1> HIDE DEF Q
<1>6. copies \in [RowHeights -> Int] /\ votes \in [RowHeights -> Int]
  <2>1. copies \in [RowHeights -> Int]
    BY SafetyRowType DEF NoRow
  <2> HIDE DEF copies
  <2> QED
    BY <2>1 DEF NoRow
<1>7. ASSUME NEW i \in RowHeights
      PROVE  /\ copies[i] = IF Kept(i) THEN SafetyRow(i) ELSE NoRow
             /\ votes[i] = IF copies[i] = Polka THEN NoRow ELSE copies[i]
  OBVIOUS
<1>8. quarantine \subseteq RowHeights /\ highwater \in Nat
  <2>1. \A q \in RowHeights : q \in Nat /\ q >= 1
    BY DEF RowHeights
  <2>2. disk.highwater \in Nat
    BY DEF RsTypeOK, Rows
  <2> QED
    BY <1>4, <2>1, <2>2
<1>9. ASSUME NEW i \in RowHeights, i \notin overridden'
      PROVE  /\ i \in Q => i \in quarantine
             /\ i <= disk.highwater => i <= highwater
  <2>1. i # boot.discard \/ ~discarded
    BY <1>1, <1>9
  <2>2. i \in Int /\ disk.highwater \in Int
    BY DEF RowHeights, RsTypeOK, Rows
  <2> QED
    BY <2>1, <2>2
<1>10. overridden \subseteq overridden' /\ overridden' \subseteq RowHeights
  BY <1>1, <1>4 DEF RsTypeOK
<1> HIDE DEF copies, votes, quarantine, highwater, discarded
<1>11. /\ disk' \in Rows
       /\ disk'.primary = copies /\ disk'.mirror = copies
       /\ disk'.quarantine = quarantine /\ disk'.highwater = highwater
       /\ disk'.tip = disk.tip /\ disk'.frontier = disk.frontier /\ disk'.cache = disk.cache
       /\ disk'.marker = disk.marker /\ disk'.transitions = disk.transitions /\ disk'.lanes = disk.lanes
  BY <1>2, <1>6, <1>8 DEF RsTypeOK, Rows
<1>12. /\ mem' \in [height : Nat, id : Int, state : Cache, votes : [RowHeights -> Int], abstain : SUBSET RowHeights]
       /\ mem'.height = h /\ mem'.id = mem.id /\ mem'.state = mem.state
       /\ mem'.votes = votes /\ mem'.abstain = quarantine
  BY <1>3, <1>6, <1>8, <1>11 DEF RsTypeOK
<1>13. Low' = Low /\ Low \in Int /\ Low <= h
  BY <1>5, <1>11, LowBounds DEF Low
<1>14. RsTypeOK'
  BY <1>1, <1>5, <1>10, <1>11, <1>12 DEF RsTypeOK, Stages
<1>15. WritesInv'
  BY <1>1 DEF WritesInv
<1>16. HistoryInv'
  BY <1>1, <1>5, <1>11, <1>12, <1>13 DEF HistoryInv
<1>17. ReportedInv'
  BY <1>1, <1>5, <1>11, <1>12 DEF ReportedInv, NoTip, Absent
<1>18. ASSUME NEW s \in signedVotes, s[1] \notin overridden'
       PROVE  /\ s[1] <= highwater
              /\ s[1] \in quarantine \/ copies[s[1]] \in {s[2], NoRow}
              /\ s[1] > h => s[1] \in quarantine \/ votes[s[1]] = s[2]
  <2> DEFINE i == s[1]
             v == s[2]
  <2>1. /\ i \in RowHeights /\ i \in Int
        /\ v # NoRow /\ v # Unreadable /\ v # Polka
    BY PayloadsAreRows
  <2>2. /\ i \in Seats /\ i <= Low + SafetySpan /\ i <= disk.highwater
        /\ i \in disk.quarantine \/ SafetyRow(i) \in {v, NoRow, Unreadable}
    BY <1>10, <1>18 DEF VotesInv
  <2> HIDE DEF i, v
  <2>3. i <= highwater
    BY <1>9, <1>18, <2>1, <2>2 DEF i
  <2>4. CASE ~(i > h)
    BY <1>7, <2>1, <2>3, <2>4 DEF i, v, Kept
  <2>5. CASE i > h /\ i \in disk.quarantine
    <3>1. i \in Q
      BY <2>5 DEF Q
    <3> QED
      BY <1>9, <1>18, <2>1, <2>3, <3>1 DEF i
  <2>6. CASE i > h /\ SafetyRow(i) = v
    <3>1. Kept(i)
      BY <2>1, <2>6 DEF Readable
    <3>2. copies[i] = v /\ votes[i] = v
      BY <1>7, <2>1, <2>6, <3>1
    <3> QED
      BY <2>3, <3>2 DEF i, v
  <2>7. CASE i > h /\ SafetyRow(i) \in {NoRow, Unreadable}
    <3>1. i <= h + SafetySpan
      BY <1>5, <1>13, <2>1, <2>2, RestartAssumption
    <3>2. i \in LostHistory
      BY <2>1, <2>2, <2>7, <3>1 DEF LostHistory, MayHaveVoted
    <3> QED
      BY <1>9, <1>18, <2>1, <2>3, <3>2 DEF i, Q
  <2> QED
    BY <1>5, <2>1, <2>2, <2>4, <2>5, <2>6, <2>7
<1>19. VotesInv'
  <2>1. SUFFICES ASSUME NEW s \in signedVotes
                 PROVE  /\ s[1] \in Seats /\ s[1] <= Low + SafetySpan
                        /\ s[1] \notin overridden' =>
                              /\ s[1] <= disk'.highwater
                              /\ s[1] \in disk'.quarantine \/ SafetyRow(s[1])' \in {s[2], NoRow, Unreadable}
    BY <1>1, <1>13 DEF VotesInv
  <2>2. SafetyRow(s[1])' = copies[s[1]]
    BY <1>11, EqualCopiesNext
  <2> QED
    BY <1>11, <1>18, <2>2 DEF VotesInv
<1>20. NeverVotesTwice'
  BY <1>1, <1>10 DEF NeverVotesTwice
<1>21. MemoryInv'
  <2>1. ASSUME NEW i \in RowHeights
        PROVE  /\ copies[i] # Unreadable
               /\ votes[i] = IF copies[i] = Polka THEN NoRow ELSE copies[i]
    BY <1>7 DEF Readable, NoRow, Unreadable
  <2> QED
    BY <1>1, <1>11, <1>12, <1>18, <2>1 DEF MemoryInv
<1> QED
  BY <1>14, <1>15, <1>16, <1>17, <1>19, <1>20, <1>21

\* What a safety batch writes, when the vote of its height is in quarantine or is its row.
LEMMA SafetyBatchEffect ==
    ASSUME RsTypeOK, NEW h \in RowHeights, NEW row \in Int, disk' = SafetyBatch(h, row)
    PROVE  /\ disk' \in Rows
           /\ disk'.primary = [disk.primary EXCEPT ![h] = row]
           /\ disk'.mirror = [disk.mirror EXCEPT ![h] = row]
           /\ disk'.highwater >= disk.highwater /\ disk'.highwater >= h
           /\ disk'.quarantine = disk.quarantine
           /\ disk'.tip = disk.tip /\ disk'.frontier = disk.frontier /\ disk'.cache = disk.cache
           /\ disk'.marker = disk.marker /\ disk'.transitions = disk.transitions /\ disk'.lanes = disk.lanes
<1> DEFINE m == Largest({disk.highwater, h})
<1>1. m \in Nat /\ m >= disk.highwater /\ m >= h
  BY LargestOfTwo DEF RsTypeOK, Rows, RowHeights
<1> DEFINE p == [disk.primary EXCEPT ![h] = row]
           q == [disk.mirror EXCEPT ![h] = row]
<1>2. p \in [RowHeights -> Int] /\ q \in [RowHeights -> Int]
  BY DEF RsTypeOK, Rows
<1>3. disk' = [disk EXCEPT !.primary = p, !.mirror = q, !.highwater = m]
  BY DEF SafetyBatch
<1> HIDE DEF m, p, q
<1>4. /\ disk' \in Rows
      /\ disk'.primary = p /\ disk'.mirror = q /\ disk'.highwater = m
      /\ disk'.quarantine = disk.quarantine
      /\ disk'.tip = disk.tip /\ disk'.frontier = disk.frontier /\ disk'.cache = disk.cache
      /\ disk'.marker = disk.marker /\ disk'.transitions = disk.transitions /\ disk'.lanes = disk.lanes
  BY <1>1, <1>2, <1>3 DEF RsTypeOK, Rows
<1> QED
  BY <1>1, <1>4 DEF p, q

LEMMA BatchKeepsVotes ==
    ASSUME RsTypeOK, RsTypeOK', VotesInv, NEW h \in RowHeights, NEW row \in Int, disk' = SafetyBatch(h, row),
           overridden' = overridden,
           \A s \in signedVotes : s[1] = h /\ h \notin overridden => h \in disk.quarantine \/ s[2] = row,
           \A s \in signedVotes' : s \in signedVotes \/ s = <<h, row>>,
           h \in Seats \/ signedVotes' = signedVotes,
           h <= Low + SafetySpan
    PROVE  VotesInv'
<1>1. /\ disk'.primary = [disk.primary EXCEPT ![h] = row]
      /\ disk'.mirror = [disk.mirror EXCEPT ![h] = row]
      /\ disk'.highwater >= disk.highwater /\ disk'.highwater >= h
      /\ disk'.quarantine = disk.quarantine /\ disk'.cache = disk.cache
  BY SafetyBatchEffect
<1>2. Low' = Low
  BY <1>1 DEF Low
<1>3. disk.highwater \in Int /\ disk'.highwater \in Int /\ h \in Int
  BY DEF RsTypeOK, Rows, RowHeights
<1>4. disk.primary \in [RowHeights -> Int] /\ disk.mirror \in [RowHeights -> Int]
  BY DEF RsTypeOK, Rows
<1>5. SafetyRow(h)' = row
  <2>1. disk'.primary[h] = row /\ disk'.mirror[h] = row
    BY <1>1, <1>4
  <2> QED
    BY <2>1, EqualCopiesNext
<1>6. \A i \in RowHeights : i # h => SafetyRow(i)' = SafetyRow(i)
  BY <1>1, <1>4 DEF SafetyRow
<1>7. SUFFICES ASSUME NEW s \in signedVotes'
               PROVE  /\ s[1] \in Seats /\ s[1] <= Low + SafetySpan
                      /\ s[1] \notin overridden =>
                            /\ s[1] <= disk'.highwater
                            /\ s[1] \in disk'.quarantine \/ SafetyRow(s[1])' \in {s[2], NoRow, Unreadable}
  BY <1>2 DEF VotesInv
<1>8. CASE s \in signedVotes
  <2>1. s[1] \in RowHeights /\ s[1] \in Int
    BY <1>8, PayloadsAreRows
  <2>2. /\ s[1] \in Seats /\ s[1] <= Low + SafetySpan
        /\ s[1] \notin overridden =>
              /\ s[1] <= disk.highwater
              /\ s[1] \in disk.quarantine \/ SafetyRow(s[1]) \in {s[2], NoRow, Unreadable}
    BY <1>8 DEF VotesInv
  <2>3. CASE s[1] = h
    BY <1>1, <1>3, <1>5, <1>8, <2>2, <2>3
  <2>4. CASE s[1] # h
    BY <1>1, <1>3, <1>6, <2>1, <2>2, <2>4
  <2> QED
    BY <2>3, <2>4
<1>9. CASE s \notin signedVotes
  <2>1. s = <<h, row>> /\ h \in Seats
    BY <1>9
  <2> QED
    BY <1>1, <1>5, <2>1
<1> QED
  BY <1>8, <1>9

\* The next height is in reach of every later start.
LEMMA NextHeightInReach ==
    ASSUME RestartInv, stage = "running"
    PROVE  mem.height + 1 <= Low + SafetySpan /\ mem.height \in Nat
<1>1. disk.cache.at = mem.height /\ mem.height \in Nat /\ RsTypeOK
  BY DEF RestartInv, HistoryInv, RsTypeOK
<1>2. Low \in Int /\ disk.cache.at < Low + BlocksOfEpoch
  BY <1>1, LowBounds
<1> QED
  BY <1>1, <1>2, SpanAssumption, RestartAssumption

\* The part of the invariant that does not speak of votes, for steps that leave the history.
LEMMA HistoryKept ==
    ASSUME RestartInv, disk' \in Rows, stage = "running", stage' \in {"running", "stopped"},
           disk'.tip = disk.tip, disk'.frontier = disk.frontier, disk'.cache = disk.cache,
           disk'.marker = disk.marker, disk'.transitions = disk.transitions, disk'.lanes = disk.lanes,
           mem'.height = mem.height, mem'.id = mem.id, mem'.state = mem.state,
           UNCHANGED <<pending, reported, lost>>
    PROVE  WritesInv' /\ HistoryInv' /\ ReportedInv'
<1> USE DEF RestartInv
<1>1. Low' = Low
  BY DEF Low
<1>2. pending' = <<>>
  BY DEF WritesInv
<1>3. WritesInv'
  BY <1>2 DEF WritesInv
<1>4. HistoryInv'
  BY <1>1 DEF HistoryInv
<1>5. ReportedInv'
  BY DEF ReportedInv
<1> QED
  BY <1>3, <1>4, <1>5

LEMMA PrevoteKeeps ==
    ASSUME RestartInv, NEW v \in Payloads, Prevote(v)
    PROVE  RestartInv'
<1> USE DEF RestartInv
<1> DEFINE h == mem.height + 1
<1>1. /\ stage = "running" /\ h \in Seats /\ h \in RowHeights
      /\ h \notin mem.abstain /\ mem.votes[h] \in {NoRow, v}
      /\ UNCHANGED <<pending, boot, overridden, reported, lost>>
      /\ \/ /\ disk' = SafetyBatch(h, v) /\ mem' = [mem EXCEPT !.votes[h] = v]
            /\ signedVotes' = signedVotes \cup {<<h, v>>} /\ stage' = "running"
         \/ /\ disk' = SafetyBatch(h, v) \/ disk' = disk
            /\ mem' = mem /\ signedVotes' = signedVotes /\ stage' = "stopped"
  BY DEF Prevote, FailStop
<1>2. h <= Low + SafetySpan /\ h \in Int /\ mem.height \in Nat /\ h > mem.height
  BY <1>1, NextHeightInReach
<1>3. v \in Int /\ v # NoRow /\ v # Polka /\ v # Unreadable
  BY RestartAssumption DEF NoRow, Polka, Unreadable
<1> HIDE DEF h
\* An earlier vote at this height is in memory, so it is this one.
<1>4. \A s \in signedVotes : s[1] = h /\ h \notin overridden => s[2] = v
  <2>1. SUFFICES ASSUME NEW s \in signedVotes, s[1] = h, h \notin overridden
                 PROVE  s[2] = v
    OBVIOUS
  <2>2. mem.votes[h] = s[2]
    BY <1>1, <1>2, <2>1 DEF MemoryInv
  <2> QED
    BY <1>1, <2>2, PayloadsAreRows
<1>5. CASE disk' = SafetyBatch(h, v)
  <2>1. /\ disk' \in Rows
        /\ disk'.primary = [disk.primary EXCEPT ![h] = v]
        /\ disk'.mirror = [disk.mirror EXCEPT ![h] = v]
        /\ disk'.quarantine = disk.quarantine
        /\ disk'.tip = disk.tip /\ disk'.frontier = disk.frontier /\ disk'.cache = disk.cache
        /\ disk'.marker = disk.marker /\ disk'.transitions = disk.transitions /\ disk'.lanes = disk.lanes
    BY <1>1, <1>3, <1>5, SafetyBatchEffect
  <2>2. /\ mem' \in [height : Nat, id : Int, state : Cache, votes : [RowHeights -> Int], abstain : SUBSET RowHeights]
        /\ mem'.height = mem.height /\ mem'.id = mem.id /\ mem'.state = mem.state /\ mem'.abstain = mem.abstain
    BY <1>1, <1>3 DEF RsTypeOK
  <2>3. signedVotes' \subseteq signedVotes \cup {<<h, v>>}
    BY <1>1
  <2>4. RsTypeOK'
    BY <1>1, <2>1, <2>2, <2>3 DEF RsTypeOK, Stages
  <2>5. WritesInv' /\ HistoryInv' /\ ReportedInv'
    BY <1>1, <2>1, <2>2, HistoryKept
  <2>6. VotesInv'
    BY <1>1, <1>2, <1>3, <1>4, <1>5, <2>3, <2>4, BatchKeepsVotes
  <2>7. NeverVotesTwice'
    <3>1. SUFFICES ASSUME NEW a \in signedVotes', NEW b \in signedVotes', a[1] = b[1], a[1] \notin overridden
                   PROVE  a[2] = b[2]
      BY <1>1 DEF NeverVotesTwice
    <3>2. CASE a[1] = h
      <4>1. ASSUME NEW s \in signedVotes', s[1] = h
            PROVE  s[2] = v
        <5>1. s \in signedVotes \/ s = <<h, v>>
          BY <2>3
        <5> QED
          BY <1>4, <3>1, <3>2, <4>1, <5>1
      <4>2. a[1] = h /\ b[1] = h
        BY <3>1, <3>2
      <4>3. a[2] = v
        BY <4>1, <4>2, Zenon
      <4>4. b[2] = v
        BY <4>1, <4>2, Zenon
      <4> QED
        BY <4>3, <4>4
    <3>3. CASE a[1] # h
      <4>1. a \in signedVotes /\ b \in signedVotes
        BY <2>3, <3>1, <3>3
      <4> QED
        BY <3>1, <4>1 DEF NeverVotesTwice
    <3> QED
      BY <3>2, <3>3
  <2>8. MemoryInv'
    <3>1. SUFFICES ASSUME stage' = "running"
                   PROVE  MemoryInv'
      BY DEF MemoryInv
    <3>2. /\ mem' = [mem EXCEPT !.votes[h] = v] /\ disk.mirror = disk.primary /\ mem.abstain = disk.quarantine
          /\ disk.primary \in [RowHeights -> Int] /\ mem.votes \in [RowHeights -> Int]
      BY <1>1, <3>1 DEF MemoryInv, RsTypeOK, Rows
    <3>3. mem'.votes = [mem.votes EXCEPT ![h] = v]
      BY <3>2 DEF RsTypeOK
    <3>4. ASSUME NEW i \in RowHeights
          PROVE  /\ disk'.primary[i] # Unreadable
                 /\ mem'.votes[i] = IF disk'.primary[i] = Polka THEN NoRow ELSE disk'.primary[i]
      BY <1>1, <1>3, <2>1, <3>2, <3>3 DEF MemoryInv
    <3>5. ASSUME NEW s \in signedVotes', s[1] > mem.height, s[1] \notin overridden
          PROVE  s[1] \in mem'.abstain \/ mem'.votes[s[1]] = s[2]
      <4>1. CASE s[1] = h
        BY <1>1, <1>4, <2>3, <3>2, <3>3, <3>5, <4>1
      <4>2. CASE s[1] # h
        <5>1. s \in signedVotes
          BY <2>3, <4>2
        <5>2. s[1] \in mem.abstain \/ mem.votes[s[1]] = s[2]
          BY <1>1, <3>5, <5>1 DEF MemoryInv
        <5> QED
          BY <2>2, <3>2, <3>3, <4>2, <5>1, <5>2, PayloadsAreRows
      <4> QED
        BY <4>1, <4>2
    <3> QED
      BY <1>1, <2>1, <2>2, <3>2, <3>4, <3>5 DEF MemoryInv
  <2> QED
    BY <2>4, <2>5, <2>6, <2>7, <2>8
<1>6. CASE disk' = disk /\ stage' = "stopped" /\ mem' = mem /\ signedVotes' = signedVotes
  <2>1. RsTypeOK'
    BY <1>1, <1>6 DEF RsTypeOK, Stages
  <2>2. WritesInv' /\ HistoryInv' /\ ReportedInv'
    BY <1>1, <1>6, <2>1, HistoryKept DEF RsTypeOK
  <2>3. Low' = Low /\ Low \in Int
    BY <1>6, LowBounds DEF Low
  <2>4. VotesInv' /\ NeverVotesTwice'
    BY <1>1, <1>6, <2>1, <2>3, VotesKept
  <2>5. MemoryInv'
    BY <1>6 DEF MemoryInv
  <2> QED
    BY <2>1, <2>2, <2>4, <2>5
<1> QED
  BY <1>1, <1>5, <1>6

\* A batch that failed and left nothing behind.
LEMMA FailureKeeps ==
    ASSUME RestartInv, stage = "running", stage' = "stopped", disk' = disk,
           UNCHANGED <<pending, mem, signedVotes, overridden, reported, lost>>
    PROVE  RestartInv'
<1> USE DEF RestartInv
<1>1. RsTypeOK'
  BY DEF RsTypeOK, Stages
<1>2. WritesInv' /\ HistoryInv' /\ ReportedInv'
  BY <1>1, HistoryKept DEF RsTypeOK
<1>3. Low' = Low /\ Low \in Int
  BY LowBounds DEF Low
<1>4. VotesInv' /\ NeverVotesTwice'
  BY <1>1, <1>3, VotesKept
<1>5. MemoryInv'
  BY DEF MemoryInv
<1> QED
  BY <1>1, <1>2, <1>4, <1>5

LEMMA ObservePolkaKeeps ==
    ASSUME RestartInv, ObservePolka
    PROVE  RestartInv'
<1> USE DEF RestartInv
<1> DEFINE h == mem.height + 1
<1>1. /\ stage = "running" /\ h \in RowHeights /\ disk.primary[h] = NoRow
      /\ UNCHANGED <<pending, boot, mem, signedVotes, overridden, reported, lost>>
      /\ \/ disk' = SafetyBatch(h, Polka) /\ stage' \in {"running", "stopped"}
         \/ disk' = disk /\ stage' = "stopped"
  BY DEF ObservePolka, FailStop
<1>2. h <= Low + SafetySpan /\ h \in Int /\ mem.height \in Nat /\ h > mem.height /\ Polka \in Int
  BY <1>1, NextHeightInReach DEF Polka
<1> HIDE DEF h
\* No row of a running node: a vote at this height is in quarantine.
<1>3. \A s \in signedVotes : s[1] = h /\ h \notin overridden => h \in disk.quarantine
  <2>1. SUFFICES ASSUME NEW s \in signedVotes, s[1] = h, h \notin overridden
                 PROVE  h \in disk.quarantine
    OBVIOUS
  <2>2. mem.votes[h] = NoRow /\ mem.abstain = disk.quarantine
    BY <1>1 DEF MemoryInv
  <2>3. h \in mem.abstain \/ mem.votes[h] = s[2]
    BY <1>1, <1>2, <2>1 DEF MemoryInv
  <2> QED
    BY <2>2, <2>3, PayloadsAreRows
<1>4. CASE disk' = SafetyBatch(h, Polka) /\ stage' \in {"running", "stopped"}
  <2>1. /\ disk' \in Rows
        /\ disk'.primary = [disk.primary EXCEPT ![h] = Polka]
        /\ disk'.mirror = [disk.mirror EXCEPT ![h] = Polka]
        /\ disk'.quarantine = disk.quarantine
        /\ disk'.tip = disk.tip /\ disk'.frontier = disk.frontier /\ disk'.cache = disk.cache
        /\ disk'.marker = disk.marker /\ disk'.transitions = disk.transitions /\ disk'.lanes = disk.lanes
    BY <1>1, <1>2, <1>4, SafetyBatchEffect
  <2>2. RsTypeOK'
    BY <1>1, <1>4, <2>1 DEF RsTypeOK, Stages
  <2>3. WritesInv' /\ HistoryInv' /\ ReportedInv'
    BY <1>1, <1>4, <2>1, HistoryKept
  <2>4. VotesInv'
    BY <1>1, <1>2, <1>3, <1>4, <2>2, BatchKeepsVotes
  <2>5. NeverVotesTwice'
    BY <1>1 DEF NeverVotesTwice
  <2>6. MemoryInv'
    <3>1. disk.primary \in [RowHeights -> Int] /\ disk.mirror = disk.primary
      BY <1>1 DEF MemoryInv, RsTypeOK, Rows
    <3>2. ASSUME NEW i \in RowHeights
          PROVE  /\ disk'.primary[i] # Unreadable
                 /\ mem.votes[i] = IF disk'.primary[i] = Polka THEN NoRow ELSE disk'.primary[i]
      BY <1>1, <2>1, <3>1 DEF MemoryInv, Unreadable, Polka, NoRow
    <3> QED
      BY <1>1, <2>1, <3>1, <3>2 DEF MemoryInv
  <2> QED
    BY <2>2, <2>3, <2>4, <2>5, <2>6
<1>5. CASE disk' = disk /\ stage' = "stopped"
  BY <1>1, <1>5, FailureKeeps
<1> QED
  BY <1>1, <1>4, <1>5

LEMMA FinalBatchEffect ==
    ASSUME RsTypeOK, NEW h \in RowHeights, disk' = FinalBatch(h)
    PROVE  /\ disk' \in Rows
           /\ disk'.primary = [disk.primary EXCEPT ![h] = NoRow]
           /\ disk'.mirror = [disk.mirror EXCEPT ![h] = NoRow]
           /\ disk'.highwater = disk.highwater /\ disk'.quarantine = disk.quarantine \ {h}
           /\ disk'.tip = [height |-> h, id |-> h] /\ disk'.frontier = h /\ disk'.cache.at = h
           /\ disk'.marker = disk.marker
           /\ disk'.transitions = disk.transitions \cup {h} /\ disk'.lanes = disk.lanes \cup {h}
<1> DEFINE p == [disk.primary EXCEPT ![h] = NoRow]
           q == [disk.mirror EXCEPT ![h] = NoRow]
           c == persist_canonical_cache_rows(disk.cache, h)
           t == [height |-> h, id |-> h]
<1>1. h \in Int
  BY DEF RowHeights
<1>2. p \in [RowHeights -> Int] /\ q \in [RowHeights -> Int]
  BY DEF RsTypeOK, Rows, NoRow
<1>3. c \in Cache /\ c.at = h
  BY <1>1 DEF persist_canonical_cache_rows, Cache, Registered, RsTypeOK, Rows
<1>4. t \in Tip
  BY <1>1 DEF Tip
<1> DEFINE Add(name) == disk[name] \cup {h}
           g == disk.quarantine \ {h}
           d == [disk EXCEPT !.tip = t, !.frontier = h, !.hash = Add("hash"), !.mapped = Add("mapped"),
                             !.transitions = Add("transitions"), !.certs = Add("certs")]
<1>5. disk' = [d EXCEPT !.lanes = Add("lanes"), !.cache = c, !.commitment = h, !.primary = p,
                        !.mirror = q, !.quarantine = g]
  BY DEF FinalBatch
<1>6. /\ Add("hash") \in SUBSET Int /\ Add("mapped") \in SUBSET Int /\ Add("certs") \in SUBSET Int
      /\ Add("transitions") \in SUBSET Int /\ Add("lanes") \in SUBSET Int /\ g \in SUBSET RowHeights
  BY <1>1 DEF RsTypeOK, Rows
<1> HIDE DEF p, q, c, t, g, Add
<1>7. disk' \in Rows
  <2>1. d \in Rows
    BY <1>1, <1>4, <1>6 DEF RsTypeOK, Rows
  <2> HIDE DEF d
  <2> QED
    BY <1>1, <1>2, <1>3, <1>5, <1>6, <2>1 DEF Rows
<1>8. /\ disk'.primary = p /\ disk'.mirror = q
      /\ disk'.highwater = disk.highwater /\ disk'.quarantine = g
      /\ disk'.tip = t /\ disk'.frontier = h /\ disk'.cache = c
      /\ disk'.marker = disk.marker
      /\ disk'.transitions = Add("transitions") /\ disk'.lanes = Add("lanes")
  BY <1>5 DEF RsTypeOK, Rows
<1> QED
  BY <1>3, <1>7, <1>8 DEF p, q, t, g, Add

LEMMA FinalizeKeeps ==
    ASSUME RestartInv, FinalizeNext
    PROVE  RestartInv'
<1> USE DEF RestartInv
<1> DEFINE h == mem.height + 1
           b == [mem.state EXCEPT !.at = h]
           u == [mem.votes EXCEPT ![h] = NoRow]
           final == /\ mem' = [mem EXCEPT !.height = h, !.id = h, !.state = b, !.votes = u, !.abstain = @ \ {h}]
                    /\ stage' = "running" /\ reported' = h /\ lost' = lost \ {h}
           failed == stage' = "stopped" /\ UNCHANGED <<mem, reported, lost>>
<1>1. /\ stage = "running" /\ h <= LastHeight
      /\ UNCHANGED <<pending, signedVotes, overridden>>
      /\ (disk' = FinalBatch(h) /\ (final \/ failed)) \/ (disk' = disk /\ failed)
  <2>1. /\ stage = "running" /\ h <= LastHeight
        /\ UNCHANGED <<pending, signedVotes, overridden>>
    BY DEF FinalizeNext, FailStop
  <2>2. CASE FailStop(FinalBatch(h))
    BY <2>1, <2>2 DEF FailStop
  <2>3. CASE ~FailStop(FinalBatch(h))
    BY <2>1, <2>3 DEF FinalizeNext
  <2> QED
    BY <2>2, <2>3
<1>2. h <= Low + SafetySpan /\ h \in Nat /\ mem.height \in Nat /\ h > mem.height /\ h \in RowHeights
  BY <1>1, NextHeightInReach, RestartAssumption DEF RowHeights
<1>3. /\ disk.cache.at = mem.height /\ disk.tip.height = mem.height /\ disk.marker
      /\ mem.state = StateAt(mem.height) /\ pending = <<>>
  BY <1>1 DEF HistoryInv, WritesInv
<1>4. CASE disk' = disk /\ failed
  BY <1>1, <1>4, FailureKeeps
<1>5. CASE disk' = FinalBatch(h) /\ (final \/ failed)
  <2> HIDE DEF h, b, u, final, failed
  <2>1. /\ disk' \in Rows
        /\ disk'.primary = [disk.primary EXCEPT ![h] = NoRow]
        /\ disk'.mirror = [disk.mirror EXCEPT ![h] = NoRow]
        /\ disk'.highwater = disk.highwater /\ disk'.quarantine = disk.quarantine \ {h}
        /\ disk'.tip = [height |-> h, id |-> h] /\ disk'.frontier = h /\ disk'.cache.at = h
        /\ disk'.marker = disk.marker
        /\ disk'.transitions = disk.transitions \cup {h} /\ disk'.lanes = disk.lanes \cup {h}
    BY <1>2, <1>5, FinalBatchEffect
  <2>2. final \/ failed
    BY <1>1, <1>5
  <2>3. ASSUME final
        PROVE  /\ mem' \in [height : Nat, id : Int, state : Cache, votes : [RowHeights -> Int],
                             abstain : SUBSET RowHeights]
               /\ mem'.height = h /\ mem'.id = h /\ mem'.state = StateAt(h)
               /\ mem'.votes = [mem.votes EXCEPT ![h] = NoRow] /\ mem'.abstain = mem.abstain \ {h}
    <3>1. b = StateAt(h) /\ b \in Cache
      <4>1. mem.state = [at |-> mem.height, extra |-> {}]
        BY <1>3 DEF StateAt
      <4> QED
        BY <1>2, <4>1 DEF StateAt, Cache, b
    <3>2. u \in [RowHeights -> Int]
      <4>1. mem.votes \in [RowHeights -> Int]
        BY DEF RsTypeOK
      <4> QED
        BY <1>2, <4>1 DEF NoRow, u
    <3>3. mem' = [mem EXCEPT !.height = h, !.id = h, !.state = b, !.votes = u, !.abstain = @ \ {h}]
      BY <2>3 DEF final
    <3> DEFINE g == mem.abstain \ {h}
    <3>4. g \in SUBSET RowHeights /\ mem' = [mem EXCEPT !.height = h, !.id = h, !.state = b, !.votes = u, !.abstain = g]
      BY <3>3 DEF RsTypeOK
    <3> HIDE DEF g
    <3>5. /\ mem' \in [height : Nat, id : Int, state : Cache, votes : [RowHeights -> Int],
                        abstain : SUBSET RowHeights]
          /\ mem'.height = h /\ mem'.id = h /\ mem'.state = b /\ mem'.votes = u /\ mem'.abstain = g
      <4>1. h \in Nat /\ h \in Int /\ b \in Cache
        BY <1>2, <3>1
      <4> QED
        BY <3>2, <3>4, <4>1 DEF RsTypeOK
    <3> QED
      BY <3>1, <3>5 DEF u, g
  <2>4. RsTypeOK'
    BY <1>1, <1>2, <2>1, <2>2, <2>3 DEF RsTypeOK, Stages, final, failed
  <2>5. Low \in Int /\ Low' \in Int /\ Low <= Low' /\ Low' <= h
    <3>1. /\ Low' = RsEpochStart(h + 1) - 1 /\ Low = RsEpochStart(mem.height + 1) - 1
      BY <1>3, <2>1 DEF Low
    <3>2. h + 1 >= RsEpochStart(mem.height + 1)
      BY <1>2, EpochStartBounds
    <3>3. RsEpochStart(h + 1) >= RsEpochStart(mem.height + 1)
      BY <1>2, <3>2, EpochStartMonotone
    <3> QED
      BY <1>2, <3>1, <3>3, EpochStartBounds
  <2>6. WritesInv'
    BY <1>1, <1>3, <2>2 DEF WritesInv, final, failed
  <2>7. HistoryInv'
    <3>1. disk'.tip.height = h /\ disk'.tip.id = h /\ disk'.marker
      BY <1>3, <2>1
    <3>2. \/ stage' = "running" /\ mem'.height = h /\ mem'.id = h /\ mem'.state = StateAt(h)
          \/ stage' = "stopped"
      BY <2>2, <2>3 DEF final, failed
    <3> QED
      BY <1>2, <2>1, <2>5, <3>1, <3>2 DEF HistoryInv, Absent
  <2>8. ReportedInv'
    <3>1. reported \in Nat
      BY DEF RsTypeOK
    <3>2. disk'.transitions \ disk'.lanes \subseteq lost'
      BY <2>1, <2>2 DEF ReportedInv, final, failed
    <3>3. disk'.tip.height = h /\ disk'.tip # NoTip
      BY <1>2, <2>1 DEF NoTip, Absent
    <3>4. reported' <= h \/ h + 1 \in lost'
      <4>1. CASE final
        BY <1>2, <4>1 DEF final
      <4>2. CASE failed
        BY <1>1, <1>2, <4>2 DEF ReportedInv, failed
      <4> QED
        BY <2>2, <4>1, <4>2
    <3> QED
      BY <2>2, <2>3, <3>2, <3>3, <3>4 DEF ReportedInv, final, failed
  <2>9. disk.primary \in [RowHeights -> Int] /\ disk.mirror \in [RowHeights -> Int]
    BY DEF RsTypeOK, Rows
  <2>10. VotesInv'
    <3>1. SUFFICES ASSUME NEW s \in signedVotes
                   PROVE  /\ s[1] \in Seats /\ s[1] <= Low' + SafetySpan
                          /\ s[1] \notin overridden =>
                                /\ s[1] <= disk'.highwater
                                /\ s[1] \in disk'.quarantine \/ SafetyRow(s[1])' \in {s[2], NoRow, Unreadable}
      BY <1>1 DEF VotesInv
    <3>2. /\ s[1] \in Seats /\ s[1] <= Low + SafetySpan /\ s[1] \in Int /\ s[1] \in RowHeights
          /\ s[1] \notin overridden =>
                /\ s[1] <= disk.highwater
                /\ s[1] \in disk.quarantine \/ SafetyRow(s[1]) \in {s[2], NoRow, Unreadable}
      BY PayloadsAreRows DEF VotesInv
    <3>3. s[1] <= Low' + SafetySpan
      BY <2>5, <3>2, RestartAssumption
    <3>4. CASE s[1] = h
      <4>1. disk'.primary[s[1]] = NoRow /\ disk'.mirror[s[1]] = NoRow
        BY <1>2, <2>1, <2>9, <3>4
      <4>2. SafetyRow(s[1])' = NoRow
        BY <4>1, EqualCopiesNext
      <4> QED
        BY <2>1, <3>2, <3>3, <3>4, <4>2
    <3>5. CASE s[1] # h
      <4>1. SafetyRow(s[1])' = SafetyRow(s[1])
        BY <2>1, <2>9, <3>2, <3>5 DEF SafetyRow
      <4> QED
        BY <2>1, <3>2, <3>3, <3>5, <4>1
    <3> QED
      BY <3>4, <3>5
  <2>11. NeverVotesTwice'
    BY <1>1 DEF NeverVotesTwice
  <2>12. MemoryInv'
    <3>1. SUFFICES ASSUME final
                   PROVE  MemoryInv'
      BY <2>2 DEF failed, MemoryInv
    <3>2. disk.mirror = disk.primary /\ mem.abstain = disk.quarantine /\ mem.votes \in [RowHeights -> Int]
      BY <1>1 DEF MemoryInv, RsTypeOK
    <3>3. /\ mem'.height = h /\ mem'.votes = [mem.votes EXCEPT ![h] = NoRow] /\ mem'.abstain = mem.abstain \ {h}
      BY <2>3, <3>1
    <3>4. ASSUME NEW i \in RowHeights
          PROVE  /\ disk'.primary[i] # Unreadable
                 /\ mem'.votes[i] = IF disk'.primary[i] = Polka THEN NoRow ELSE disk'.primary[i]
      BY <1>1, <2>1, <2>9, <3>2, <3>3 DEF MemoryInv, NoRow, Unreadable, Polka
    <3>5. ASSUME NEW s \in signedVotes, s[1] > h, s[1] \notin overridden
          PROVE  s[1] \in mem'.abstain \/ mem'.votes[s[1]] = s[2]
      <4>1. s[1] \in RowHeights /\ s[1] \in Int
        BY PayloadsAreRows
      <4>2. s[1] > mem.height /\ s[1] # h
        BY <1>2, <3>5, <4>1
      <4>3. s[1] \in mem.abstain \/ mem.votes[s[1]] = s[2]
        BY <1>1, <3>5, <4>2 DEF MemoryInv
      <4> QED
        BY <3>2, <3>3, <4>1, <4>2, <4>3
    <3> QED
      BY <1>1, <2>1, <3>2, <3>3, <3>4, <3>5 DEF MemoryInv
  <2> QED
    BY <2>4, <2>6, <2>7, <2>8, <2>10, <2>11, <2>12
<1> QED
  BY <1>1, <1>4, <1>5

LEMMA LoseLaneKeeps ==
    ASSUME RestartInv, NEW h \in RowHeights, LoseLaneRecord(h)
    PROVE  RestartInv'
<1> USE DEF RestartInv
<1>1. /\ stage = "down" /\ disk' = [disk EXCEPT !.lanes = @ \ {h}] /\ lost' = lost \cup {h}
      /\ UNCHANGED <<pending, stage, mem, signedVotes, overridden, reported>>
  BY DEF LoseLaneRecord
<1>2. h \in Int
  BY DEF RowHeights
<1>3. /\ disk' \in Rows /\ disk'.lanes = disk.lanes \ {h}
      /\ disk'.tip = disk.tip /\ disk'.frontier = disk.frontier /\ disk'.cache = disk.cache
      /\ disk'.marker = disk.marker /\ disk'.transitions = disk.transitions
      /\ disk'.primary = disk.primary /\ disk'.mirror = disk.mirror
      /\ disk'.quarantine = disk.quarantine /\ disk'.highwater = disk.highwater
  <2> DEFINE l == disk.lanes \ {h}
  <2>1. l \in SUBSET Int /\ disk' = [disk EXCEPT !.lanes = l]
    BY <1>1 DEF RsTypeOK, Rows
  <2> HIDE DEF l
  <2>2. disk'.lanes = l
    BY <2>1 DEF RsTypeOK, Rows
  <2>3. /\ disk' \in Rows
        /\ disk'.tip = disk.tip /\ disk'.frontier = disk.frontier /\ disk'.cache = disk.cache
        /\ disk'.marker = disk.marker /\ disk'.transitions = disk.transitions
        /\ disk'.primary = disk.primary /\ disk'.mirror = disk.mirror
        /\ disk'.quarantine = disk.quarantine /\ disk'.highwater = disk.highwater
    BY <2>1 DEF RsTypeOK, Rows
  <2> QED
    BY <2>2, <2>3 DEF l
<1>4. Low' = Low /\ Low \in Int
  BY <1>3, LowBounds DEF Low
<1>5. RsTypeOK'
  BY <1>1, <1>2, <1>3 DEF RsTypeOK
<1>6. WritesInv' /\ MemoryInv'
  BY <1>1 DEF WritesInv, MemoryInv
<1>7. HistoryInv'
  BY <1>1, <1>3, <1>4 DEF HistoryInv
<1>8. ReportedInv'
  BY <1>1, <1>3 DEF ReportedInv
<1>9. VotesInv' /\ NeverVotesTwice'
  BY <1>1, <1>3, <1>4, <1>5, VotesKept
<1> QED
  BY <1>5, <1>6, <1>7, <1>8, <1>9

LEMMA DamageKeeps ==
    ASSUME RestartInv, NEW h \in RowHeights, DamageSafetyRow(h)
    PROVE  RestartInv'
<1> USE DEF RestartInv
<1>1. /\ stage = "down" /\ Readable(disk.primary[h]) /\ disk.primary[h] = disk.mirror[h]
      /\ UNCHANGED <<pending, stage, mem, signedVotes, overridden, reported, lost>>
  BY DEF DamageSafetyRow
<1>2. PICK x \in Int, y \in Int :
          /\ disk' = [disk EXCEPT !.primary[h] = x, !.mirror[h] = y]
          /\ \/ x = y /\ x \in {NoRow, Unreadable}
             \/ x \in {NoRow, Unreadable, Polka} /\ y = disk.mirror[h]
             \/ x = disk.primary[h] /\ y \in {NoRow, Unreadable, Polka}
  <2> DEFINE p == disk.primary[h]
             m == disk.mirror[h]
  <2>1. /\ p \in Int /\ m \in Int /\ NoRow \in Int /\ Unreadable \in Int /\ Polka \in Int
        /\ disk = [disk EXCEPT !.primary[h] = p] /\ disk = [disk EXCEPT !.mirror[h] = m]
    BY DEF RsTypeOK, Rows, NoRow, Unreadable, Polka
  <2>2. \A r : /\ [disk EXCEPT !.mirror[h] = r] = [disk EXCEPT !.primary[h] = p, !.mirror[h] = r]
               /\ [disk EXCEPT !.primary[h] = r] = [disk EXCEPT !.primary[h] = r, !.mirror[h] = m]
    BY DEF RsTypeOK, Rows
  <2>3. CASE \E r \in {NoRow, Unreadable} : disk' = [disk EXCEPT !.primary[h] = r, !.mirror[h] = r]
    BY <2>1, <2>3
  <2>4. CASE \E r \in {NoRow, Unreadable, Polka} : disk' = [disk EXCEPT !.primary[h] = r]
    BY <2>1, <2>2, <2>4
  <2>5. CASE \E r \in {NoRow, Unreadable, Polka} : disk' = [disk EXCEPT !.mirror[h] = r]
    BY <2>1, <2>2, <2>5
  <2> QED
    BY <2>3, <2>4, <2>5 DEF DamageSafetyRow
<1> DEFINE p == [disk.primary EXCEPT ![h] = x]
           m == [disk.mirror EXCEPT ![h] = y]
<1>3. /\ p \in [RowHeights -> Int] /\ m \in [RowHeights -> Int]
      /\ p[h] = x /\ m[h] = y
      /\ \A i \in RowHeights : i # h => p[i] = disk.primary[i] /\ m[i] = disk.mirror[i]
  BY DEF RsTypeOK, Rows
<1>4. disk' = [disk EXCEPT !.primary = p, !.mirror = m]
  BY <1>2
<1> HIDE DEF p, m
<1>5. /\ disk' \in Rows /\ disk'.primary = p /\ disk'.mirror = m
      /\ disk'.tip = disk.tip /\ disk'.frontier = disk.frontier /\ disk'.cache = disk.cache
      /\ disk'.marker = disk.marker /\ disk'.transitions = disk.transitions /\ disk'.lanes = disk.lanes
      /\ disk'.quarantine = disk.quarantine /\ disk'.highwater = disk.highwater
  BY <1>3, <1>4 DEF RsTypeOK, Rows
<1>6. Low' = Low
  BY <1>5 DEF Low
<1>7. RsTypeOK'
  BY <1>1, <1>5 DEF RsTypeOK
<1>8. WritesInv' /\ MemoryInv'
  BY <1>1 DEF WritesInv, MemoryInv
<1>9. HistoryInv' /\ ReportedInv'
  BY <1>1, <1>5, <1>6 DEF HistoryInv, ReportedInv
<1>10. SafetyRow(h)' \in {SafetyRow(h), NoRow, Unreadable}
  <2>1. SafetyRow(h) = disk.primary[h]
    BY <1>1, EqualCopies
  <2> QED
    BY <1>1, <1>2, <1>3, <1>5, <2>1 DEF SafetyRow, Readable
<1>11. \A i \in RowHeights : i # h => SafetyRow(i)' = SafetyRow(i)
  BY <1>3, <1>5 DEF SafetyRow
<1>12. VotesInv'
  <2>1. SUFFICES ASSUME NEW s \in signedVotes
                 PROVE  /\ s[1] \in Seats /\ s[1] <= Low + SafetySpan
                        /\ s[1] \notin overridden =>
                              /\ s[1] <= disk.highwater
                              /\ s[1] \in disk.quarantine \/ SafetyRow(s[1])' \in {s[2], NoRow, Unreadable}
    BY <1>1, <1>5, <1>6 DEF VotesInv
  <2>2. /\ s[1] \in Seats /\ s[1] <= Low + SafetySpan
        /\ s[1] \notin overridden =>
              /\ s[1] <= disk.highwater
              /\ s[1] \in disk.quarantine \/ SafetyRow(s[1]) \in {s[2], NoRow, Unreadable}
    BY DEF VotesInv
  <2>3. s[1] \in RowHeights
    BY PayloadsAreRows
  <2> QED
    BY <1>10, <1>11, <2>2, <2>3
<1>13. NeverVotesTwice'
  BY <1>1 DEF NeverVotesTwice
<1> QED
  BY <1>7, <1>8, <1>9, <1>12, <1>13

-------------------------------------------------------------------------------
(* The theorems about a node and its database.                                 *)

LEMMA FreshDisk ==
    ASSUME RsInit
    PROVE  RestartInv
<1>1. disk \in Rows
  BY DEF RsInit, Rows, Tip, Cache, NoTip, Absent, NoRow
<1>2. RsTypeOK
  BY <1>1, NoMemoryType DEF RsInit, RsTypeOK, Stages
<1>3. WritesInv
  BY DEF RsInit, WritesInv
<1>4. HistoryInv
  BY DEF RsInit, HistoryInv, NoTip, Absent
<1>5. ReportedInv /\ VotesInv /\ MemoryInv /\ NeverVotesTwice
  BY DEF RsInit, ReportedInv, VotesInv, MemoryInv, NeverVotesTwice
<1> QED
  BY <1>2, <1>3, <1>4, <1>5 DEF RestartInv

LEMMA WriteKeeps ==
    ASSUME RestartInv, WriteRow
    PROVE  RestartInv'
<1>1. stage \in {"genesis", "repair", "save"}
  BY DEF RestartInv, WritesInv, WriteRow
<1> QED
  BY <1>1, GenesisWrite, RepairWrite, SaveWrite

LEMMA StutterKeeps ==
    ASSUME RestartInv, UNCHANGED rsVars
    PROVE  RestartInv'
<1>1. UNCHANGED <<disk, pending, stage, mem, signedVotes, overridden, reported, lost>>
  BY DEF rsVars
<1>2. Low' = Low /\ \A h : SafetyRow(h)' = SafetyRow(h)
  BY <1>1 DEF Low, SafetyRow
<1>3. RsTypeOK' /\ ReportedInv' /\ MemoryInv' /\ NeverVotesTwice'
  BY <1>1 DEF RestartInv, RsTypeOK, ReportedInv, MemoryInv, NeverVotesTwice
<1>4. WritesInv'
  BY <1>1, <1>2 DEF RestartInv, WritesInv, GenesisWrites, RepairWrites, SaveWrites
<1>5. HistoryInv' /\ VotesInv'
  BY <1>1, <1>2 DEF RestartInv, HistoryInv, VotesInv
<1> QED
  BY <1>3, <1>4, <1>5 DEF RestartInv

LEMMA RestartStep ==
    ASSUME RestartInv, [RsNext]_rsVars
    PROVE  RestartInv'
BY OpenKeeps, WriteKeeps, LoadTipKeeps, ReplayKeeps, RestoreKeeps, PrevoteKeeps, ObservePolkaKeeps,
   FinalizeKeeps, CrashKeeps, LoseLaneKeeps, DamageKeeps, StutterKeeps DEF RsNext

\* The inductive invariant: what the rows, the writes under way and the memory of a node have
\* to do with each other at every point of a start, of a repair and of a run (load_state,
\* rollback_frontier_tail_from_transition, the safety batches of the voting).
THEOREM RestartInvariant == RsSpec => []RestartInv
<1>1. RsInit => RestartInv
  BY FreshDisk
<1>2. RestartInv /\ [RsNext]_rsVars => RestartInv'
  BY RestartStep
<1> QED
  BY <1>1, <1>2, PTL DEF RsSpec

\* A node never votes for two payloads at a height, whatever crashes, failed writes, repairs
\* and damaged rows lie between the votes, unless the operator discards its vote lock: a start
\* looks for lost rows over a span longer than an epoch (kMaxMissingSafetySpan), and no repair
\* goes back beyond the epoch of the cached rows.
THEOREM VotesOnce == RsSpec => []NeverVotesTwice
<1>1. RestartInv => NeverVotesTwice
  BY DEF RestartInv
<1> QED
  BY <1>1, RestartInvariant, PTL

\* A start ends with the state of the tip, and with the tip that was reported before or a
\* later one, unless a lane record was lost (load_state).
THEOREM StartsCanonical == RsSpec => StartedIsCanonical
<1>1. RestartInv /\ [RsNext]_rsVars =>
          (stage # "running" /\ stage' = "running" =>
              /\ mem'.state = StateAt(mem'.height)
              /\ disk'.tip = [height |-> mem'.height, id |-> mem'.height]
              /\ mem'.height >= reported \/ mem'.height + 1 \in lost)
  <2>1. SUFFICES ASSUME RestartInv, [RsNext]_rsVars, stage # "running", stage' = "running"
                 PROVE  /\ mem'.state = StateAt(mem'.height)
                        /\ disk'.tip = [height |-> mem'.height, id |-> mem'.height]
                        /\ mem'.height >= reported \/ mem'.height + 1 \in lost
    OBVIOUS
  <2>2. RestoreSafety
    <3>1. stage' = stage => FALSE
      BY <2>1
    <3>2. ~WriteRow
      BY <2>1 DEF WriteRow, RestartInv, WritesInv
    <3>3. ~LoadTip /\ ~Replay /\ ~CrashOrStop
      BY <2>1 DEF LoadTip, Replay, CrashOrStop
    <3>4. \A v : ~Prevote(v)
      BY <2>1 DEF Prevote
    <3>5. ~ObservePolka /\ ~FinalizeNext
      BY <2>1 DEF ObservePolka, FinalizeNext
    <3>6. \A h : ~LoseLaneRecord(h) /\ ~DamageSafetyRow(h)
      BY <2>1 DEF LoseLaneRecord, DamageSafetyRow
    <3>7. \A fast, reindex, discard : ~Open(fast, reindex, discard)
      BY <2>1, Zenon DEF Open
    <3> QED
      BY <2>1, <3>1, <3>2, <3>3, <3>4, <3>5, <3>6, <3>7 DEF RsNext, rsVars
  <2>3. RestartInv'
    BY <2>1, RestartStep
  <2>4. /\ disk'.tip \in Tip /\ disk'.tip.height = mem'.height /\ disk'.tip.id = mem'.height
        /\ mem'.state = StateAt(mem'.height)
    BY <2>1, <2>3 DEF RestartInv, HistoryInv, RsTypeOK, Rows
  <2>5. /\ stage = "restore" /\ disk'.tip = disk.tip /\ mem'.height = mem.height
    BY <2>1, <2>2 DEF RestoreSafety, RestartInv, RsTypeOK, Rows
  <2>6. disk.tip.height = mem.height /\ mem.height \in Nat /\ reported \in Nat
    BY <2>1, <2>5 DEF RestartInv, HistoryInv, RsTypeOK
  <2>7. mem.height >= reported \/ mem.height + 1 \in lost
    BY <2>1, <2>6 DEF RestartInv, ReportedInv, NoTip, Absent
  <2> QED
    BY <2>4, <2>5, <2>7 DEF Tip
<1> QED
  BY <1>1, RestartInvariant, PTL DEF RsSpec, StartedIsCanonical

-------------------------------------------------------------------------------
(* Why a start is refused.  As long as no crash has torn the genesis or a repair, *)
(* the rows of the history belong together at the end of every start and every    *)
(* batch, and a repair keeps what it does not roll back.                          *)

BootOptions == [fast : BOOLEAN, reindex : BOOLEAN, discard : Discards \cup {0}, repaired : BOOLEAN]

\* A database before its first genesis row.
FreshRows == disk.tip = NoTip /\ disk.cache = [at |-> Absent, extra |-> {}] /\ disk.commitment = Absent

\* The heights that the four tables of the history all have.
History == disk.mapped \cap disk.transitions \cap disk.certs \cap disk.hash

\* The tip, the frontier and the tables say the same.
WholeRows ==
    /\ IF disk.frontier = Absent THEN disk.tip.height <= 0 ELSE disk.frontier = disk.tip.height
    /\ 1..disk.tip.height \subseteq History
    /\ ~disk.marker => FreshRows
    /\ disk.marker => disk.tip # NoTip
    /\ disk.tip.height = 0 /\ disk.tip.id # 0 => 1 \in lost

MarkerRow == Row("marker", TRUE)
JsonRow == Row("json", TRUE)

\* How far the genesis rows are written.
GenesisProgress ==
    LET n == Len(pending)
    IN  /\ n \in 1..5
        /\ disk.frontier = Absent
        /\ ~disk.marker => FreshRows /\ n = 5
        /\ disk.marker => n <= 4
        /\ n >= 3 => FreshRows
        /\ n <= 2 => disk.tip = [height |-> 0, id |-> 0]
        /\ n <= 3 => disk.json
        /\ n = 2 => disk.cache = [at |-> Absent, extra |-> {}]
        /\ n = 1 => disk.cache = StateAt(0)
        /\ disk.commitment = Absent
        /\ n >= 5 => pending[n - 4] = MarkerRow
        /\ n >= 4 => pending[n - 3] = JsonRow
        /\ n >= 3 => pending[n - 2] = Row("tip", [height |-> 0, id |-> 0])
        /\ n >= 2 => pending[n - 1] = Row("cache", StateAt(0))
        /\ pending[n] = Row("commitment", 0)

\* What a repair leaves: the rows below the height it rolls back, with their lane records.
RepairProgress ==
    /\ 1..mem.height \subseteq History \cap disk.lanes
    /\ \A i \in 1..Len(pending) :
          /\ pending[i].name \in Tables => 1..mem.height \subseteq pending[i].value
          /\ pending[i].name = "transitions" => disk.tip.height \notin pending[i].value
    /\ disk.tip.height \in disk.transitions => WholeRows /\ pending[1].name = "transitions"

\* The commitment that a start without reindexing would compare with the cached rows.
Unvouched == disk.commitment = Absent \/ (disk.commitment = 0 /\ disk.cache = StateAt(0))

CauseInv ==
    /\ boot \in BootOptions
    /\ ~torn =>
         /\ stage = "genesis" => GenesisProgress
         /\ stage = "repair" => RepairProgress
         /\ stage \notin {"genesis", "repair"} => WholeRows
         /\ stage \in {"load", "replay", "repair"} /\ boot.reindex => Unvouched
         /\ stage = "load" => disk.json
         /\ stage \in {"genesis", "load"} => ~boot.repaired
         /\ stage = "replay" /\ boot.repaired => 1..mem.height \subseteq disk.lanes
    /\ RefusedForCause
-------------------------------------------------------------------------------
(* What a step that leaves the history alone keeps of it.                      *)

SameHistory ==
    /\ disk'.tip = disk.tip /\ disk'.frontier = disk.frontier /\ disk'.marker = disk.marker
    /\ disk'.mapped = disk.mapped /\ disk'.transitions = disk.transitions
    /\ disk'.certs = disk.certs /\ disk'.hash = disk.hash

LEMMA WholeKept ==
    ASSUME WholeRows, SameHistory, ~disk.marker => FreshRows', lost \subseteq lost'
    PROVE  WholeRows'
BY DEF WholeRows, SameHistory, History

LEMMA TornIsCause ==
    ASSUME torn', boot' \in BootOptions
    PROVE  CauseInv'
BY DEF CauseInv, RefusedForCause

LEMMA OpenRefuses ==
    ASSUME RestartInv, CauseInv,
           NEW fast \in BOOLEAN, NEW reindex \in BOOLEAN, NEW discard \in Discards,
           Open(fast, reindex, discard)
    PROVE  CauseInv'
<1>1. /\ stage \in {"down", "refused"}
      /\ boot' = [fast |-> fast, reindex |-> reindex, discard |-> discard, repaired |-> FALSE]
      /\ UNCHANGED <<lost, torn>>
      /\ \/ ~disk.marker /\ stage' = "genesis" /\ pending' = GenesisRows
         \/ /\ disk.marker /\ stage' \in {"refused", "load"}
            /\ stage' = "refused" => disk.tip.height = 0 /\ disk.tip.id # 0
  BY Zenon DEF Open
<1>2. boot' \in BootOptions /\ boot'.reindex = reindex /\ boot'.repaired = FALSE
  BY <1>1 DEF BootOptions
<1>3. /\ SameHistory /\ disk'.cache = disk.cache
      /\ disk'.json = (disk.json \/ disk.marker)
      /\ disk'.commitment = IF reindex THEN Absent ELSE disk.commitment
  <2> DEFINE c == IF reindex THEN Absent ELSE disk.commitment
             j == disk.json \/ disk.marker
  <2>1. disk' = [disk EXCEPT !.commitment = c, !.json = j]
    BY DEF Open
  <2> HIDE DEF c, j
  <2>2. /\ SameHistory /\ disk'.cache = disk.cache /\ disk'.json = j /\ disk'.commitment = c
    BY <2>1 DEF RestartInv, RsTypeOK, Rows, SameHistory
  <2> QED
    BY <2>2 DEF c, j
<1>4. CASE torn
  BY <1>1, <1>2, <1>4, TornIsCause
<1>5. CASE ~torn /\ disk.marker
  <2>1. WholeRows
    BY <1>1, <1>5 DEF CauseInv
  <2>2. WholeRows'
    BY <1>1, <1>3, <1>5, <2>1, WholeKept
  <2>3. disk'.json
    BY <1>3, <1>5
  <2>4. reindex => Unvouched'
    BY <1>3 DEF Unvouched
  <2>5. RefusedForCause'
    BY <1>1, <1>5, <2>1 DEF WholeRows, RefusedForCause
  <2> QED
    BY <1>1, <1>2, <1>5, <2>2, <2>3, <2>4, <2>5 DEF CauseInv
<1>6. CASE ~torn /\ ~disk.marker
  <2>1. FreshRows /\ disk.frontier = Absent
    BY <1>1, <1>6 DEF CauseInv, WholeRows, RestartInv, HistoryInv
  <2>2. FreshRows' /\ disk'.frontier = Absent /\ ~disk'.marker
    BY <1>3, <1>6, <2>1 DEF FreshRows, SameHistory
  <2>3. persist_canonical_cache_rows(disk.cache, 0) = StateAt(0)
    BY <2>1 DEF FreshRows, persist_canonical_cache_rows, StateAt, Registered, Absent
  <2>4. stage' = "genesis" /\ pending' = GenesisRows
    BY <1>1, <1>6
  <2>5. GenesisRows = <<MarkerRow, JsonRow, Row("tip", [height |-> 0, id |-> 0]),
                        Row("cache", StateAt(0)), Row("commitment", 0)>>
    BY <2>3 DEF GenesisRows, MarkerRow, JsonRow
  <2>6. /\ Len(pending') = 5
        /\ pending'[1] = MarkerRow /\ pending'[2] = JsonRow
        /\ pending'[3] = Row("tip", [height |-> 0, id |-> 0])
        /\ pending'[4] = Row("cache", StateAt(0)) /\ pending'[5] = Row("commitment", 0)
    <3> DEFINE a == MarkerRow
               b == JsonRow
               c == Row("tip", [height |-> 0, id |-> 0])
               d == Row("cache", StateAt(0))
               e == Row("commitment", 0)
    <3>1. pending' = <<a, b, c, d, e>>
      BY <2>4, <2>5
    <3> HIDE DEF a, b, c, d, e
    <3>2. Len(pending') = 5 /\ pending'[1] = a /\ pending'[2] = b /\ pending'[3] = c /\ pending'[4] = d /\ pending'[5] = e
      BY <3>1
    <3> QED
      BY <3>2 DEF a, b, c, d, e
  <2>7. GenesisProgress'
    <3> DEFINE n == Len(pending')
    <3>1. n = 5 /\ n - 4 = 1 /\ n - 3 = 2 /\ n - 2 = 3 /\ n - 1 = 4
      BY <2>6
    <3>2. /\ pending'[n - 4] = MarkerRow /\ pending'[n - 3] = JsonRow
          /\ pending'[n - 2] = Row("tip", [height |-> 0, id |-> 0])
          /\ pending'[n - 1] = Row("cache", StateAt(0)) /\ pending'[n] = Row("commitment", 0)
      BY <2>6, <3>1, Zenon
    <3>3. disk'.commitment = Absent
      BY <2>2 DEF FreshRows
    <3> HIDE DEF n
    <3> QED
      BY <2>2, <3>1, <3>2, <3>3 DEF GenesisProgress, n
  <2> QED
    BY <1>1, <1>2, <1>6, <2>4, <2>7 DEF CauseInv, RefusedForCause
<1> QED
  BY <1>4, <1>5, <1>6

LEMMA LoadTipRefuses ==
    ASSUME RestartInv, CauseInv, LoadTip
    PROVE  CauseInv'
<1>1. stage = "load" /\ UNCHANGED <<boot, lost, torn>> /\ boot \in BootOptions /\ disk.marker
  BY DEF LoadTip, CauseInv, RestartInv, HistoryInv
<1>2. CASE torn
  BY <1>1, <1>2, TornIsCause
<1>3. CASE ~torn
  <2>1. WholeRows /\ disk.json /\ ~boot.repaired /\ (boot.reindex => Unvouched)
    BY <1>1, <1>3 DEF CauseInv
  <2>2. disk.tip # NoTip /\ disk.tip.height \in Int
    BY <1>1, <2>1 DEF WholeRows, RestartInv, RsTypeOK, Rows, Tip
  <2>3. disk.tip.height > 0 => disk.tip.height \in disk.hash
    <3>1. disk.tip.height > 0 => disk.tip.height \in 1..disk.tip.height
      BY <2>2
    <3> QED
      BY <2>1, <3>1 DEF WholeRows, History
  <2>4. disk' = disk
    <3>1. disk' = [disk EXCEPT !.tip = disk.tip]
      BY <2>2 DEF LoadTip
    <3> QED
      BY <3>1 DEF RestartInv, RsTypeOK, Rows
  <2>5. stage' \in {"replay", "save"}
    BY <2>1, <2>2, <2>3 DEF LoadTip
  <2>6. WholeRows' /\ (boot.reindex => Unvouched')
    BY <1>1, <2>1, <2>4 DEF WholeRows, History, FreshRows, Unvouched
  <2> QED
    BY <1>1, <1>3, <2>1, <2>5, <2>6 DEF CauseInv, RefusedForCause
<1> QED
  BY <1>2, <1>3
\* One row is written: what it is to the history, the cached rows and their commitment.
HistoryWritten(w) ==
    /\ disk'.lanes = disk.lanes
    /\ IF w.name = "marker" THEN disk'.marker = TRUE ELSE disk'.marker = disk.marker
    /\ IF w.name = "json" THEN disk'.json = TRUE ELSE disk'.json = disk.json
    /\ disk'.frontier = IF w.name = "frontier" THEN w.value ELSE disk.frontier
    /\ disk'.commitment = IF w.name = "commitment" THEN w.value ELSE disk.commitment
    /\ disk'.tip = IF w.name = "tip" THEN w.value ELSE disk.tip
    /\ disk'.cache = IF w.name = "cache" THEN w.value ELSE disk.cache
    /\ disk'.mapped = IF w.name = "mapped" THEN w.value ELSE disk.mapped
    /\ disk'.transitions = IF w.name = "transitions" THEN w.value ELSE disk.transitions
    /\ disk'.certs = IF w.name = "certs" THEN w.value ELSE disk.certs
    /\ disk'.hash = IF w.name = "hash" THEN w.value ELSE disk.hash

LEMMA HistoryEffect ==
    ASSUME RsTypeOK, NEW w \in Writes, disk' = [disk EXCEPT ![w.name] = w.value]
    PROVE  HistoryWritten(w)
<1> USE DEF HistoryWritten
<1>1. CASE w.name = "marker" /\ w.value = TRUE
  BY <1>1 DEF RsTypeOK, Rows
<1>2. CASE w.name = "json" /\ w.value = TRUE
  BY <1>2 DEF RsTypeOK, Rows
<1>3. CASE w.name = "transitions"
  BY <1>3 DEF RsTypeOK, Rows
<1>4. CASE w.name = "mapped"
  BY <1>4 DEF RsTypeOK, Rows
<1>5. CASE w.name = "certs"
  BY <1>5 DEF RsTypeOK, Rows
<1>6. CASE w.name = "hash"
  BY <1>6 DEF RsTypeOK, Rows
<1>7. CASE w.name = "frontier"
  BY <1>7 DEF RsTypeOK, Rows
<1>8. CASE w.name = "commitment"
  BY <1>8 DEF RsTypeOK, Rows
<1>9. CASE w.name = "tip"
  BY <1>9 DEF RsTypeOK, Rows
<1>10. CASE w.name = "cache"
  BY <1>10 DEF RsTypeOK, Rows
<1> QED
  BY <1>1, <1>2, <1>3, <1>4, <1>5, <1>6, <1>7, <1>8, <1>9, <1>10 DEF Writes, Tables

LEMMA HistoryStep ==
    ASSUME RestartInv, CauseInv, WriteRow
    PROVE  /\ HistoryWritten(Head(pending)) /\ UNCHANGED <<boot, mem, lost, torn>> /\ boot \in BootOptions
           /\ Head(pending) = pending[1] /\ Len(pending) \in Nat \ {0}
           /\ Len(pending') = Len(pending) - 1
           /\ \A i \in 1..Len(pending') : i + 1 \in 1..Len(pending) /\ pending'[i] = pending[i + 1]
           /\ stage' # "refused"
<1>1. /\ disk' = [disk EXCEPT ![Head(pending).name] = Head(pending).value]
      /\ UNCHANGED <<boot, mem, lost, torn>>
  BY DEF WriteRow
<1>2. /\ Head(pending) \in Writes /\ Head(pending) = pending[1] /\ Len(pending) \in Nat \ {0}
      /\ Len(pending') = Len(pending) - 1
      /\ \A i \in 1..Len(pending') : i + 1 \in 1..Len(pending) /\ pending'[i] = pending[i + 1]
  BY WriteStep
<1>3. HistoryWritten(Head(pending))
  BY <1>1, <1>2, HistoryEffect DEF RestartInv
<1>4. stage' # "refused"
  BY DEF WriteRow, RestartInv, WritesInv
<1> QED
  BY <1>1, <1>2, <1>3, <1>4 DEF CauseInv

LEMMA GenesisRefuses ==
    ASSUME RestartInv, CauseInv, WriteRow, stage = "genesis"
    PROVE  CauseInv'
<1> DEFINE w == Head(pending)
           n == Len(pending)
<1>1. /\ UNCHANGED <<boot, mem, lost, torn>> /\ boot' \in BootOptions
      /\ w = pending[1] /\ n \in Nat \ {0} /\ Len(pending') = n - 1
      /\ \A i \in 1..Len(pending') : i + 1 \in 1..Len(pending) /\ pending'[i] = pending[i + 1]
      /\ stage' # "refused"
  BY HistoryStep
<1>2. HistoryWritten(w)
  BY HistoryStep
<1>3. CASE torn
  BY <1>1, <1>3, TornIsCause
<1>4. CASE ~torn
  <2>1. GenesisProgress /\ ~boot.repaired
    BY <1>4 DEF CauseInv
  <2>2. stage' = IF n > 1 THEN "genesis" ELSE "load"
    BY DEF WriteRow
  <2>3. /\ n \in 1..5 /\ disk.frontier = Absent /\ disk.commitment = Absent
        /\ n = 5 => FreshRows /\ w = MarkerRow
        /\ n = 4 => FreshRows /\ disk.marker /\ w = JsonRow
        /\ n = 3 => FreshRows /\ disk.marker /\ disk.json /\ w = Row("tip", [height |-> 0, id |-> 0])
        /\ n = 2 => disk.marker /\ disk.json /\ disk.tip = [height |-> 0, id |-> 0] /\ w = Row("cache", StateAt(0))
        /\ n = 1 => /\ disk.marker /\ disk.json /\ disk.tip = [height |-> 0, id |-> 0]
                    /\ disk.cache = StateAt(0) /\ w = Row("commitment", 0)
    <3>1. n \in 1..5 /\ disk.frontier = Absent /\ disk.commitment = Absent /\ (n # 5 => disk.marker)
      BY <2>1 DEF GenesisProgress
    <3>2. n = 5 => FreshRows /\ w = MarkerRow
      BY <1>1, <2>1 DEF GenesisProgress
    <3>3. n = 4 => FreshRows /\ w = JsonRow
      BY <1>1, <2>1 DEF GenesisProgress
    <3>4. n = 3 => FreshRows /\ disk.json /\ w = Row("tip", [height |-> 0, id |-> 0])
      BY <1>1, <2>1 DEF GenesisProgress
    <3>5. n = 2 => disk.json /\ disk.tip = [height |-> 0, id |-> 0] /\ w = Row("cache", StateAt(0))
      BY <1>1, <2>1 DEF GenesisProgress
    <3>6. n = 1 => disk.json /\ disk.tip = [height |-> 0, id |-> 0] /\ disk.cache = StateAt(0) /\ w = Row("commitment", 0)
      BY <1>1, <2>1 DEF GenesisProgress
    <3> QED
      BY <3>1, <3>2, <3>3, <3>4, <3>5, <3>6
  <2> HIDE DEF w
  <2>4. CASE n > 1
    <3> DEFINE m == Len(pending')
    <3>0. m = n - 1 /\ m \in 1..4
      BY <1>1, <2>3, <2>4
    <3>1. /\ m >= 5 => pending'[m - 4] = MarkerRow
          /\ m >= 4 => pending'[m - 3] = JsonRow
          /\ m >= 3 => pending'[m - 2] = Row("tip", [height |-> 0, id |-> 0])
          /\ m >= 2 => pending'[m - 1] = Row("cache", StateAt(0))
          /\ pending'[m] = Row("commitment", 0)
      <4>1. /\ n >= 4 => pending[n - 3] = JsonRow
            /\ n >= 3 => pending[n - 2] = Row("tip", [height |-> 0, id |-> 0])
            /\ n >= 2 => pending[n - 1] = Row("cache", StateAt(0))
            /\ pending[n] = Row("commitment", 0)
        BY <2>1 DEF GenesisProgress
      <4>2. \A j \in 1..m : pending'[j] = pending[j + 1]
        BY <1>1
      <4> HIDE DEF m, n
      <4>3. /\ m >= 4 => pending'[m - 3] = pending[n - 3]
            /\ m >= 3 => pending'[m - 2] = pending[n - 2]
            /\ m >= 2 => pending'[m - 1] = pending[n - 1]
            /\ pending'[m] = pending[n]
        BY <3>0, <4>2
      <4> QED
        BY <3>0, <4>1, <4>3
    <3>2. /\ disk'.frontier = Absent /\ disk'.commitment = Absent /\ disk'.marker
          /\ m >= 3 => FreshRows'
          /\ m <= 2 => disk'.tip = [height |-> 0, id |-> 0]
          /\ m <= 3 => disk'.json
          /\ m = 2 => disk'.cache = [at |-> Absent, extra |-> {}]
          /\ m = 1 => disk'.cache = StateAt(0)
      <4> HIDE DEF m, n
      <4>1. CASE n = 5
        BY <1>2, <2>3, <3>0, <4>1 DEF HistoryWritten, Row, FreshRows, MarkerRow, JsonRow
      <4>2. CASE n = 4
        BY <1>2, <2>3, <3>0, <4>2 DEF HistoryWritten, Row, FreshRows, MarkerRow, JsonRow
      <4>3. CASE n = 3
        BY <1>2, <2>3, <3>0, <4>3 DEF HistoryWritten, Row, FreshRows, MarkerRow, JsonRow
      <4>4. CASE n = 2
        BY <1>2, <2>3, <3>0, <4>4 DEF HistoryWritten, Row
      <4> QED
        BY <3>0, <4>1, <4>2, <4>3, <4>4
    <3>3. GenesisProgress'
      <4>1. m \in 1..5 /\ m <= 4
        <5> HIDE DEF m, n
        <5> QED
          BY <3>0
      <4> HIDE DEF m
      <4> QED
        BY <3>1, <3>2, <4>1, Zenon DEF GenesisProgress, m
    <3> QED
      BY <1>1, <1>4, <2>1, <2>2, <2>4, <3>3 DEF CauseInv, RefusedForCause
  <2>5. CASE n = 1
    <3>1. /\ disk'.marker /\ disk'.json /\ disk'.tip = [height |-> 0, id |-> 0]
          /\ disk'.frontier = Absent /\ disk'.commitment = 0 /\ disk'.cache = StateAt(0)
      BY <1>2, <2>3, <2>5 DEF HistoryWritten, Row
    <3>2. WholeRows' /\ Unvouched'
      BY <3>1 DEF WholeRows, Unvouched, NoTip, Absent, History
    <3> QED
      BY <1>1, <1>4, <2>1, <2>2, <2>5, <3>1, <3>2 DEF CauseInv, RefusedForCause
  <2> QED
    BY <1>1, <2>4, <2>5
<1> QED
  BY <1>3, <1>4

LEMMA RepairRefuses ==
    ASSUME RestartInv, CauseInv, WriteRow, stage = "repair"
    PROVE  CauseInv'
<1> DEFINE w == Head(pending)
           n == Len(pending)
<1>1. /\ UNCHANGED <<boot, mem, lost, torn>> /\ boot' \in BootOptions
      /\ w = pending[1] /\ n \in Nat \ {0} /\ Len(pending') = n - 1
      /\ \A i \in 1..Len(pending') : i + 1 \in 1..Len(pending) /\ pending'[i] = pending[i + 1]
      /\ stage' # "refused"
  BY HistoryStep
<1>2. HistoryWritten(w)
  BY HistoryStep
<1>3. CASE torn
  BY <1>1, <1>3, TornIsCause
<1>4. CASE ~torn
  <2>1. RepairProgress /\ RepairWrites /\ (boot.reindex => Unvouched) /\ disk.marker /\ mem.height \in Nat
    BY <1>4 DEF CauseInv, RestartInv, WritesInv, HistoryInv, RsTypeOK
  <2>2. stage' = IF n > 1 THEN "repair" ELSE "replay"
    BY DEF WriteRow
  <2>3. /\ n = 1 => w = Row("tip", [height |-> mem.height, id |-> mem.id])
        /\ n = 2 => w = Row("frontier", mem.height)
        /\ n = 3 => w = Row("frontier", Absent)
        /\ n > 3 => w.name \in Tables
    <3>1. n = 1 => w = Row("tip", [height |-> mem.height, id |-> mem.id])
      BY <1>1, <2>1 DEF RepairWrites
    <3>2. n = 2 => w = Row("frontier", mem.height)
      BY <1>1, <2>1 DEF RepairWrites
    <3>3. n = 3 => w = Row("frontier", Absent)
      BY <1>1, <2>1 DEF RepairWrites
    <3>4. n > 3 => w.name \in Tables
      BY <1>1, <2>1 DEF RepairWrites
    <3> QED
      BY <3>1, <3>2, <3>3, <3>4
  <2>4. /\ w.name \in Tables => 1..mem.height \subseteq w.value
        /\ w.name = "transitions" => disk.tip.height \notin w.value
        /\ disk.tip.height \in disk.transitions => w.name = "transitions"
    BY <1>1, <2>1 DEF RepairProgress
  <2>5. 1..mem.height \subseteq History \cap disk.lanes
    BY <2>1 DEF RepairProgress
  <2>6. w.name \in Tables \cup {"tip", "frontier"} /\ (n > 1 => w.name # "tip")
    BY <1>1, <2>3 DEF Row, Tables
  <2>7. 1..mem.height \subseteq History' \cap disk'.lanes
    BY <1>2, <2>4, <2>5 DEF HistoryWritten, History, Tables
  <2>8. /\ disk'.marker /\ disk'.cache = disk.cache /\ disk'.commitment = disk.commitment
    BY <1>2, <2>1, <2>6 DEF HistoryWritten, Tables
  <2>9. boot.reindex => Unvouched'
    BY <2>1, <2>8 DEF Unvouched
  <2>10. CASE n > 1
    <3>1. disk'.tip = disk.tip /\ disk.tip.height \notin disk'.transitions
      BY <1>2, <2>4, <2>6, <2>10 DEF HistoryWritten
    <3>2. ASSUME NEW i \in 1..Len(pending')
          PROVE  /\ pending'[i].name \in Tables => 1..mem.height \subseteq pending'[i].value
                 /\ pending'[i].name = "transitions" => disk.tip.height \notin pending'[i].value
      BY <1>1, <2>1 DEF RepairProgress
    <3>3. RepairProgress'
      BY <1>1, <2>7, <3>1, <3>2 DEF RepairProgress
    <3> QED
      BY <1>1, <1>4, <2>2, <2>9, <2>10, <3>3 DEF CauseInv, RefusedForCause
  <2>11. CASE n = 1
    <3>1. /\ disk'.tip = [height |-> mem.height, id |-> mem.id] /\ disk'.frontier = mem.height
          /\ mem.height + 1 \in lost
      BY <1>2, <2>1, <2>3, <2>11 DEF HistoryWritten, Row, RepairWrites
    <3>2. WholeRows'
      BY <1>1, <2>1, <2>7, <2>8, <3>1 DEF WholeRows, NoTip, Absent
    <3> QED
      BY <1>1, <1>4, <2>2, <2>7, <2>9, <2>11, <3>2 DEF CauseInv, RefusedForCause
  <2> QED
    BY <1>1, <2>10, <2>11
<1> QED
  BY <1>3, <1>4

LEMMA SaveRefuses ==
    ASSUME RestartInv, CauseInv, WriteRow, stage = "save"
    PROVE  CauseInv'
<1> DEFINE w == Head(pending)
           n == Len(pending)
<1>1. /\ UNCHANGED <<boot, mem, lost, torn>> /\ boot' \in BootOptions
      /\ w = pending[1] /\ n \in Nat \ {0}
  BY HistoryStep
<1>2. HistoryWritten(w)
  BY HistoryStep
<1>3. CASE torn
  BY <1>1, <1>3, TornIsCause
<1>4. CASE ~torn
  <2>1. WholeRows /\ SaveWrites /\ disk.marker
    BY <1>4 DEF CauseInv, RestartInv, WritesInv, HistoryInv
  <2>2. w.name \in {"cache", "commitment"}
    BY <1>1, <2>1 DEF SaveWrites
  <2>3. SameHistory
    BY <1>2, <2>2 DEF HistoryWritten, SameHistory
  <2>4. WholeRows'
    BY <1>1, <2>1, <2>3, WholeKept
  <2>5. stage' \in {"save", "restore"}
    BY DEF WriteRow
  <2> QED
    BY <1>1, <1>4, <2>4, <2>5 DEF CauseInv, RefusedForCause
<1> QED
  BY <1>3, <1>4
\* Rows that erase transitions first, the tip's, and no row of any table below the tail.
KeepsBelow(rows, bad, f) ==
    /\ rows[1].name = "transitions"
    /\ \A i \in 1..Len(rows) :
          /\ rows[i].name \in Tables => 1..(bad - 1) \subseteq rows[i].value
          /\ rows[i].name = "transitions" => f \notin rows[i].value
LEMMA ErasedRows ==
    ASSUME RsTypeOK, NEW bad \in Nat, NEW f \in Nat, 1 <= bad, bad <= f,
           1..(bad - 1) \subseteq History
    PROVE  KeepsBelow(RollbackRows(bad, f), bad, f)
<1> DEFINE k == 4 * (f - bad + 1)
           tables == <<"transitions", "mapped", "certs", "hash">>
           Erased(i) == LET name == tables[(i % 4) + 1] IN Row(name, disk[name] \ ((f - (i \div 4))..f))
           E == [i \in 1..k |-> Erased(i - 1)]
           a == Row("frontier", Absent)
           b == Row("frontier", bad - 1)
           c == Row("tip", [height |-> bad - 1, id |-> IF bad = 1 THEN Absent ELSE bad - 1])
           R == RollbackRows(bad, f)
<1>1. R = E \o <<a, b, c>>
  BY DEF RollbackRows
<1>2. k \in Nat /\ k >= 4
  OBVIOUS
<1>3. a.name \notin Tables /\ b.name \notin Tables /\ c.name \notin Tables
  BY DEF Row, Tables
<1>4. ASSUME NEW i \in 1..k
      PROVE  /\ E[i].name \in Tables /\ 1..(bad - 1) \subseteq E[i].value /\ f \notin E[i].value
             /\ i = 1 => E[i].name = "transitions"
  <2> DEFINE j == i - 1
             name == tables[(j % 4) + 1]
  <2>1. (j % 4) + 1 \in 1..4 /\ (i = 1 => (j % 4) + 1 = 1)
    BY <1>2
  <2>2. name \in Tables /\ (i = 1 => name = "transitions")
    <3>1. (j % 4) + 1 = 1 \/ (j % 4) + 1 = 2 \/ (j % 4) + 1 = 3 \/ (j % 4) + 1 = 4
      BY <2>1
    <3> QED
      BY <2>1, <3>1 DEF Tables
  <2>3. f - (j \div 4) \in Int /\ f - (j \div 4) <= f /\ f - (j \div 4) >= bad
    <3>1. j \in Int /\ 0 <= j /\ j < 4 * (f - bad + 1)
      BY <1>2
    <3> HIDE DEF j
    <3>2. j \div 4 \in Int /\ 0 <= j \div 4 /\ j \div 4 <= f - bad
      BY <3>1, Z3
    <3> QED
      BY <3>2
  <2>4. E[i] = Row(name, disk[name] \ ((f - (j \div 4))..f))
    OBVIOUS
  <2>5. 1..(bad - 1) \subseteq disk[name]
    <3> HIDE DEF name
    <3> QED
      BY <2>2 DEF Tables, History
  <2> DEFINE x == f - (j \div 4)
  <2> HIDE DEF name, x
  <2>6. E[i].name = name /\ E[i].value = disk[name] \ (x..f)
    BY <2>4 DEF Row, x
  <2>7. x \in Int /\ x <= f /\ x >= bad
    BY <2>3 DEF x
  <2> HIDE DEF E, Erased, j
  <2>8. 1..(bad - 1) \subseteq disk[name] \ (x..f) /\ f \notin disk[name] \ (x..f)
    BY <2>5, <2>7
  <2> QED
    BY <2>2, <2>6, <2>8
<1> HIDE DEF k, E, Erased, a, b, c, R
<1>5. E \in Seq({E[i] : i \in 1..k}) /\ Len(E) = k
  <2>1. E = [i \in 1..k |-> E[i]]
    BY DEF E
  <2> QED
    BY <1>2, <2>1
<1>6. Len(R) = k + 3 /\ (\A i \in 1..k : R[i] = E[i]) /\ R[k + 1] = a /\ R[k + 2] = b /\ R[k + 3] = c
  <2> DEFINE All == {E[i] : i \in 1..k} \cup {a, b, c}
  <2>1. E \in Seq(All) /\ <<a, b, c>> \in Seq(All) /\ Len(<<a, b, c>>) = 3
    BY <1>5
  <2> HIDE DEF All
  <2> QED
    BY <1>1, <1>2, <1>5, <2>1
<1>7. R[1].name = "transitions"
  BY <1>2, <1>4, <1>6
<1>8. ASSUME NEW i \in 1..Len(R), R[i].name \in Tables
      PROVE  i \in 1..k
  BY <1>2, <1>3, <1>6, <1>8
<1>9. "transitions" \in Tables
  BY DEF Tables
<1> QED
  BY <1>4, <1>6, <1>7, <1>8, <1>9 DEF R, KeepsBelow

LEMMA CapIsNumber ==
    ASSUME NEW f \in Nat
    PROVE  repair_cap(f) \in Nat
<1> DEFINE percent == (f * CapPercent + 99) \div 100
           x == Largest({BaseCap, percent})
           y == Largest({BaseCap, AbsoluteCap})
<1>1. percent \in Nat
  <2> DEFINE p == f * CapPercent
  <2>1. p \in Nat
    BY RestartAssumption
  <2> HIDE DEF p
  <2>2. (p + 99) \div 100 \in Nat
    BY <2>1
  <2> QED
    BY <2>2 DEF p
<1> HIDE DEF percent
<1>2. x \in Nat /\ y \in Nat
  BY <1>1, LargestOfTwo, RestartAssumption
<1> HIDE DEF x, y
<1>3. Smallest({x, y}) \in {x, y}
  BY <1>2, SmallestOfSome
<1>4. Smallest({x, y}) \in Nat
  BY <1>2, <1>3
<1> QED
  BY <1>4 DEF repair_cap, percent, x, y

LEMMA SmallestIsLeast ==
    ASSUME NEW S, S \subseteq Nat, S # {}
    PROVE  \A y \in S : Smallest(S) <= y
<1>1. PICK x \in S : \A y \in S : ~(<<y, x>> \in OpToRel(<, Nat))
  BY NatLessThanWellFounded, WFMin
<1>2. \A y \in S : ~(y < x)
  BY <1>1 DEF OpToRel
<1>3. \A y \in S : x <= y
  BY <1>2
<1> QED
  BY <1>3 DEF Smallest

\* The first height that cannot be loaded is below a block the node has, and its lane record
\* is one of those the disk lost.
LEMMA FirstUnloadable ==
    ASSUME RestartInv, WholeRows, NEW f \in Int, Unloadable(f) # {},
           f = IF disk.frontier = Absent THEN 0 ELSE disk.frontier
    PROVE  LET bad == Smallest(Unloadable(f))
           IN  /\ bad \in 1..f /\ f = disk.frontier /\ f = disk.tip.height /\ f \in Nat
               /\ bad \in lost /\ LacksLaneRecord(bad)
               /\ 1..(bad - 1) \subseteq History \cap disk.lanes
<1> DEFINE bad == Smallest(Unloadable(f))
<1>1. Unloadable(f) \subseteq Nat
  BY DEF Unloadable
<1>2. bad \in Unloadable(f)
  BY <1>1, SmallestOfSome
<1>3. \A h \in Unloadable(f) : bad <= h
  BY <1>1, SmallestIsLeast
<1> HIDE DEF bad
<1>4. bad \in 1..f /\ bad \notin disk.mapped \cap disk.transitions \cap disk.certs \cap disk.lanes
  BY <1>2 DEF Unloadable
<1>5. f >= 1 /\ f = disk.frontier /\ f = disk.tip.height /\ f \in Nat
  BY <1>4 DEF WholeRows, Absent
<1>6. 1..f \subseteq History
  BY <1>5 DEF WholeRows
<1>7. LacksLaneRecord(bad)
  BY <1>4, <1>6 DEF History, LacksLaneRecord
<1>8. bad \in lost
  BY <1>7 DEF LacksLaneRecord, RestartInv, ReportedInv
<1>9. ASSUME NEW h \in 1..(bad - 1)
      PROVE  h \in History \cap disk.lanes
  <2>1. h \in 1..f /\ ~(bad <= h)
    BY <1>4
  <2>2. h \notin Unloadable(f)
    BY <1>3, <2>1
  <2> QED
    BY <1>6, <2>1, <2>2 DEF Unloadable
<1> QED
  BY <1>4, <1>5, <1>7, <1>8, <1>9 DEF bad

LEMMA ReplayRefuses ==
    ASSUME RestartInv, CauseInv, Replay
    PROVE  CauseInv'
<1> DEFINE f == IF disk.frontier = Absent THEN 0 ELSE disk.frontier
           bad == Smallest(Unloadable(f))
<1>1. /\ stage = "replay" /\ UNCHANGED <<disk, lost, torn>> /\ boot \in BootOptions
      /\ disk.tip.height = mem.height /\ disk.tip.id = mem.id /\ mem.height \in Nat /\ f \in Int
      /\ disk.tip.height > 0 => disk.tip.id = disk.tip.height
  BY DEF Replay, CauseInv, RestartInv, HistoryInv, RsTypeOK, Rows
<1>2. \/ stage' = "save" /\ boot' = boot
      \/ /\ Unloadable(f) # {}
         /\ mem' = [mem EXCEPT !.height = bad - 1, !.id = IF bad = 1 THEN Absent ELSE bad - 1]
         /\ pending' = RollbackRows(bad, f) /\ stage' = "repair"
         /\ boot' = [boot EXCEPT !.repaired = TRUE]
      \/ /\ IF Unloadable(f) = {} THEN mem.height # f \/ mem.id # f \/ CacheRefused(f)
            ELSE ~LacksLaneRecord(bad) \/ boot.repaired \/ ~CanRollBack(bad, f)
         /\ stage' = "refused" /\ boot' = boot
  BY DEF Replay
<1>3. boot' \in BootOptions /\ boot'.reindex = boot.reindex
  BY <1>1, <1>2 DEF BootOptions
<1>4. CASE torn
  BY <1>1, <1>3, <1>4, TornIsCause
<1>5. CASE ~torn
  <2>1. WholeRows /\ (boot.reindex => Unvouched) /\ (boot.repaired => 1..mem.height \subseteq disk.lanes)
    BY <1>1, <1>5 DEF CauseInv
  <2>2. WholeRows' /\ (boot.reindex => Unvouched')
    BY <1>1, <2>1 DEF WholeRows, History, FreshRows, Unvouched
  <2>3. Unloadable(f) # {} =>
            /\ bad \in 1..f /\ f = disk.frontier /\ f = disk.tip.height /\ f \in Nat
            /\ bad \in lost /\ LacksLaneRecord(bad)
            /\ 1..(bad - 1) \subseteq History \cap disk.lanes
    BY <1>1, <2>1, FirstUnloadable
  <2>4. CASE stage' = "save" /\ boot' = boot
    BY <1>1, <1>3, <1>5, <2>2, <2>4 DEF CauseInv, RefusedForCause
  <2>5. CASE /\ Unloadable(f) # {}
             /\ mem' = [mem EXCEPT !.height = bad - 1, !.id = IF bad = 1 THEN Absent ELSE bad - 1]
             /\ pending' = RollbackRows(bad, f) /\ stage' = "repair"
    <3>1. /\ bad \in Nat /\ 1 <= bad /\ bad <= f /\ f \in Nat /\ f = disk.tip.height
          /\ 1..(bad - 1) \subseteq History \cap disk.lanes
      BY <2>3, <2>5
    <3> HIDE DEF bad, f
    <3>2. mem'.height = bad - 1
      BY <2>5 DEF RestartInv, RsTypeOK
    <3>3. RsTypeOK /\ 1..(bad - 1) \subseteq History
      BY <3>1 DEF RestartInv
    <3>4. KeepsBelow(RollbackRows(bad, f), bad, f)
      BY <3>1, <3>3, ErasedRows
    <3> DEFINE R == RollbackRows(bad, f)
    <3>5. pending' = R
      BY <2>5
    <3>6. KeepsBelow(R, bad, f)
      BY <3>4
    <3> HIDE DEF R
    <3>7. RepairProgress'
      BY <1>1, <2>2, <3>1, <3>2, <3>5, <3>6 DEF RepairProgress, History, KeepsBelow
    <3> QED
      BY <1>1, <1>3, <1>5, <2>2, <2>5, <3>7 DEF CauseInv, RefusedForCause
  <2>6. CASE /\ IF Unloadable(f) = {} THEN mem.height # f \/ mem.id # f \/ CacheRefused(f)
                ELSE ~LacksLaneRecord(bad) \/ boot.repaired \/ ~CanRollBack(bad, f)
             /\ stage' = "refused" /\ boot' = boot
    <3>1. SUFFICES ASSUME boot.reindex
                   PROVE  \E h \in lost : \/ h = 1 \/ h < RsEpochStart(disk.frontier + 1)
                                          \/ disk.frontier - h >= repair_cap(disk.frontier)
      <4>1. RefusedForCause' <=> (stage' = "refused" =>
              \/ torn \/ ~boot.reindex
              \/ \E h \in lost : \/ h = 1 \/ h < RsEpochStart(disk.frontier + 1)
                                 \/ disk.frontier - h >= repair_cap(disk.frontier))
        BY <1>1, <2>6 DEF RefusedForCause, repair_cap
      <4> QED
        BY <1>1, <1>3, <1>5, <2>2, <2>6, <4>1 DEF CauseInv
    <3>2. CASE Unloadable(f) = {}
      <4>1. mem.height = f
        BY <1>1, <2>1 DEF WholeRows
      <4>2. ~CacheRefused(f)
        BY <1>1, <2>1, <3>1, <4>1 DEF Unvouched, CacheRefused, Absent
      <4>3. mem.id # f
        BY <2>6, <3>2, <4>1, <4>2
      <4>4. disk.tip.height = 0 /\ disk.tip.id # 0
        BY <1>1, <4>1, <4>3
      <4> QED
        BY <2>1, <4>4 DEF WholeRows
    <3>3. CASE Unloadable(f) # {}
      <4>1. /\ bad \in 1..f /\ f = disk.frontier /\ f = disk.tip.height /\ f \in Nat
            /\ bad \in lost /\ LacksLaneRecord(bad)
        BY <2>3, <3>3
      <4> HIDE DEF bad, f
      <4>2. ~boot.repaired
        BY <1>1, <2>1, <4>1 DEF LacksLaneRecord
      <4>3. ~CanRollBack(bad, f)
        BY <2>6, <3>3, <4>1, <4>2
      <4>4. repair_cap(f) \in Nat
        BY <4>1, CapIsNumber
      <4>5. CASE f - bad + 1 > repair_cap(f)
        BY <4>1, <4>4, <4>5
      <4>6. CASE bad - 1 < repair_floor(f)
        <5> DEFINE at == disk.cache.at
                   start == RsEpochStart(at + 1)
        <5>1. at \in Int
          BY DEF RestartInv, RsTypeOK, Rows, Cache
        <5>2. start \in Int
          BY <5>1, EpochStartBounds
        <5>3. start - 1 <= f /\ bad - 1 < start - 1
          BY <4>1, <4>6, <5>2 DEF repair_floor
        <5> HIDE DEF at, start
        <5>4. f + 1 \in Int /\ f + 1 >= start
          BY <4>1, <5>2, <5>3
        <5>5. RsEpochStart(f + 1) >= start /\ RsEpochStart(f + 1) \in Int
          BY <5>1, <5>4, EpochStartMonotone, EpochStartBounds DEF start
        <5>6. bad < RsEpochStart(f + 1)
          BY <4>1, <5>2, <5>3, <5>5
        <5> QED
          BY <4>1, <5>6
      <4>7. repair_floor(f) \in Int
        <5>1. RsEpochStart(disk.cache.at + 1) \in Int
          BY EpochStartBounds DEF RestartInv, RsTypeOK, Rows, Cache
        <5> QED
          BY <5>1 DEF repair_floor
      <4> QED
        BY <4>1, <4>3, <4>4, <4>5, <4>6, <4>7 DEF CanRollBack
    <3> QED
      BY <3>2, <3>3
  <2> HIDE DEF f, bad
  <2> QED
    BY <1>2, <2>4, <2>5, <2>6
<1> QED
  BY <1>4, <1>5
\* A step that keeps the history whole and neither opens nor loads anything.
LEMMA WholeIsEnough ==
    ASSUME CauseInv, boot' = boot, torn' = torn,
           stage' \in {"down", "stopped", "save", "restore", "running"}, ~torn => WholeRows'
    PROVE  CauseInv'
BY DEF CauseInv, RefusedForCause

LEMMA SafetyBatchHistory ==
    ASSUME RsTypeOK, NEW h \in RowHeights, NEW row \in Int, disk' = SafetyBatch(h, row)
    PROVE  SameHistory
<1> DEFINE m == Largest({disk.highwater, h})
           p == [disk.primary EXCEPT ![h] = row]
           q == [disk.mirror EXCEPT ![h] = row]
<1>1. disk' = [disk EXCEPT !.primary = p, !.mirror = q, !.highwater = m]
  BY DEF SafetyBatch
<1> HIDE DEF m, p, q
<1> QED
  BY <1>1 DEF RsTypeOK, Rows, SameHistory

LEMMA RestoreRefuses ==
    ASSUME RestartInv, CauseInv, RestoreSafety
    PROVE  CauseInv'
<1>1. stage = "restore" /\ stage' = "running" /\ UNCHANGED <<boot, lost, torn>>
  BY DEF RestoreSafety
<1>2. PICK p, q, w : disk' = [disk EXCEPT !.primary = p, !.mirror = p, !.quarantine = q, !.highwater = w]
  BY DEF RestoreSafety
<1>3. SameHistory
  BY <1>2 DEF RestartInv, RsTypeOK, Rows, SameHistory
<1>4. disk.marker
  BY <1>1 DEF RestartInv, HistoryInv
<1>5. ~torn => WholeRows'
  BY <1>1, <1>3, <1>4, WholeKept DEF CauseInv
<1> QED
  BY <1>1, <1>5, WholeIsEnough

LEMMA PrevoteRefuses ==
    ASSUME RestartInv, CauseInv, NEW v \in Payloads, Prevote(v)
    PROVE  CauseInv'
<1> DEFINE h == mem.height + 1
<1>1. /\ stage = "running" /\ h \in RowHeights /\ stage' \in {"running", "stopped"}
      /\ UNCHANGED <<boot, lost, torn>>
      /\ disk' = SafetyBatch(h, v) \/ disk' = disk
  BY DEF Prevote, FailStop
<1>2. v \in Int
  BY RestartAssumption
<1>3. disk.marker /\ RsTypeOK
  BY <1>1 DEF RestartInv, HistoryInv
<1> HIDE DEF h
<1>4. SameHistory
  BY <1>1, <1>2, <1>3, SafetyBatchHistory DEF SameHistory
<1>5. ~torn => WholeRows'
  BY <1>1, <1>3, <1>4, WholeKept DEF CauseInv
<1> QED
  BY <1>1, <1>5, WholeIsEnough

LEMMA PolkaRefuses ==
    ASSUME RestartInv, CauseInv, ObservePolka
    PROVE  CauseInv'
<1> DEFINE h == mem.height + 1
<1>1. /\ stage = "running" /\ h \in RowHeights /\ stage' \in {"running", "stopped"}
      /\ UNCHANGED <<boot, lost, torn>>
      /\ disk' = SafetyBatch(h, Polka) \/ disk' = disk
  BY DEF ObservePolka, FailStop
<1>2. Polka \in Int
  BY DEF Polka
<1>3. disk.marker /\ RsTypeOK
  BY <1>1 DEF RestartInv, HistoryInv
<1> HIDE DEF h
<1>4. SameHistory
  BY <1>1, <1>2, <1>3, SafetyBatchHistory DEF SameHistory
<1>5. ~torn => WholeRows'
  BY <1>1, <1>3, <1>4, WholeKept DEF CauseInv
<1> QED
  BY <1>1, <1>5, WholeIsEnough

LEMMA FinalBatchHistory ==
    ASSUME RsTypeOK, NEW h \in RowHeights, disk' = FinalBatch(h)
    PROVE  /\ disk'.tip = [height |-> h, id |-> h] /\ disk'.frontier = h /\ disk'.marker = disk.marker
           /\ disk'.mapped = disk.mapped \cup {h} /\ disk'.transitions = disk.transitions \cup {h}
           /\ disk'.certs = disk.certs \cup {h} /\ disk'.hash = disk.hash \cup {h}
<1> DEFINE p == [disk.primary EXCEPT ![h] = NoRow]
           q == [disk.mirror EXCEPT ![h] = NoRow]
           c == persist_canonical_cache_rows(disk.cache, h)
           t == [height |-> h, id |-> h]
           Add(name) == disk[name] \cup {h}
           g == disk.quarantine \ {h}
           d == [disk EXCEPT !.tip = t, !.frontier = h, !.hash = Add("hash"), !.mapped = Add("mapped"),
                             !.transitions = Add("transitions"), !.certs = Add("certs")]
<1>1. disk' = [d EXCEPT !.lanes = Add("lanes"), !.cache = c, !.commitment = h, !.primary = p,
                        !.mirror = q, !.quarantine = g]
  BY DEF FinalBatch
<1> HIDE DEF p, q, c, t, g, Add
<1>2. /\ disk'.tip = t /\ disk'.frontier = h /\ disk'.marker = disk.marker
      /\ disk'.mapped = Add("mapped") /\ disk'.transitions = Add("transitions")
      /\ disk'.certs = Add("certs") /\ disk'.hash = Add("hash")
  BY <1>1 DEF RsTypeOK, Rows
<1> QED
  BY <1>2 DEF t, Add

LEMMA FinalizeRefuses ==
    ASSUME RestartInv, CauseInv, FinalizeNext
    PROVE  CauseInv'
<1> DEFINE h == mem.height + 1
<1>1. /\ stage = "running" /\ h <= LastHeight /\ UNCHANGED <<boot, torn>>
      /\ stage' \in {"running", "stopped"}
      /\ disk' = FinalBatch(h) \/ (disk' = disk /\ lost' = lost)
  <2>1. stage = "running" /\ h <= LastHeight /\ UNCHANGED <<boot, torn>>
    BY DEF FinalizeNext, FailStop
  <2>2. CASE FailStop(FinalBatch(h))
    BY <2>1, <2>2 DEF FailStop
  <2>3. CASE ~FailStop(FinalBatch(h))
    BY <2>1, <2>3 DEF FinalizeNext
  <2> QED
    BY <2>2, <2>3
<1>2. /\ disk.tip.height = mem.height /\ mem.height \in Nat /\ disk.marker /\ RsTypeOK
      /\ h \in RowHeights /\ h \in Nat /\ h >= 1
  BY <1>1, RestartAssumption DEF RestartInv, HistoryInv, RsTypeOK, RowHeights
<1>3. ~torn => WholeRows
  BY <1>1 DEF CauseInv
<1>4. CASE disk' = disk /\ lost' = lost
  <2>1. ~torn => WholeRows'
    BY <1>2, <1>3, <1>4, WholeKept DEF SameHistory
  <2> QED
    BY <1>1, <2>1, WholeIsEnough
<1>5. CASE disk' = FinalBatch(h)
  <2>1. 1..h \subseteq 1..mem.height \cup {h}
    BY <1>2
  <2> HIDE DEF h
  <2>2. /\ disk'.tip = [height |-> h, id |-> h] /\ disk'.frontier = h /\ disk'.marker = disk.marker
        /\ disk'.mapped = disk.mapped \cup {h} /\ disk'.transitions = disk.transitions \cup {h}
        /\ disk'.certs = disk.certs \cup {h} /\ disk'.hash = disk.hash \cup {h}
    BY <1>2, <1>5, FinalBatchHistory
  <2>3. ~torn => 1..h \subseteq History'
    BY <1>2, <1>3, <2>1, <2>2 DEF WholeRows, History
  <2>4. ~torn => WholeRows'
    BY <1>2, <2>2, <2>3 DEF WholeRows, NoTip, Absent
  <2> QED
    BY <1>1, <2>4, WholeIsEnough
<1> QED
  BY <1>1, <1>4, <1>5

LEMMA CrashRefuses ==
    ASSUME RestartInv, CauseInv, CrashOrStop
    PROVE  CauseInv'
<1>1. disk' = disk /\ stage' = "down" /\ UNCHANGED <<boot, lost>> /\ boot \in BootOptions
  BY DEF CrashOrStop, CauseInv
<1>2. /\ torn => torn'
      /\ stage = "genesis" /\ disk.marker /\ disk.tip = NoTip => torn'
      /\ stage = "repair" /\ disk.tip.height \notin disk.transitions => torn'
  BY DEF CrashOrStop
<1>3. CASE torn'
  BY <1>1, <1>3, TornIsCause
<1>4. CASE ~torn'
  <2>1. ASSUME stage = "genesis"
        PROVE  WholeRows
    <3>1. GenesisProgress /\ ~(disk.marker /\ disk.tip = NoTip)
      BY <1>2, <1>4, <2>1 DEF CauseInv
    <3>2. CASE ~disk.marker
      <4>1. FreshRows /\ disk.frontier = Absent
        BY <3>1, <3>2 DEF GenesisProgress
      <4> QED
        BY <3>2, <4>1 DEF WholeRows, FreshRows, NoTip, Absent
    <3>3. CASE disk.marker
      <4>1. disk.tip = [height |-> 0, id |-> 0] /\ disk.frontier = Absent
        BY <3>1, <3>3 DEF GenesisProgress, FreshRows
      <4> QED
        BY <3>3, <4>1 DEF WholeRows, NoTip, Absent
    <3> QED
      BY <3>2, <3>3
  <2>2. stage = "repair" => WholeRows
    BY <1>2, <1>4 DEF CauseInv, RepairProgress
  <2>3. stage \notin {"genesis", "repair"} => WholeRows
    BY <1>2, <1>4 DEF CauseInv
  <2>4. WholeRows
    BY <2>1, <2>2, <2>3
  <2>5. WholeRows'
    BY <1>1, <2>4, WholeKept DEF SameHistory, WholeRows, FreshRows
  <2> QED
    BY <1>1, <1>4, <2>5 DEF CauseInv, RefusedForCause
<1> QED
  BY <1>3, <1>4

LEMMA LoseRefuses ==
    ASSUME RestartInv, CauseInv, NEW h \in RowHeights, LoseLaneRecord(h)
    PROVE  CauseInv'
<1>1. /\ stage = "down" /\ stage' = "down" /\ UNCHANGED <<boot, torn>> /\ lost' = lost \cup {h}
      /\ disk' = [disk EXCEPT !.lanes = @ \ {h}]
  BY DEF LoseLaneRecord
<1>2. SameHistory /\ disk'.cache = disk.cache /\ disk'.commitment = disk.commitment
  BY <1>1 DEF RestartInv, RsTypeOK, Rows, SameHistory
<1>3. ~torn => WholeRows
  BY <1>1 DEF CauseInv
<1>4. ~torn => WholeRows'
  <2>1. ~torn /\ ~disk.marker => FreshRows'
    BY <1>2, <1>3 DEF WholeRows, FreshRows, SameHistory
  <2> QED
    BY <1>1, <1>2, <1>3, <2>1, WholeKept
<1> QED
  BY <1>1, <1>4, WholeIsEnough

LEMMA DamageRefuses ==
    ASSUME RestartInv, CauseInv, NEW h \in RowHeights, DamageSafetyRow(h)
    PROVE  CauseInv'
<1>1. stage = "down" /\ stage' = "down" /\ UNCHANGED <<boot, torn, lost>>
  BY DEF DamageSafetyRow
<1>2. PICK p, m : disk' = [disk EXCEPT !.primary = p, !.mirror = m]
  <2>1. PICK r, s : \/ disk' = [disk EXCEPT !.primary[h] = r, !.mirror[h] = s]
                    \/ disk' = [disk EXCEPT !.primary[h] = r]
                    \/ disk' = [disk EXCEPT !.mirror[h] = r]
    BY DEF DamageSafetyRow
  <2> DEFINE p == [disk.primary EXCEPT ![h] = r]
             q == [disk.mirror EXCEPT ![h] = r]
             u == [disk.mirror EXCEPT ![h] = s]
  <2>2. \/ disk' = [disk EXCEPT !.primary = p, !.mirror = u]
        \/ disk' = [disk EXCEPT !.primary = p]
        \/ disk' = [disk EXCEPT !.mirror = q]
    BY <2>1
  <2> HIDE DEF p, q, u
  <2>3. \/ disk' = [disk EXCEPT !.primary = p, !.mirror = u]
        \/ disk' = [disk EXCEPT !.primary = p, !.mirror = disk.mirror]
        \/ disk' = [disk EXCEPT !.primary = disk.primary, !.mirror = q]
    BY <2>2 DEF RestartInv, RsTypeOK, Rows
  <2> QED
    BY <2>3
<1>3. SameHistory /\ disk'.cache = disk.cache /\ disk'.commitment = disk.commitment
  BY <1>2 DEF RestartInv, RsTypeOK, Rows, SameHistory
<1>4. ~torn => WholeRows
  BY <1>1 DEF CauseInv
<1>5. ~torn => WholeRows'
  <2>1. ~torn /\ ~disk.marker => FreshRows'
    BY <1>3, <1>4 DEF WholeRows, FreshRows, SameHistory
  <2> QED
    BY <1>1, <1>3, <1>4, <2>1, WholeKept
<1> QED
  BY <1>1, <1>5, WholeIsEnough

LEMMA StutterRefuses ==
    ASSUME CauseInv, UNCHANGED rsVars
    PROVE  CauseInv'
<1>1. UNCHANGED <<disk, pending, stage, boot, mem, lost, torn>>
  BY DEF rsVars
<1>2. WholeRows' = WholeRows /\ Unvouched' = Unvouched
  BY <1>1 DEF WholeRows, Unvouched, History, FreshRows
<1>3. GenesisProgress' = GenesisProgress
  BY <1>1 DEF GenesisProgress, FreshRows
<1>4. RepairProgress' = RepairProgress
  BY <1>1, <1>2 DEF RepairProgress, History
<1>5. RefusedForCause' = RefusedForCause
  BY <1>1 DEF RefusedForCause, repair_cap
<1> QED
  BY <1>1, <1>2, <1>3, <1>4, <1>5 DEF CauseInv

LEMMA FreshCause ==
    ASSUME RsInit
    PROVE  CauseInv
<1>1. boot \in BootOptions /\ stage = "down"
  BY DEF RsInit, BootOptions
<1>2. WholeRows
  BY DEF RsInit, WholeRows, FreshRows, NoTip, Absent
<1> QED
  BY <1>1, <1>2 DEF CauseInv, RefusedForCause

LEMMA WriteRefuses ==
    ASSUME RestartInv, CauseInv, WriteRow
    PROVE  CauseInv'
<1>1. stage \in {"genesis", "repair", "save"}
  BY DEF RestartInv, WritesInv, WriteRow
<1> QED
  BY <1>1, GenesisRefuses, RepairRefuses, SaveRefuses

LEMMA CauseStep ==
    ASSUME RestartInv, CauseInv, [RsNext]_rsVars
    PROVE  CauseInv'
BY OpenRefuses, WriteRefuses, LoadTipRefuses, ReplayRefuses, RestoreRefuses, PrevoteRefuses, PolkaRefuses,
   FinalizeRefuses, CrashRefuses, LoseRefuses, DamageRefuses, StutterRefuses DEF RsNext

\* A start with the default options is refused only for a cause: a crash tore the genesis or a
\* repair, or a lane record was lost that no repair may roll back to (the first block's, one of
\* an earlier epoch, or one further back than the cap; load_state, repair_cap).
THEOREM StartsRefusedForCause == RsSpec => []RefusedForCause
<1>1. RsInit => CauseInv
  BY FreshCause
<1>2. RestartInv /\ CauseInv /\ [RsNext]_rsVars => CauseInv'
  BY CauseStep
<1>3. CauseInv => RefusedForCause
  BY DEF CauseInv
<1> QED
  BY <1>1, <1>2, <1>3, RestartInvariant, PTL DEF RsSpec

-------------------------------------------------------------------------------
(* The light client: certificates, handoffs and pages.                         *)

Claims == [coin : WalletCoins, right : BOOLEAN]

\* A finite set that is not empty is listed by SetToSeq, without repetition.
LEMMA ListsTheSet ==
    ASSUME NEW S, IsFiniteSet(S)
    PROVE  SetToSeq(S) \in Seq(S) /\ \A x \in S : \E i \in DOMAIN SetToSeq(S) : SetToSeq(S)[i] = x
<1> DEFINE n == Cardinality(S)
<1>1. n \in Nat /\ ExistsBijection(1..n, S)
  BY FS_CardinalityType
<1>2. \E g \in [1..n -> S] : IsInjective(g)
  BY <1>1, Zenon DEF ExistsBijection, Bijection, Injection
<1>3. SetToSeq(S) \in [1..n -> S] /\ IsInjective(SetToSeq(S))
  BY <1>2, Zenon DEF SetToSeq
<1> DEFINE f == SetToSeq(S)
<1> HIDE DEF f
<1>4. IsFiniteSet(1..n) /\ Cardinality(1..n) = n
  BY <1>1, FS_Interval
<1>5. f \in Injection(1..n, S)
  BY <1>3 DEF f, Injection
<1>6. f \in Surjection(1..n, S)
  BY <1>4, <1>5, FS_Injection
<1>7. f \in Seq(S) /\ DOMAIN f = 1..n
  BY <1>3, <1>1 DEF f
<1> QED
  BY <1>6, <1>7 DEF f, Surjection

LEMMA SignersOfSet ==
    ASSUME NEW S, IsFiniteSet(S), NEW t, t = SetToSeq(S)
    PROVE  {t[i] : i \in DOMAIN t} = S
<1>1. t \in Seq(S) /\ \A x \in S : \E i \in DOMAIN t : t[i] = x
  BY ListsTheSet, Zenon
<1> QED
  BY <1>1

LEMMA SignersTwice ==
    ASSUME NEW S, IsFiniteSet(S), NEW t, t = SetToSeq(S) \o SetToSeq(S)
    PROVE  {t[i] : i \in DOMAIN t} \subseteq S
<1> DEFINE f == SetToSeq(S)
<1>1. f \in Seq(S)
  BY ListsTheSet
<1> HIDE DEF f
<1>2. t = f \o f
  BY DEF f
<1>3. t \in Seq(S)
  BY <1>1, <1>2
<1> QED
  BY <1>3

\* The quorum of n is at most n unless n is 0.
LEMMA ThresholdWithin ==
    ASSUME NEW C, IsFiniteSet(C), C # {}
    PROVE  Voters(C)!quorum_threshold(Cardinality(C)) <= Cardinality(C)
           /\ Voters(C)!quorum_threshold(Cardinality(C)) \in Nat /\ Cardinality(C) \in Nat
<1>1. Cardinality(C) \in Nat /\ Cardinality(C) # 0
  BY FS_CardinalityType, FS_EmptySet
<1> QED
  BY <1>1 DEF Voters!quorum_threshold

\* The heights of an epoch, and where the next one starts.
LEMMA EpochOfLast ==
    ASSUME NEW e \in Nat, e > 1, (e - 1) % EpochLen = 0
    PROVE  committee_epoch_start(e) = e /\ committee_epoch_start(e - 1) = e - EpochLen
<1>1. EpochLen \in Nat \ {0}
  BY LightAssumption
<1>2. PICK k \in Int : k = (e - 1) \div EpochLen
  BY <1>1
<1>3. PICK p \in Int : p = k * EpochLen
  BY <1>1, <1>2
<1>4. p = e - 1
  BY <1>1, <1>2, <1>3
<1>5. committee_epoch_start(e) = e
  BY <1>2, <1>3, <1>4 DEF committee_epoch_start
<1>6. PICK j \in Int : j = (e - 2) \div EpochLen
  BY <1>1
<1>7. PICK q \in Int : q = j * EpochLen
  BY <1>1, <1>6
<1>8. q <= e - 2 /\ e - 2 < q + EpochLen
  BY <1>1, <1>6, <1>7
<1>9. q = p - EpochLen
  <2>1. q < p /\ p < q + EpochLen + 1
    BY <1>4, <1>8, <1>1
  <2>2. j < k
    BY <2>1, <1>3, <1>7, <1>1
  <2>3. k * EpochLen <= (j + 1) * EpochLen
    BY <2>1, <1>3, <1>7, <1>1
  <2>4. k <= j + 1
    BY <2>3, <1>1, <1>2, <1>6
  <2>5. k = j + 1
    BY <2>2, <2>4
  <2> QED
    BY <2>5, <1>3, <1>7, <1>1
<1>10. committee_epoch_start(e - 1) = q + 1
  BY <1>6, <1>7 DEF committee_epoch_start
<1> QED
  BY <1>4, <1>5, <1>9, <1>10, <1>1

LEMMA FinalizedVerifies ==
    ASSUME NEW h \in Nat, h > 0, NEW e \in DOMAIN CommitteeOf, committee_epoch_start(h) = e
    PROVE  verify_light_finality(e, CommitteeOf[e], Real(h), Signed(Real(h)))
<1> DEFINE c == Signed(Real(h))
<1>1. Real(h).height = h /\ Real(h).real
  BY Zenon DEF Real
<1>2. c.signers = SetToSeq(CommitteeOf[e])
  BY <1>1, Zenon DEF Signed
<1>3. IsFiniteSet(CommitteeOf[e]) /\ CommitteeOf[e] # {}
  BY LightAssumption
<1>4. {c.signers[i] : i \in DOMAIN c.signers} = CommitteeOf[e]
  <2>1. PICK t : t = c.signers
    OBVIOUS
  <2>2. {t[i] : i \in DOMAIN t} = CommitteeOf[e]
    BY <2>1, <1>2, <1>3, SignersOfSet
  <2> QED
    BY <2>1, <2>2, Zenon
<1>5. SignatureCount(c.signers, CommitteeOf[e]) = Cardinality(CommitteeOf[e])
  <2>1. CommitteeOf[e] \cap CommitteeOf[e] = CommitteeOf[e]
    OBVIOUS
  <2> QED
    BY <2>1, <1>4, Zenon DEF SignatureCount
<1>6. SignatureCount(c.signers, CommitteeOf[e]) >= Voters(CommitteeOf[e])!quorum_threshold(Cardinality(CommitteeOf[e]))
  BY <1>3, <1>5, ThresholdWithin
<1>7. c.height = Real(h).height /\ c.real = Real(h).real
  BY Zenon DEF Signed
<1> QED
  BY <1>1, <1>6, <1>7, Zenon DEF verify_light_finality

\* A certificate that a server can send with a transition it made up.
Bad(c, h) == c = Signed(Made(h)) \/ \E g : c = Signed(Real(g))

LEMMA MadeUpFails ==
    ASSUME NEW h, NEW c, Bad(c, h), NEW e \in DOMAIN CommitteeOf
    PROVE  ~ verify_light_finality(e, CommitteeOf[e], Made(h), c)
<1>1. ~Made(h).real
  BY Zenon DEF Made
<1>2. ASSUME NEW g, c = Signed(Real(g))
      PROVE  ~ verify_light_finality(e, CommitteeOf[e], Made(h), c)
  <2>1. c.real = TRUE
    BY <1>2, Zenon DEF Signed, Real
  <2>2. Made(h).real = FALSE
    BY Zenon DEF Made
  <2> QED
    BY <2>1, <2>2, Zenon DEF verify_light_finality
<1>3. CASE c = Signed(Made(h))
  <2>1. c.signers = SetToSeq(Corrupt) \o SetToSeq(Corrupt)
    BY <1>1, <1>3, Zenon DEF Signed
  <2> DEFINE S == {c.signers[i] : i \in DOMAIN c.signers}
  <2>2. S \subseteq Corrupt
    <3>1. PICK t : t = c.signers
      OBVIOUS
    <3>2. {t[i] : i \in DOMAIN t} \subseteq Corrupt
      <4>1. IsFiniteSet(Corrupt) /\ t = SetToSeq(Corrupt) \o SetToSeq(Corrupt)
        BY <3>1, <2>1, LightAssumption, Zenon
      <4> QED
        BY <4>1, SignersTwice
    <3> QED
      BY <3>1, <3>2, Zenon
  <2>3. IsFiniteSet(CommitteeOf[e]) /\ IsFiniteSet(Corrupt)
        /\ CommitteeOf[e] # {}
        /\ Cardinality(Corrupt \cap CommitteeOf[e]) < Voters(CommitteeOf[e])!quorum_threshold(Cardinality(CommitteeOf[e]))
    BY LightAssumption
  <2>4. SignatureCount(c.signers, CommitteeOf[e]) = Cardinality(S \cap CommitteeOf[e])
    BY Zenon DEF SignatureCount
  <2> HIDE DEF S
  <2>5. Cardinality(S \cap CommitteeOf[e]) <= Cardinality(Corrupt \cap CommitteeOf[e])
        /\ Cardinality(S \cap CommitteeOf[e]) \in Nat /\ Cardinality(Corrupt \cap CommitteeOf[e]) \in Nat
    <3>1. IsFiniteSet(Corrupt \cap CommitteeOf[e]) /\ S \cap CommitteeOf[e] \subseteq Corrupt \cap CommitteeOf[e]
      BY <2>2, <2>3, FS_Intersection
    <3>2. IsFiniteSet(S \cap CommitteeOf[e]) /\ Cardinality(S \cap CommitteeOf[e]) <= Cardinality(Corrupt \cap CommitteeOf[e])
      BY <3>1, FS_Subset, Zenon
    <3> QED
      BY <3>1, <3>2, FS_CardinalityType
  <2>6. ~(SignatureCount(c.signers, CommitteeOf[e]) >= Voters(CommitteeOf[e])!quorum_threshold(Cardinality(CommitteeOf[e])))
    BY <2>3, <2>4, <2>5, ThresholdWithin
  <2> QED
    BY <2>6, Zenon DEF verify_light_finality
<1> QED
  BY <1>2, <1>3, Zenon DEF Bad

\* What the wallet proves of a claim against the coins of a height.
LEMMA ProvenClaim ==
    ASSUME NEW x \in Claims, NEW coins, StatusOf(x, coins) = "unspent"
    PROVE  x \in Listing(coins) /\ x.right /\ x.coin \in coins
<1>1. x.coin \in coins
  <2> SUFFICES ASSUME x.coin \notin coins PROVE FALSE
    OBVIOUS
  <2>1. StatusOf(x, coins) = "spent"
    BY Zenon DEF StatusOf
  <2> QED
    BY <2>1
<1>2. x.right
  <2> SUFFICES ASSUME ~x.right PROVE FALSE
    OBVIOUS
  <2>1. StatusOf(x, coins) = "different"
    BY <1>1, Zenon DEF StatusOf
  <2> QED
    BY <2>1
<1>3. PICK c \in WalletCoins, b \in BOOLEAN : x = [coin |-> c, right |-> b]
  BY Zenon DEF Claims
<1>4. x.coin = c /\ x.right = b
  BY <1>3, Zenon
<1>5. x = [coin |-> c, right |-> TRUE]
  BY <1>2, <1>3, <1>4, Zenon
<1> QED
  BY <1>1, <1>2, <1>4, <1>5, Zenon DEF Listing

LEMMA ListedClaim ==
    ASSUME NEW coins, NEW x \in Listing(coins)
    PROVE  x.right /\ x.coin \in coins /\ StatusOf(x, coins) = "unspent"
           /\ \A other : StatusOf(x, other) # "different"
<1>1. PICK c \in coins : x = [coin |-> c, right |-> TRUE]
  BY Zenon DEF Listing
<1>2. x.coin = c /\ x.right
  BY <1>1, Zenon
<1>3. StatusOf(x, coins) = "unspent"
  BY <1>2, Zenon DEF StatusOf
<1>4. ASSUME NEW other PROVE StatusOf(x, other) # "different"
  <2>1. StatusOf(x, other) = "spent" \/ StatusOf(x, other) = "unspent"
    <3>1. CASE x.coin \in other
      BY <1>2, <3>1, Zenon DEF StatusOf
    <3>2. CASE x.coin \notin other
      BY <1>2, <3>2, Zenon DEF StatusOf
    <3> QED
      BY <3>1, <3>2
  <2> QED
    BY <2>1
<1> QED
  BY <1>2, <1>3, <1>4

LEMMA ListedCoin ==
    ASSUME NEW coins, NEW c \in coins
    PROVE  \E x \in Listing(coins) : x.coin = c
<1>1. [coin |-> c, right |-> TRUE] \in Listing(coins)
  BY Zenon DEF Listing
<1> QED
  BY <1>1, Zenon

LEMMA ClaimsMade ==
    /\ \A coins \in SUBSET WalletCoins : Listing(coins) \in SUBSET Claims
    /\ LiesAbout \subseteq SUBSET Claims
<1>1. \A b \in BOOLEAN : \A c \in WalletCoins : [coin |-> c, right |-> b] \in Claims
  BY Zenon DEF Claims
<1>2. \A coins \in SUBSET WalletCoins : Listing(coins) \in SUBSET Claims
  BY <1>1, Zenon DEF Listing
<1>3. \A c \in WalletCoins : {[coin |-> c, right |-> FALSE]} \in SUBSET Claims
  BY <1>1, Zenon
<1> QED
  BY <1>2, <1>3, Zenon DEF LiesAbout
-------------------------------------------------------------------------------
(* The state of the wallet between two steps.                                  *)

TrustOK(f) ==
    /\ DOMAIN f \subseteq DOMAIN CommitteeOf /\ DOMAIN f # {}
    /\ \E m \in Nat : \A e \in DOMAIN f : e <= m
    /\ \A e \in DOMAIN f : f[e] = CommitteeOf[e]

TrustInv == TrustOK(trusted) /\ (savedTrust = <<>> \/ TrustOK(savedTrust))

ServersInv ==
    /\ unspent \in Seq(SUBSET WalletCoins) /\ tips \in [HonestServers -> Nat]
    /\ probes \in [Servers -> [tip : Nat, seen : Int, listed : SUBSET Claims]]
    /\ \A s \in HonestServers :
         /\ tips[s] <= Len(unspent) /\ probes[s].tip <= tips[s]
         /\ probes[s].seen # -1 =>
              /\ probes[s].seen \in 1..Len(unspent) /\ probes[s].listed = Listing(unspent[probes[s].seen])

PageOK(page, s) ==
    \/ \E h \in 1..Len(unspent) : page = PageAt(h)
    \/ /\ s \notin HonestServers
       /\ \E c : Bad(c, LastFinalized) /\ page = [transition |-> Made(LastFinalized), certificate |-> c, coins |-> WalletCoins]

Running ==
    /\ ~shown.done
    /\ DOMAIN job = {"order", "expected", "statuses", "heights", "page", "faults"}
    /\ job.expected \in Seq(Claims) /\ job.statuses \in Seq({"spent", "unspent", "different"})
    /\ Len(job.statuses) <= Len(job.expected)
    /\ \A i \in DOMAIN job.expected : job.expected[i] \in Distinct
    /\ \A x \in Distinct : \E i \in DOMAIN job.expected : job.expected[i] = x
    /\ job.heights \subseteq 1..Len(unspent)
    /\ \A i \in DOMAIN job.statuses :
         \E h \in job.heights : job.statuses[i] = StatusOf(job.expected[i], unspent[h])
    /\ job.page = <<>> \/ \E page : job.page = <<page>> /\ PageOK(page, Head(job.order))
    /\ job.faults \cap HonestServers = {}

JobInv == job = NoJob \/ Running

ShownInv ==
    /\ shown.faults \cap HonestServers = {}
    /\ shown.verified => shown.done
    /\ shown.verified =>
        /\ shown.heights \subseteq 1..Len(unspent)
        /\ \A c \in shown.coins : c.right /\ \E h \in shown.heights : c.coin \in unspent[h]
        /\ \A s \in HonestServers \cap Claimed :
               shown.heights = {probes[s].seen} => shown.coins = Listing(unspent[probes[s].seen])
    /\ \A s \in shown.blamed \cap HonestServers :
           shown.done /\ (probes[s].seen # probes[s].tip \/ Cardinality(shown.heights) > 1)

LightInv == TrustInv /\ ServersInv /\ JobInv /\ ShownInv

-------------------------------------------------------------------------------
\* A set of numbers below a bound has a greatest one.
LEMMA GreatestMember ==
    ASSUME NEW S \in SUBSET Nat, S # {}, NEW m \in Nat, \A x \in S : x <= m
    PROVE  \E x \in S : \A y \in S : y <= x
<1> DEFINE T == {m - x : x \in S}
<1>1. T \in SUBSET Nat /\ T # {}
  <2>1. \A x \in S : m - x \in Nat
    OBVIOUS
  <2> QED
    BY <2>1, Zenon
<1> HIDE DEF T
<1>2. PICK t \in T : \A y \in T : ~ (<<y, t>> \in OpToRel(<, Nat))
  BY <1>1, NatLessThanWellFounded, WFMin
<1>3. \A y \in T : ~(y < t)
  BY <1>1, <1>2 DEF OpToRel
<1>4. PICK x \in S : t = m - x
  BY DEF T
<1>5. ASSUME NEW y \in S PROVE y <= x
  <2>1. ~(m - y < t)
    BY <1>3 DEF T
  <2> QED
    BY <2>1, <1>4
<1> QED
  BY <1>5

LEMMA NewestKnown ==
    ASSUME NEW f, TrustOK(f)
    PROVE  /\ NewestEpoch(f) \in DOMAIN f /\ NewestEpoch(f) \in DOMAIN CommitteeOf /\ NewestEpoch(f) \in Nat
           /\ \A g \in DOMAIN f : g <= NewestEpoch(f)
<1>1. DOMAIN f \in SUBSET Nat /\ DOMAIN f # {}
  BY LightAssumption DEF TrustOK
<1>2. PICK m \in Nat : \A e \in DOMAIN f : e <= m
  BY DEF TrustOK
<1>3. \E e \in DOMAIN f : \A g \in DOMAIN f : g <= e
  BY <1>1, <1>2, GreatestMember
<1>4. NewestEpoch(f) \in DOMAIN f /\ \A g \in DOMAIN f : g <= NewestEpoch(f)
  BY <1>3, Zenon DEF NewestEpoch
<1> QED
  BY <1>1, <1>4 DEF TrustOK

LEMMA GenesisTrust == TrustOK(from_genesis)
  BY LightAssumption DEF TrustOK, from_genesis

\* An epoch that is remembered with its committee leaves a trusted set of checkpoints.
LEMMA Remembered ==
    ASSUME NEW f, TrustOK(f), NEW e \in DOMAIN CommitteeOf
    PROVE  TrustOK(remember(f, e, CommitteeOf[e]))
<1> DEFINE all == DOMAIN f \cup {e}
           more == [d \in all |-> IF d = e THEN CommitteeOf[e] ELSE f[d]]
           kept == {d \in DOMAIN more : Cardinality({g \in DOMAIN more : g > d}) < KeptCheckpoints}
           new == [d \in kept |-> more[d]]
<1>1. remember(f, e, CommitteeOf[e]) = new
  BY Zenon DEF remember
<1>2. DOMAIN more = all
  OBVIOUS
<1>3. \A d \in all : more[d] = CommitteeOf[d]
  BY DEF TrustOK
<1> HIDE DEF more
<1>4. DOMAIN new = kept /\ kept \subseteq all /\ \A d \in kept : new[d] = more[d]
  BY <1>2
<1> HIDE DEF new
<1>5. all \in SUBSET Nat /\ all # {} /\ all \subseteq DOMAIN CommitteeOf
  BY LightAssumption DEF TrustOK
<1>6. PICK m \in Nat : \A d \in DOMAIN f : d <= m
  BY DEF TrustOK
<1>7. PICK n \in Nat : \A d \in all : d <= n
  <2>1. CASE m <= e
    <3>1. \A d \in all : d <= e
      BY <2>1, <1>5, <1>6
    <3> QED
      BY <3>1, <1>5
  <2>2. CASE ~(m <= e)
    <3>1. \A d \in all : d <= m
      BY <2>2, <1>5, <1>6
    <3> QED
      BY <3>1, <1>5
  <2> QED
    BY <2>1, <2>2
<1>8. PICK t \in all : \A d \in all : d <= t
  <2> HIDE DEF all
  <2> QED
    BY <1>5, <1>7, GreatestMember
<1>9. t \in kept
  <2>1. {g \in DOMAIN more : g > t} = {}
    BY <1>2, <1>5, <1>8
  <2>2. Cardinality({g \in DOMAIN more : g > t}) = 0
    BY <2>1, FS_EmptySet
  <2> QED
    BY <1>2, <2>2, LightAssumption
<1> HIDE DEF all, kept
<1> QED
  BY <1>1, <1>3, <1>4, <1>5, <1>7, <1>9 DEF TrustOK

LEMMA ClaimsFinite == IsFiniteSet(Claims) /\ IsFiniteSet(BOOLEAN)
<1>1. IsFiniteSet(WalletCoins)
  BY LightAssumption
<1>2. IsFiniteSet(BOOLEAN)
  <2>1. IsFiniteSet({}) /\ IsFiniteSet({} \cup {TRUE}) /\ IsFiniteSet(({} \cup {TRUE}) \cup {FALSE})
    BY FS_EmptySet, FS_AddElement, Zenon
  <2>2. ({} \cup {TRUE}) \cup {FALSE} = BOOLEAN
    BY Zenon
  <2> QED
    BY <2>1, <2>2, Zenon
<1> DEFINE P == WalletCoins \X BOOLEAN
<1>3. IsFiniteSet(P)
  BY <1>1, <1>2, FS_Product
<1> DEFINE f == [p \in P |-> [coin |-> p[1], right |-> p[2]]]
<1>4. f \in Surjection(P, Claims)
  <2>1. \A p \in P : [coin |-> p[1], right |-> p[2]] \in Claims
    BY DEF Claims
  <2>2. f \in [P -> Claims]
    BY <2>1, Zenon
  <2>3. ASSUME NEW x \in Claims PROVE \E p \in P : f[p] = x
    <3>1. PICK c \in WalletCoins, b \in BOOLEAN : x = [coin |-> c, right |-> b]
      BY Zenon DEF Claims
    <3>2. <<c, b>> \in P /\ <<c, b>>[1] = c /\ <<c, b>>[2] = b
      OBVIOUS
    <3>3. f[<<c, b>>] = [coin |-> <<c, b>>[1], right |-> <<c, b>>[2]]
      BY <3>2, Zenon
    <3> QED
      BY <3>1, <3>2, <3>3, Zenon
  <2> QED
    BY <2>2, <2>3, Zenon DEF Surjection
<1> HIDE DEF f, P
<1>5. IsFiniteSet(Claims)
  BY <1>3, <1>4, FS_Surjection
<1> QED
  BY <1>2, <1>5

\* The coins any server claims, each in its place of the list that is proven.
LEMMA ExpectedList ==
    ASSUME ServersInv
    PROVE  /\ SetToSeq(Distinct) \in Seq(Claims)
           /\ \A i \in DOMAIN SetToSeq(Distinct) : SetToSeq(Distinct)[i] \in Distinct
           /\ \A x \in Distinct : \E i \in DOMAIN SetToSeq(Distinct) : SetToSeq(Distinct)[i] = x
<1>1. Distinct \subseteq Claims
  BY DEF ServersInv, Distinct, Claimed
<1>2. IsFiniteSet(Distinct)
  BY <1>1, ClaimsFinite, FS_Subset
<1>3. PICK q : q = SetToSeq(Distinct)
  OBVIOUS
<1>4. q \in Seq(Distinct) /\ \A x \in Distinct : \E i \in DOMAIN q : q[i] = x
  BY <1>2, <1>3, ListsTheSet, Zenon
<1>5. q \in Seq(Claims) /\ \A i \in DOMAIN q : q[i] \in Distinct
  BY <1>1, <1>4
<1> QED
  BY <1>3, <1>4, <1>5, Zenon
-------------------------------------------------------------------------------
(* The steps.                                                                  *)

LEMMA NothingIsShown ==
    ASSUME NEW v, v = NothingShown \/ \E f : f \cap HonestServers = {} /\ v = [NothingShown EXCEPT !.done = TRUE, !.faults = f]
    PROVE  ~v.verified /\ v.blamed = {} /\ v.faults \cap HonestServers = {}
<1>1. CASE v = NothingShown
  <2>1. ~v.verified /\ v.blamed = {} /\ v.faults = {}
    BY <1>1, Zenon DEF NothingShown
  <2> QED
    BY <2>1
<1>2. ASSUME NEW f, f \cap HonestServers = {}, v = [NothingShown EXCEPT !.done = TRUE, !.faults = f]
      PROVE  ~v.verified /\ v.blamed = {} /\ v.faults \cap HonestServers = {}
  <2>1. v = [done |-> TRUE, verified |-> FALSE, height |-> 0, heights |-> {}, coins |-> {}, blamed |-> {}, faults |-> f]
    BY <1>2 DEF NothingShown
  <2>2. ~v.verified /\ v.blamed = {} /\ v.faults = f
    BY <2>1, Zenon
  <2> QED
    BY <2>2, <1>2, Zenon
<1> QED
  BY <1>1, <1>2, Zenon

LEMMA StaysReset ==
    ASSUME shown' = NothingShown \/ \E f : f \cap HonestServers = {} /\ shown' = [NothingShown EXCEPT !.done = TRUE, !.faults = f]
    PROVE  ShownInv'
<1>1. ~shown'.verified /\ shown'.blamed = {} /\ shown'.faults \cap HonestServers = {}
  BY NothingIsShown, Zenon
<1> QED
  BY <1>1, Zenon DEF ShownInv

\* Nothing but the trusted checkpoints, or the honest servers' tips, moves.
LEMMA OthersKeep ==
    ASSUME LightInv, UNCHANGED <<unspent, probes, job, shown>>
    PROVE  JobInv' /\ ShownInv'
<1>1. (\A h : PageAt(h)' = PageAt(h)) /\ Distinct' = Distinct /\ Claimed' = Claimed
  BY Zenon DEF PageAt, Distinct, Claimed
<1>2. \A p, s : PageOK(p, s) => PageOK(p, s)'
  BY <1>1, Zenon DEF PageOK
<1>3. JobInv'
  BY <1>1, <1>2, Zenon DEF LightInv, JobInv, Running
<1>4. ShownInv'
  BY <1>1, Zenon DEF LightInv, ShownInv
<1> QED
  BY <1>3, <1>4

LEMMA FinalizeKeepsLight ==
    ASSUME LightInv, NEW next \in SUBSET WalletCoins, FinalizeCoins(next)
    PROVE  LightInv'
<1>1. unspent \in Seq(SUBSET WalletCoins) /\ unspent' = Append(unspent, next)
  BY DEF LightInv, ServersInv, FinalizeCoins
<1>2. unspent' \in Seq(SUBSET WalletCoins) /\ Len(unspent') = Len(unspent) + 1 /\ Len(unspent) \in Nat
      /\ \A h \in 1..Len(unspent) : unspent'[h] = unspent[h]
  BY <1>1
<1>3. UNCHANGED <<tips, probes, trusted, savedTrust, job, shown>>
  BY DEF FinalizeCoins
<1>4. 1..Len(unspent) \subseteq 1..Len(unspent')
  BY <1>2
<1>5. \A h \in 1..Len(unspent) : PageAt(h)' = PageAt(h)
  BY <1>2 DEF PageAt
<1>6. Distinct' = Distinct /\ Claimed' = Claimed
  BY <1>3, Zenon DEF Distinct, Claimed
<1>7. TrustInv'
  BY <1>3, Zenon DEF LightInv, TrustInv
<1>8. ServersInv'
  <2>1. \A s \in HonestServers : tips[s] \in Nat /\ tips[s] <= Len(unspent')
    BY <1>2 DEF LightInv, ServersInv
  <2> QED
    BY <2>1, <1>2, <1>3, <1>4 DEF LightInv, ServersInv
<1>9. JobInv'
  <2>1. \A p, s : PageOK(p, s) => PageOK(p, s)'
    BY <1>4, <1>5, Zenon DEF PageOK
  <2>2. CASE job = NoJob
    BY <1>3, <2>2 DEF JobInv
  <2>3. CASE Running
    <3>1. job.heights \subseteq 1..Len(unspent')
      BY <1>4, <2>3 DEF Running
    <3>2. \A i \in DOMAIN job.statuses : \E h \in job.heights : job.statuses[i] = StatusOf(job.expected[i], unspent'[h])
      BY <1>2, <2>3 DEF Running
    <3> QED
      BY <2>1, <2>3, <3>1, <3>2, <1>3, <1>6, Zenon DEF JobInv, Running
  <2> QED
    BY <2>2, <2>3 DEF LightInv, JobInv
<1>10. ShownInv'
  <2>1. ASSUME shown.verified
        PROVE  /\ shown.heights \subseteq 1..Len(unspent')
               /\ \A h \in shown.heights : unspent'[h] = unspent[h]
    BY <1>2, <1>4, <2>1 DEF LightInv, ShownInv
  <2>2. \A s \in HonestServers \cap Claimed : unspent'[probes[s].seen] = unspent[probes[s].seen]
    <3>1. \A s \in HonestServers \cap Claimed : probes[s].seen \in 1..Len(unspent)
      BY DEF LightInv, ServersInv, Claimed
    <3> QED
      BY <3>1, <1>2
  <2> QED
    BY <1>3, <1>6, <2>1, <2>2, Zenon DEF LightInv, ShownInv
<1> QED
  BY <1>7, <1>8, <1>9, <1>10 DEF LightInv

LEMMA FollowKeeps ==
    ASSUME LightInv, NEW s \in HonestServers, ServerFollows(s)
    PROVE  LightInv'
<1>1. UNCHANGED <<unspent, probes, trusted, savedTrust, job, shown>>
  BY DEF ServerFollows
<1>2. TrustInv'
  BY <1>1, Zenon DEF LightInv, TrustInv
<1>3. ServersInv'
  <2>1. tips' \in [HonestServers -> Nat] /\ \A q \in HonestServers : tips[q] <= tips'[q] /\ tips'[q] <= Len(unspent)
    BY DEF LightInv, ServersInv, ServerFollows
  <2>2. \A q \in HonestServers : q \in Servers /\ tips[q] \in Nat /\ tips'[q] \in Nat /\ probes[q].tip \in Nat
    BY <2>1 DEF LightInv, ServersInv, Servers
  <2> QED
    BY <1>1, <2>1, <2>2 DEF LightInv, ServersInv
<1> QED
  BY <1>1, <1>2, <1>3, OthersKeep DEF LightInv

LEMMA ProbeKeeps ==
    ASSUME LightInv, NEW s \in Servers, Probe(s)
    PROVE  LightInv'
<1>1. UNCHANGED <<unspent, tips, trusted, savedTrust, job, shown>> /\ job = NoJob /\ ~shown.done
  BY Zenon DEF Probe
<1>2. TrustInv'
  BY <1>1, Zenon DEF LightInv, TrustInv
<1>3. JobInv'
  BY <1>1, Zenon DEF JobInv
<1>4. ShownInv'
  <2>1. ~shown.verified /\ shown.blamed \cap HonestServers = {}
    BY <1>1, Zenon DEF LightInv, ShownInv
  <2> QED
    BY <1>1, <2>1, Zenon DEF LightInv, ShownInv
<1>5. ServersInv'
  <2>1. unspent \in Seq(SUBSET WalletCoins) /\ tips \in [HonestServers -> Nat]
        /\ probes \in [Servers -> [tip : Nat, seen : Int, listed : SUBSET Claims]]
    BY DEF LightInv, ServersInv
  <2>2. ASSUME NEW r \in [tip : Nat, seen : Int, listed : SUBSET Claims], probes' = [probes EXCEPT ![s] = r],
               s \in HonestServers => /\ r.tip <= tips[s]
                                      /\ r.seen # -1 => r.seen \in 1..Len(unspent) /\ r.listed = Listing(unspent[r.seen])
        PROVE  ServersInv'
    <3>1. probes' \in [Servers -> [tip : Nat, seen : Int, listed : SUBSET Claims]]
          /\ \A q \in Servers : probes'[q] = IF q = s THEN r ELSE probes[q]
      BY <2>1, <2>2
    <3>2. HonestServers \subseteq Servers
      BY DEF Servers
    <3> QED
      BY <1>1, <2>2, <3>1, <3>2 DEF LightInv, ServersInv
  <2>3. CASE s \in HonestServers /\ probes[s].tip = 0 /\ tips[s] > 0
             /\ probes' = [probes EXCEPT ![s] = [NoProbe EXCEPT !.tip = tips[s]]]
    <3>1. PICK r : r = [NoProbe EXCEPT !.tip = tips[s]]
      OBVIOUS
    <3>2. r = [tip |-> tips[s], seen |-> -1, listed |-> {}] /\ tips[s] \in Nat
      BY <2>1, <2>3, <3>1 DEF NoProbe
    <3>3. r \in [tip : Nat, seen : Int, listed : SUBSET Claims] /\ r.tip <= tips[s] /\ r.seen = -1
      BY <3>2
    <3> QED
      BY <2>2, <2>3, <3>1, <3>3, Zenon
  <2>4. CASE s \in HonestServers /\ probes[s].tip > 0 /\ probes[s].seen = -1
             /\ probes' = [probes EXCEPT ![s].seen = tips[s], ![s].listed = Listing(unspent[tips[s]])]
    <3>1. PICK r : r = [tip |-> probes[s].tip, seen |-> tips[s], listed |-> Listing(unspent[tips[s]])]
      OBVIOUS
    <3>2. tips[s] \in 1..Len(unspent) /\ probes[s].tip <= tips[s]
      BY <2>1, <2>4 DEF LightInv, ServersInv
    <3>3. Listing(unspent[tips[s]]) \in SUBSET Claims
      <4>1. unspent[tips[s]] \in SUBSET WalletCoins
        BY <2>1, <3>2
      <4> QED
        BY <4>1, ClaimsMade, Zenon
    <3>4. r \in [tip : Nat, seen : Int, listed : SUBSET Claims]
      BY <2>1, <2>4, <3>1, <3>2, <3>3
    <3>5. probes' = [probes EXCEPT ![s] = r]
      <4>1. [[probes[s] EXCEPT !.seen = tips[s]] EXCEPT !.listed = Listing(unspent[tips[s]])] = r
        <5>1. PICK old : old = probes[s]
          OBVIOUS
        <5>2. old \in [tip : Nat, seen : Int, listed : SUBSET Claims]
          BY <2>1, <5>1
        <5>3. PICK new : new = Listing(unspent[tips[s]])
          OBVIOUS
        <5>4. [[old EXCEPT !.seen = tips[s]] EXCEPT !.listed = new] = [tip |-> old.tip, seen |-> tips[s], listed |-> new]
          <6>1. PICK t, n, l : old = [tip |-> t, seen |-> n, listed |-> l]
            <7>1. old = [tip |-> old.tip, seen |-> old.seen, listed |-> old.listed]
              BY <5>2
            <7> QED
              BY <7>1, Zenon
          <6>2. old.tip = t
            BY <6>1
          <6>3. [old EXCEPT !.seen = tips[s]] = [tip |-> t, seen |-> tips[s], listed |-> l]
            BY <6>1
          <6>4. [[tip |-> t, seen |-> tips[s], listed |-> l] EXCEPT !.listed = new] = [tip |-> t, seen |-> tips[s], listed |-> new]
            OBVIOUS
          <6> QED
            BY <6>2, <6>3, <6>4, Zenon
        <5> QED
          BY <3>1, <5>1, <5>3, <5>4, Zenon
      <4>2. PICK one : one = [probes EXCEPT ![s].seen = tips[s]]
        OBVIOUS
      <4>3. one[s] = [probes[s] EXCEPT !.seen = tips[s]] /\ DOMAIN one = Servers
            /\ \A q \in Servers \ {s} : one[q] = probes[q]
        BY <2>1, <4>2
      <4>4. probes' = [one EXCEPT ![s].listed = Listing(unspent[tips[s]])]
        BY <2>4, <4>2
      <4>5. DOMAIN probes' = Servers /\ probes'[s] = r /\ \A q \in Servers \ {s} : probes'[q] = probes[q]
        BY <4>1, <4>3, <4>4
      <4> QED
        BY <4>4, <4>5, <2>1
    <3> QED
      BY <2>2, <3>1, <3>2, <3>4, <3>5
  <2>5. ASSUME s \in LyingServers, NEW listed \in LiesAbout,
               probes' = [probes EXCEPT ![s] = [tip |-> LastFinalized, seen |-> 0, listed |-> listed]]
        PROVE  ServersInv'
    <3>1. PICK r : r = [tip |-> LastFinalized, seen |-> 0, listed |-> listed]
      OBVIOUS
    <3>2. listed \in SUBSET Claims
      BY ClaimsMade, Zenon
    <3>3. r \in [tip : Nat, seen : Int, listed : SUBSET Claims]
      BY <3>1, <3>2, LightAssumption
    <3>4. s \notin HonestServers
      BY <2>5, LightAssumption
    <3> QED
      BY <2>2, <2>5, <3>1, <3>3, <3>4
  <2> QED
    BY <2>3, <2>4, <2>5, Zenon DEF Probe
<1> QED
  BY <1>2, <1>3, <1>4, <1>5 DEF LightInv

LEMMA StartKeeps ==
    ASSUME LightInv, NEW order, verify_claimed_balance(order)
    PROVE  LightInv'
<1>1. UNCHANGED <<unspent, tips, probes, trusted, savedTrust, shown>> /\ ~shown.done
      /\ job' = [NoJob EXCEPT !.order = order, !.expected = SetToSeq(Distinct)]
  BY Zenon DEF verify_claimed_balance
<1>2. TrustInv' /\ ServersInv'
  BY <1>1, Zenon DEF LightInv, TrustInv, ServersInv
<1>3. Claimed' = Claimed /\ Distinct' = Distinct
  BY <1>1, Zenon DEF Claimed, Distinct
<1>4. ShownInv'
  BY <1>1, <1>3, Zenon DEF LightInv, ShownInv
<1>5. PICK q : q = SetToSeq(Distinct)
  OBVIOUS
<1>6. q \in Seq(Claims) /\ (\A i \in DOMAIN q : q[i] \in Distinct) /\ \A x \in Distinct : \E i \in DOMAIN q : q[i] = x
  BY <1>5, ExpectedList, Zenon DEF LightInv
<1>7. job' = [order |-> order, expected |-> q, statuses |-> <<>>, heights |-> {}, page |-> <<>>, faults |-> {}]
  BY <1>1, <1>5 DEF NoJob
<1>8. job'.order = order /\ job'.expected = q /\ job'.statuses = <<>> /\ job'.heights = {} /\ job'.page = <<>> /\ job'.faults = {}
  BY <1>7, Zenon
<1>9. DOMAIN job' = {"order", "expected", "statuses", "heights", "page", "faults"}
  BY <1>7
<1>10. <<>> \in Seq({"spent", "unspent", "different"}) /\ Len(<<>>) <= Len(q) /\ DOMAIN <<>> = {}
  BY <1>6
<1>11. Running'
  BY <1>1, <1>3, <1>6, <1>8, <1>9, <1>10, Zenon DEF Running
<1> QED
  BY <1>2, <1>4, <1>11 DEF LightInv, JobInv
JobShape == {"order", "expected", "statuses", "heights", "page", "faults"}

LEMMA RunningJob ==
    ASSUME LightInv, job # NoJob
    PROVE  Running /\ DOMAIN job = JobShape
  BY Zenon DEF LightInv, JobInv, Running, JobShape

\* The next endpoint starts anew, or the balance stays unverified.
LEMMA GiveUpKeeps ==
    ASSUME LightInv, job # NoJob, NEW fault \in BOOLEAN, fault => Head(job.order) \notin HonestServers, GiveUp(fault),
           UNCHANGED <<unspent, tips, probes, trusted, savedTrust>>
    PROVE  LightInv'
<1>1. TrustInv' /\ ServersInv'
  BY Zenon DEF LightInv, TrustInv, ServersInv
<1>2. Running /\ DOMAIN job = JobShape
  BY RunningJob
<1>3. PICK blame : blame = IF fault THEN job.faults \cup {Head(job.order)} ELSE job.faults
  OBVIOUS
<1>4. blame \cap HonestServers = {}
  BY <1>2, <1>3 DEF Running
<1>5. Claimed' = Claimed /\ Distinct' = Distinct
  BY Zenon DEF Claimed, Distinct
<1>6. CASE Len(job.order) > 1
  <2>1. shown' = shown
        /\ job' = [job EXCEPT !.order = Tail(job.order), !.statuses = <<>>, !.heights = {}, !.page = <<>>, !.faults = blame]
    BY <1>3, <1>6, Zenon DEF GiveUp
  <2>3. /\ DOMAIN job' = JobShape
        /\ job'.expected = job.expected /\ job'.statuses = <<>> /\ job'.heights = {} /\ job'.page = <<>> /\ job'.faults = blame
    BY <1>2, <2>1 DEF JobShape
  <2>4. <<>> \in Seq({"spent", "unspent", "different"}) /\ Len(<<>>) <= Len(job.expected) /\ DOMAIN <<>> = {}
    <3>1. Len(job.expected) \in Nat
      BY <1>2 DEF Running
    <3> QED
      BY <3>1
  <2>5. Running'
    BY <1>2, <1>4, <1>5, <2>1, <2>3, <2>4, Zenon DEF Running, JobShape
  <2>6. ShownInv'
    BY <1>5, <2>1, Zenon DEF LightInv, ShownInv
  <2> QED
    BY <1>1, <2>5, <2>6 DEF LightInv, JobInv
<1>7. CASE ~(Len(job.order) > 1)
  <2>1. job' = NoJob /\ shown' = [NothingShown EXCEPT !.done = TRUE, !.faults = blame]
    BY <1>3, <1>7, Zenon DEF GiveUp
  <2>2. ShownInv'
    BY <1>4, <2>1, StaysReset, Zenon
  <2> QED
    BY <1>1, <2>1, <2>2 DEF LightInv, JobInv
<1> QED
  BY <1>6, <1>7

\* What an honest server sends, and what any other one can.
LEMMA PagesSent ==
    ASSUME LightInv, NEW s, NEW page \in PagesOf(s)
    PROVE  PageOK(page, s)
<1>1. unspent \in Seq(SUBSET WalletCoins) /\ Len(unspent) \in Nat
  BY DEF LightInv, ServersInv
<1>2. CASE s \in HonestServers
  <2>1. page = PageAt(tips[s]) /\ tips[s] # 0
    BY <1>2, Zenon DEF PagesOf
  <2>2. tips[s] \in 1..Len(unspent)
    BY <1>1, <1>2, <2>1 DEF LightInv, ServersInv
  <2> QED
    BY <2>1, <2>2, Zenon DEF PageOK
<1>3. CASE s \notin HonestServers
  <2>1. CASE \E h \in 1..Len(unspent) : page = PageAt(h)
    BY <2>1, Zenon DEF PageOK
  <2>2. ASSUME NEW c \in CertificatesAt(LastFinalized),
               page = [transition |-> Made(LastFinalized), certificate |-> c, coins |-> WalletCoins]
        PROVE  PageOK(page, s)
    <3>1. Bad(c, LastFinalized)
      BY Zenon DEF CertificatesAt, Bad
    <3> QED
      BY <1>3, <2>2, <3>1, Zenon DEF PageOK
  <2> QED
    BY <1>3, <2>1, <2>2, Zenon DEF PagesOf
<1> QED
  BY <1>2, <1>3

LEMMA RequestKeeps ==
    ASSUME LightInv, RequestPage
    PROVE  LightInv'
<1>1. UNCHANGED <<unspent, tips, probes, trusted, savedTrust>> /\ job # NoJob
  <2>1. NoJob.order = <<>>
    BY Zenon DEF NoJob
  <2> QED
    BY <2>1, Zenon DEF RequestPage
<1>2. Running /\ DOMAIN job = JobShape
  BY <1>1, RunningJob
<1>3. ASSUME NEW page \in PagesOf(Head(job.order)), job' = [job EXCEPT !.page = <<page>>], shown' = shown
      PROVE  LightInv'
  <2>1. TrustInv' /\ ServersInv'
    BY <1>1, Zenon DEF LightInv, TrustInv, ServersInv
  <2>2. PageOK(page, Head(job.order))
    BY <1>3, PagesSent
  <2>3. Claimed' = Claimed /\ Distinct' = Distinct /\ \A p, s : PageOK(p, s) => PageOK(p, s)'
    <3>1. \A h : PageAt(h)' = PageAt(h)
      BY <1>1, Zenon DEF PageAt
    <3> QED
      BY <1>1, <3>1, Zenon DEF Claimed, Distinct, PageOK
  <2>4. ShownInv'
    BY <1>1, <1>3, <2>3, Zenon DEF LightInv, ShownInv
  <2>6. /\ DOMAIN job' = JobShape
        /\ job'.order = job.order /\ job'.expected = job.expected /\ job'.statuses = job.statuses
        /\ job'.heights = job.heights /\ job'.page = <<page>> /\ job'.faults = job.faults
    BY <1>2, <1>3 DEF JobShape
  <2>7. PICK s : s = Head(job.order)
    OBVIOUS
  <2>8. PageOK(page, s)'
    BY <2>2, <2>3, <2>7, Zenon
  <2>9. Head(job'.order) = s
    BY <2>6, <2>7, Zenon
  <2>10. (\E pg : job.page = <<pg>> /\ PageOK(pg, Head(job.order)))'
    BY <2>6, <2>8, <2>9, Zenon
  <2>11. Running'
    BY <1>1, <1>2, <1>3, <2>3, <2>6, <2>10, Zenon DEF Running, JobShape
  <2> QED
    BY <2>1, <2>4, <2>11 DEF LightInv, JobInv
<1>4. CASE Head(job.order) \in LyingServers /\ GiveUp(TRUE)
  <2>1. Head(job.order) \notin HonestServers
    BY <1>4, LightAssumption
  <2> QED
    BY <1>1, <1>4, <2>1, GiveUpKeeps, Zenon
<1>5. CASE GiveUp(FALSE)
  BY <1>1, <1>5, GiveUpKeeps, Zenon
<1> QED
  BY <1>3, <1>4, <1>5, Zenon DEF RequestPage
LEMMA HandoffsSent ==
    ASSUME NEW s, NEW next, NEW handoff \in HandoffsOf(s, next)
    PROVE  \/ \E e \in DOMAIN CommitteeOf :
                e # 1 /\ handoff = build_committee_handoff(e) /\ (s \in HonestServers => e = next)
           \/ /\ s \notin HonestServers
              /\ \E c : Bad(c, next - 1) /\ handoff = [next |-> next, transition |-> Made(next - 1), certificate |-> c, committee |-> Corrupt]
<1>1. \A h : EpochsAfter(h) \subseteq {e \in DOMAIN CommitteeOf : e # 1}
  BY Zenon DEF EpochsAfter
<1>2. CASE s \in HonestServers
  BY <1>1, <1>2, Zenon DEF HandoffsOf
<1>3. CASE s \notin HonestServers
  <2>1. ASSUME NEW e \in EpochsAfter(Len(unspent)), handoff = build_committee_handoff(e)
        PROVE  \E f \in DOMAIN CommitteeOf : f # 1 /\ handoff = build_committee_handoff(f) /\ (s \in HonestServers => f = next)
    BY <1>1, <1>3, <2>1, Zenon
  <2>2. ASSUME NEW c \in CertificatesAt(next - 1),
               handoff = [next |-> next, transition |-> Made(next - 1), certificate |-> c, committee |-> Corrupt]
        PROVE  \E d : Bad(d, next - 1) /\ handoff = [next |-> next, transition |-> Made(next - 1), certificate |-> d, committee |-> Corrupt]
    <3>1. Bad(c, next - 1)
      BY Zenon DEF CertificatesAt, Bad
    <3> QED
      BY <2>2, <3>1, Zenon
  <2> QED
    BY <1>3, <2>1, <2>2, Zenon DEF HandoffsOf
<1> QED
  BY <1>2, <1>3

LEMMA HandoffVerifies ==
    ASSUME NEW e \in DOMAIN CommitteeOf, e # 1, NEW t \in DOMAIN CommitteeOf, e = t + EpochLen
    PROVE  verify_committee_handoff(t, CommitteeOf[t], build_committee_handoff(e))
<1>1. e \in Nat /\ e > 1 /\ (e - 1) % EpochLen = 0 /\ CommitteeOf[e] # {} /\ t \in Nat /\ EpochLen \in Nat
  <2>1. \A d \in DOMAIN CommitteeOf : d \in Nat /\ d >= 1 /\ (d - 1) % EpochLen = 0 /\ CommitteeOf[d] # {}
    BY LightAssumption, Zenon
  <2>2. e \in Nat /\ e >= 1 /\ t \in Nat /\ (e - 1) % EpochLen = 0 /\ CommitteeOf[e] # {}
    BY <2>1, Zenon
  <2>3. e > 1
    BY <2>2
  <2> QED
    BY <2>2, <2>3, LightAssumption
<1>2. committee_epoch_start(e) = e /\ committee_epoch_start(e - 1) = t
  <2>1. committee_epoch_start(e) = e /\ committee_epoch_start(e - 1) = e - EpochLen
    BY <1>1, EpochOfLast
  <2> QED
    BY <1>1, <2>1
<1>3. e - 1 \in Nat /\ e - 1 > 0 /\ (e - 1) + 1 = e
  BY <1>1
<1>4. verify_light_finality(t, CommitteeOf[t], Real(e - 1), Signed(Real(e - 1)))
  BY <1>2, <1>3, FinalizedVerifies
<1>5. PICK handoff : handoff = build_committee_handoff(e)
  OBVIOUS
<1>6. /\ handoff.transition = Real(e - 1) /\ handoff.certificate = Signed(Real(e - 1))
      /\ handoff.committee = CommitteeOf[e]
  BY <1>5, Zenon DEF build_committee_handoff
<1>7. Real(e - 1).height = e - 1
  BY Zenon DEF Real
<1> QED
  BY <1>1, <1>2, <1>3, <1>4, <1>5, <1>6, <1>7, Zenon DEF verify_committee_handoff

LEMMA HandoffFails ==
    ASSUME NEW h, NEW c, Bad(c, h), NEW t \in DOMAIN CommitteeOf, NEW next, NEW handoff,
           handoff = [next |-> next, transition |-> Made(h), certificate |-> c, committee |-> Corrupt]
    PROVE  ~ verify_committee_handoff(t, CommitteeOf[t], handoff)
<1>1. handoff.transition = Made(h) /\ handoff.certificate = c
  BY Zenon
<1>2. ~ verify_light_finality(t, CommitteeOf[t], Made(h), c)
  BY MadeUpFails
<1> QED
  BY <1>1, <1>2, Zenon DEF verify_committee_handoff

LEMMA SyncKeeps ==
    ASSUME LightInv, SyncTo
    PROVE  LightInv'
<1>1. UNCHANGED <<unspent, tips, probes, savedTrust>> /\ job # NoJob
  <2>1. NoJob.page = <<>>
    BY Zenon DEF NoJob
  <2> QED
    BY <2>1, Zenon DEF SyncTo
<1>2. PICK t : t = trusted_epoch_start
  OBVIOUS
<1>3. t \in DOMAIN trusted /\ t \in DOMAIN CommitteeOf /\ t \in Nat /\ trusted[t] = CommitteeOf[t]
  <2>1. TrustOK(trusted)
    BY DEF LightInv, TrustInv
  <2>2. t = NewestEpoch(trusted)
    BY <1>2 DEF trusted_epoch_start
  <2>3. t \in DOMAIN trusted /\ t \in DOMAIN CommitteeOf /\ t \in Nat
    BY <2>1, <2>2, NewestKnown
  <2> QED
    BY <2>1, <2>3 DEF TrustOK
<1>4. PICK s : s = Head(job.order)
  OBVIOUS
<1>5. ASSUME NEW handoff \in HandoffsOf(s, t + EpochLen),
             handoff.next = t + EpochLen, verify_committee_handoff(t, trusted[t], handoff),
             trusted' = remember(trusted, handoff.next, handoff.committee), UNCHANGED <<job, shown>>
      PROVE  LightInv'
  <2>1. PICK e \in DOMAIN CommitteeOf : handoff = build_committee_handoff(e)
    <3>1. ASSUME NEW c, Bad(c, (t + EpochLen) - 1),
                 handoff = [next |-> t + EpochLen, transition |-> Made((t + EpochLen) - 1), certificate |-> c, committee |-> Corrupt]
          PROVE  FALSE
      <4>1. ~ verify_committee_handoff(t, CommitteeOf[t], handoff)
        BY <3>1, <1>3, HandoffFails
      <4> QED
        BY <4>1, <1>3, <1>5, Zenon
    <3> QED
      BY <3>1, <1>5, HandoffsSent, Zenon
  <2>2. handoff.next = e /\ handoff.committee = CommitteeOf[e]
    BY <2>1, Zenon DEF build_committee_handoff
  <2>3. TrustOK(trusted')
    <3>1. TrustOK(trusted)
      BY DEF LightInv, TrustInv
    <3>2. TrustOK(remember(trusted, e, CommitteeOf[e]))
      BY <3>1, Remembered
    <3> QED
      BY <3>2, <2>2, <1>5, Zenon
  <2>4. TrustInv'
    BY <1>1, <2>3, Zenon DEF LightInv, TrustInv
  <2>5. ServersInv'
    BY <1>1, Zenon DEF LightInv, ServersInv
  <2> QED
    BY <1>1, <1>5, <2>4, <2>5, OthersKeep DEF LightInv
<1>6. ASSUME NEW handoff \in HandoffsOf(s, t + EpochLen),
             ~(handoff.next = t + EpochLen /\ verify_committee_handoff(t, trusted[t], handoff)),
             GiveUp(TRUE), trusted' = trusted
      PROVE  LightInv'
  <2>1. s \notin HonestServers
    <3> SUFFICES ASSUME s \in HonestServers PROVE FALSE
      OBVIOUS
    <3>1. PICK e \in DOMAIN CommitteeOf : e # 1 /\ handoff = build_committee_handoff(e) /\ e = t + EpochLen
      BY HandoffsSent, Zenon
    <3>2. handoff.next = e
      BY <3>1, Zenon DEF build_committee_handoff
    <3>3. verify_committee_handoff(t, CommitteeOf[t], build_committee_handoff(e))
      BY <3>1, <1>3, HandoffVerifies
    <3> QED
      BY <3>1, <3>2, <3>3, <1>3, <1>6, Zenon
  <2> QED
    BY <1>1, <1>4, <1>6, <2>1, GiveUpKeeps, Zenon
<1>7. CASE GiveUp(FALSE) /\ trusted' = trusted
  BY <1>1, <1>7, GiveUpKeeps, Zenon
<1> QED
  BY <1>2, <1>4, <1>5, <1>6, <1>7, Zenon DEF SyncTo

\* A page that an honest server sent, or that verifies, shows the coins of a finalized height.
LEMMA PageVerifies ==
    ASSUME LightInv, job # NoJob, job.page # <<>>
    PROVE  \/ \E h \in 1..Len(unspent) : Page = PageAt(h)
           \/ /\ Head(job.order) \notin HonestServers
              /\ \A e \in DOMAIN CommitteeOf : ~verify_light_finality(e, CommitteeOf[e], Page.transition, Page.certificate)
<1>1. Running
  BY RunningJob
<1>2. PICK page : job.page = <<page>> /\ PageOK(page, Head(job.order))
  BY <1>1, Zenon DEF Running
<1>3. Page = page
  BY <1>2 DEF Page
<1>4. CASE \E h \in 1..Len(unspent) : page = PageAt(h)
  BY <1>3, <1>4, Zenon
<1>5. ASSUME Head(job.order) \notin HonestServers, NEW c, Bad(c, LastFinalized),
             page = [transition |-> Made(LastFinalized), certificate |-> c, coins |-> WalletCoins]
      PROVE  \A e \in DOMAIN CommitteeOf : ~verify_light_finality(e, CommitteeOf[e], Page.transition, Page.certificate)
  <2>1. page.transition = Made(LastFinalized) /\ page.certificate = c
    BY <1>5, Zenon
  <2> QED
    BY <1>3, <1>5, <2>1, MadeUpFails, Zenon
<1> QED
  BY <1>2, <1>4, <1>5, Zenon DEF PageOK

LEMMA CheckKeeps ==
    ASSUME LightInv, CheckPage
    PROVE  LightInv'
<1>1. UNCHANGED <<unspent, tips, probes, trusted, savedTrust>> /\ job # NoJob /\ job.page # <<>>
  <2>1. NoJob.page = <<>>
    BY Zenon DEF NoJob
  <2> QED
    BY <2>1, Zenon DEF CheckPage
<1>2. Running /\ DOMAIN job = JobShape
  BY <1>1, RunningJob
<1>3. unspent \in Seq(SUBSET WalletCoins) /\ Len(unspent) \in Nat
  BY DEF LightInv, ServersInv
<1> DEFINE from == Len(job.statuses)
           till == IF from + PageSize < Len(job.expected) THEN from + PageSize ELSE Len(job.expected)
           seen == [i \in 1..(till - from) |-> StatusOf(job.expected[from + i], Page.coins)]
<1>4. CASE GiveUp(FALSE)
  BY <1>1, <1>4, GiveUpKeeps, Zenon
<1>5. CASE Head(job.order) \in LyingServers /\ GiveUp(TRUE)
  <2>1. Head(job.order) \notin HonestServers
    BY <1>5, LightAssumption
  <2> QED
    BY <1>1, <1>5, <2>1, GiveUpKeeps, Zenon
<1>6. ASSUME PageEpoch \in DOMAIN trusted
      PROVE  PageEpoch \in DOMAIN CommitteeOf /\ trusted[PageEpoch] = CommitteeOf[PageEpoch]
  BY <1>6, Zenon DEF LightInv, TrustInv, TrustOK
<1>7. CASE PageEpoch \in DOMAIN trusted
           /\ ~verify_light_finality(PageEpoch, trusted[PageEpoch], Page.transition, Page.certificate) /\ GiveUp(TRUE)
  <2>1. Head(job.order) \notin HonestServers
    <3> SUFFICES ASSUME NEW h \in 1..Len(unspent), Page = PageAt(h) PROVE FALSE
      BY <1>1, PageVerifies, Zenon
    <3>1. Page.transition = Real(h) /\ Page.certificate = Signed(Real(h)) /\ Real(h).height = h
      BY Zenon DEF PageAt, Real
    <3>2. PageEpoch = committee_epoch_start(h)
      BY <3>1, Zenon DEF PageEpoch
    <3>3. PICK e : e = PageEpoch
      OBVIOUS
    <3>4. h \in Nat /\ h > 0
      BY <1>3
    <3>5. e \in DOMAIN CommitteeOf /\ committee_epoch_start(h) = e /\ trusted[e] = CommitteeOf[e]
      BY <1>6, <1>7, <3>2, <3>3, Zenon
    <3>6. verify_light_finality(e, CommitteeOf[e], Real(h), Signed(Real(h)))
      BY <3>4, <3>5, FinalizedVerifies
    <3> QED
      BY <1>7, <3>1, <3>3, <3>5, <3>6, Zenon
  <2> QED
    BY <1>1, <1>7, <2>1, GiveUpKeeps, Zenon
<1>8. ASSUME PageEpoch \in DOMAIN trusted,
             verify_light_finality(PageEpoch, trusted[PageEpoch], Page.transition, Page.certificate),
             job' = [job EXCEPT !.statuses = job.statuses \o seen, !.page = <<>>,
                                !.heights = job.heights \cup {Page.transition.height}],
             shown' = shown
      PROVE  LightInv'
  <2>1. PICK h \in 1..Len(unspent) : Page = PageAt(h)
    BY <1>1, <1>6, <1>8, PageVerifies, Zenon
  <2>2. Page.transition.height = h /\ Page.coins = unspent[h]
    BY <2>1, Zenon DEF PageAt, Real
  <2>3. TrustInv' /\ ServersInv'
    BY <1>1, Zenon DEF LightInv, TrustInv, ServersInv
  <2>4. Claimed' = Claimed /\ Distinct' = Distinct
    BY <1>1, Zenon DEF Claimed, Distinct
  <2>5. ShownInv'
    BY <1>1, <1>8, <2>4, Zenon DEF LightInv, ShownInv
  <2>6. /\ DOMAIN job' = JobShape /\ job'.order = job.order /\ job'.expected = job.expected
        /\ job'.statuses = job.statuses \o seen /\ job'.heights = job.heights \cup {h}
        /\ job'.page = <<>> /\ job'.faults = job.faults
    <3> HIDE DEF seen
    <3> QED
      BY <1>2, <1>8, <2>2 DEF JobShape
  <2>7. /\ job.expected \in Seq(Claims) /\ job.statuses \in Seq({"spent", "unspent", "different"})
        /\ from \in Nat /\ Len(job.expected) \in Nat /\ from <= Len(job.expected)
    BY <1>2 DEF Running
  <2>8. till \in Nat /\ from <= till /\ till <= Len(job.expected) /\ till - from \in Nat
    BY <2>7, LightAssumption
  <2> HIDE DEF till
  <2>9. \A x, coins : StatusOf(x, coins) \in {"spent", "unspent", "different"}
    BY Zenon DEF StatusOf
  <2>10. /\ seen \in Seq({"spent", "unspent", "different"}) /\ Len(seen) = till - from
         /\ \A i \in 1..(till - from) : seen[i] = StatusOf(job.expected[from + i], unspent[h])
    BY <2>2, <2>8, <2>9
  <2> HIDE DEF seen, from
  <2>11. PICK all : all = job.statuses \o seen
    OBVIOUS
  <2>12. /\ all \in Seq({"spent", "unspent", "different"}) /\ Len(all) = till /\ from = Len(job.statuses)
         /\ \A i \in 1..from : all[i] = job.statuses[i]
         /\ \A i \in 1..till : i > from => all[i] = seen[i - from]
    BY <2>7, <2>8, <2>10, <2>11 DEF from
  <2>13. \A i \in DOMAIN all : \E g \in job.heights \cup {h} : all[i] = StatusOf(job.expected[i], unspent[g])
    <3> SUFFICES ASSUME NEW i \in 1..till
                 PROVE  \E g \in job.heights \cup {h} : all[i] = StatusOf(job.expected[i], unspent[g])
      BY <2>8, <2>12
    <3>1. CASE i <= from
      <4>1. i \in DOMAIN job.statuses /\ all[i] = job.statuses[i]
        BY <3>1, <2>7, <2>8, <2>12
      <4> QED
        BY <4>1, <1>2, Zenon DEF Running
    <3>2. CASE i > from
      <4>1. i - from \in 1..(till - from) /\ from + (i - from) = i /\ all[i] = seen[i - from]
        BY <3>2, <2>7, <2>8, <2>12
      <4>2. all[i] = StatusOf(job.expected[i], unspent[h])
        BY <4>1, <2>10, Zenon
      <4> QED
        BY <4>2, Zenon
    <3> QED
      BY <3>1, <3>2, <2>7, <2>8
  <2>14. job.heights \cup {h} \subseteq 1..Len(unspent)
    BY <1>2, <2>1, Zenon DEF Running
  <2>15. Len(all) <= Len(job.expected)
    BY <2>8, <2>12
  <2>16. job'.statuses = all
    BY <2>6, <2>11
  <2>17. /\ job'.statuses \in Seq({"spent", "unspent", "different"}) /\ Len(job'.statuses) <= Len(job'.expected)
         /\ job'.expected \in Seq(Claims)
    BY <2>6, <2>7, <2>12, <2>15, <2>16, Zenon
  <2>18. (\A i \in DOMAIN job.statuses : \E g \in job.heights : job.statuses[i] = StatusOf(job.expected[i], unspent[g]))'
    BY <1>1, <2>6, <2>13, <2>16, Zenon
  <2>19. (job.heights \subseteq 1..Len(unspent))'
    BY <1>1, <2>6, <2>14, Zenon
  <2>20. /\ ~shown'.done /\ (\A i \in DOMAIN job.expected : job.expected[i] \in Distinct)'
         /\ (\A x \in Distinct : \E i \in DOMAIN job.expected : job.expected[i] = x)'
         /\ job'.faults \cap HonestServers = {}
    BY <1>2, <1>8, <2>4, <2>6, Zenon DEF Running
  <2>21. Running'
    BY <2>6, <2>17, <2>18, <2>19, <2>20, Zenon DEF Running, JobShape
  <2> QED
    BY <2>3, <2>5, <2>21 DEF LightInv, JobInv
<1> HIDE DEF from, till, seen
<1> QED
  BY <1>4, <1>5, <1>7, <1>8, Zenon DEF CheckPage, from, till, seen
\* The status of a claim of the list is the one at a height of the proof.
LEMMA StatusProven ==
    ASSUME LightInv, Running, Len(job.statuses) = Len(job.expected), NEW i \in DOMAIN job.expected
    PROVE  /\ i \in DOMAIN job.statuses /\ job.expected[i] \in Claims /\ job.expected[i] \in Distinct
           /\ \E h \in job.heights : job.statuses[i] = StatusOf(job.expected[i], unspent[h])
<1>1. i \in DOMAIN job.statuses /\ job.expected[i] \in Claims
  BY DEF Running
<1> QED
  BY <1>1, Zenon DEF Running

Having(status) == {job.expected[i] : i \in {j \in DOMAIN job.statuses : job.statuses[j] = status}}

Balance(height, coins) ==
    [done |-> TRUE, verified |-> TRUE, height |-> height, heights |-> job.heights, coins |-> coins,
     blamed |-> Blamed(height, job.statuses), faults |-> job.faults]

LEMMA ShowKeeps ==
    ASSUME LightInv, ShowBalance
    PROVE  LightInv'
<1>1. UNCHANGED <<unspent, tips, probes, trusted>> /\ savedTrust' = trusted /\ job' = NoJob /\ job # NoJob
      /\ Len(job.statuses) = Len(job.expected)
  <2>1. NoJob.order = <<>>
    BY Zenon DEF NoJob
  <2> QED
    BY <2>1, Zenon DEF ShowBalance
<1>2. Running
  BY <1>1, RunningJob
<1>3. DOMAIN job.statuses = DOMAIN job.expected
  BY <1>1, <1>2 DEF Running
<1>4. PICK height : height = IF job.heights = {} THEN 0 ELSE CHOOSE h \in job.heights : \A g \in job.heights : g <= h
  OBVIOUS
<1>5. PICK coins : coins = {job.expected[i] : i \in {j \in DOMAIN job.statuses : Counts(job.statuses[j])}}
  OBVIOUS
<1>6. shown' = [done |-> TRUE, verified |-> TRUE, height |-> height, heights |-> job.heights, coins |-> coins,
                blamed |-> Blamed(height, job.statuses), faults |-> job.faults]
  <2>1. shown' = Balance(IF job.heights = {} THEN 0 ELSE CHOOSE h \in job.heights : \A g \in job.heights : g <= h,
                         {job.expected[i] : i \in {j \in DOMAIN job.statuses : Counts(job.statuses[j])}})
    BY Zenon DEF ShowBalance, Balance
  <2>2. shown' = Balance(height, coins)
    BY <1>4, <1>5, <2>1
  <2> QED
    BY <2>2, Zenon DEF Balance
<1>7. shown'.done /\ shown'.heights = job.heights /\ shown'.coins = coins /\ shown'.faults = job.faults
      /\ shown'.blamed = Blamed(height, job.statuses)
  BY <1>6, Zenon
<1>8. coins = Having("unspent")
  BY <1>5, Zenon DEF Counts, Having
<1>9. ASSUME NEW status, NEW c \in Having(status)
      PROVE  \E i \in DOMAIN job.expected : c = job.expected[i] /\ job.statuses[i] = status
  BY <1>3, Zenon DEF Having
<1>10. ASSUME NEW c \in coins PROVE c.right /\ \E h \in job.heights : c.coin \in unspent[h] /\ c \in Listing(unspent[h])
  <2>1. PICK i \in DOMAIN job.expected : c = job.expected[i] /\ job.statuses[i] = "unspent"
    BY <1>8, <1>9, Zenon
  <2>2. c \in Claims /\ \E h \in job.heights : StatusOf(c, unspent[h]) = "unspent"
    BY <2>1, <1>1, <1>2, StatusProven, Zenon
  <2> QED
    BY <2>2, ProvenClaim, Zenon
<1>11. unspent \in Seq(SUBSET WalletCoins) /\ Len(unspent) \in Nat /\ job.heights \subseteq 1..Len(unspent)
  BY <1>2 DEF LightInv, ServersInv, Running
<1>12. ASSUME NEW s \in HonestServers \cap Claimed
       PROVE  /\ s \in Servers /\ probes[s].seen \in 1..Len(unspent) /\ probes[s].listed = Listing(unspent[probes[s].seen])
              /\ probes[s].listed \subseteq Distinct
  <2>1. s \in Servers /\ probes[s].listed \subseteq Distinct
    BY <1>12, Zenon DEF Claimed, Distinct
  <2>2. probes[s].seen # -1
    <3>1. probes[s].seen >= 0
      BY <1>12, Zenon DEF Claimed
    <3>2. probes[s].seen \in Int
      BY <2>1 DEF LightInv, ServersInv
    <3> QED
      BY <3>1, <3>2
  <2> QED
    BY <1>12, <2>1, <2>2 DEF LightInv, ServersInv
<1>13. ASSUME NEW s \in HonestServers \cap Claimed, job.heights = {probes[s].seen}
       PROVE  coins = Listing(unspent[probes[s].seen])
  <2>1. ASSUME NEW c \in coins PROVE c \in Listing(unspent[probes[s].seen])
    BY <2>1, <1>10, <1>13, Zenon
  <2>2. ASSUME NEW c \in Listing(unspent[probes[s].seen]) PROVE c \in coins
    <3>1. c \in Distinct
      BY <1>12, <2>2, Zenon
    <3>2. PICK i \in DOMAIN job.expected : c = job.expected[i]
      BY <3>1, <1>2, Zenon DEF Running
    <3>3. i \in DOMAIN job.statuses /\ job.statuses[i] = StatusOf(c, unspent[probes[s].seen])
      BY <3>2, <1>1, <1>2, <1>13, StatusProven, Zenon
    <3>4. job.statuses[i] = "unspent"
      BY <3>3, <2>2, ListedClaim, Zenon
    <3> QED
      BY <1>8, <3>2, <3>3, <3>4, Zenon DEF Having
  <2> QED
    BY <2>1, <2>2, Zenon
<1>14. ASSUME NEW s \in Blamed(height, job.statuses) \cap HonestServers
       PROVE  probes[s].seen # probes[s].tip \/ Cardinality(job.heights) > 1
  <2> SUFFICES ASSUME probes[s].seen = probes[s].tip, ~(Cardinality(job.heights) > 1)
               PROVE  FALSE
    OBVIOUS
  <2>1. s \in HonestServers \cap Claimed
    BY Zenon DEF Blamed
  <2>2. \/ probes[s].listed \cap Having("different") # {}
        \/ probes[s].tip = height /\ probes[s].listed \cap Having("spent") # {}
        \/ probes[s].tip = height /\ ~({c.coin : c \in Having("unspent")} \subseteq {c.coin : c \in probes[s].listed})
    BY Zenon DEF Blamed, Having, AtHeight
  <2>3. PICK n : n = probes[s].seen
    OBVIOUS
  <2>4. n \in 1..Len(unspent) /\ probes[s].listed = Listing(unspent[n]) /\ probes[s].tip = n
    BY <2>1, <2>3, <1>12, Zenon
  <2>5. ASSUME height = n PROVE job.heights = {n}
    <3>1. job.heights # {}
      BY <1>4, <1>11, <2>4, <2>5
    <3>2. \E h \in job.heights : \A g \in job.heights : g <= h
      <4>1. PICK H : H = job.heights
        OBVIOUS
      <4>2. H \in SUBSET Nat /\ H # {} /\ \A x \in H : x <= Len(unspent)
        BY <1>11, <3>1, <4>1
      <4>3. \E h \in H : \A g \in H : g <= h
        BY <4>2, <1>11, GreatestMember
      <4> QED
        BY <4>1, <4>3, Zenon
    <3>3. height \in job.heights
      BY <3>1, <3>2, <1>4, Zenon
    <3>4. IsFiniteSet(job.heights)
      <4>1. IsFiniteSet(1..Len(unspent))
        BY <1>11, FS_Interval
      <4> QED
        BY <4>1, <1>11, FS_Subset, Zenon
    <3>5. ASSUME NEW g \in job.heights, g # n PROVE FALSE
      <4>1. IsFiniteSet({n, g}) /\ Cardinality({n, g}) = 2
        <5>1. IsFiniteSet({n}) /\ Cardinality({n}) = 1
          BY FS_Singleton
        <5>2. g \notin {n}
          BY <3>5
        <5>3. IsFiniteSet({n} \cup {g}) /\ Cardinality({n} \cup {g}) = Cardinality({n}) + 1
          BY <5>1, <5>2, FS_AddElement
        <5>4. {n} \cup {g} = {n, g}
          OBVIOUS
        <5> QED
          BY <5>1, <5>3, <5>4
      <4>2. {n, g} \subseteq job.heights
        BY <3>3, <3>5, <2>5
      <4>3. Cardinality({n, g}) <= Cardinality(job.heights) /\ Cardinality(job.heights) \in Nat
        BY <3>4, <4>2, FS_Subset, FS_CardinalityType
      <4> QED
        BY <4>1, <4>3
    <3> QED
      BY <3>3, <3>5, <2>5
  <2>6. ASSUME NEW x \in Having("different"), x \in Listing(unspent[n]) PROVE FALSE
    <3>1. PICK i \in DOMAIN job.expected : x = job.expected[i] /\ job.statuses[i] = "different"
      BY <1>9, <2>6, Zenon
    <3>2. \E h : StatusOf(x, unspent[h]) = "different"
      BY <3>1, <1>1, <1>2, StatusProven, Zenon
    <3> QED
      BY <3>2, <2>6, ListedClaim, Zenon
  <2>7. ASSUME height = n, NEW x \in Having("spent"), x \in Listing(unspent[n]) PROVE FALSE
    <3>1. PICK i \in DOMAIN job.expected : x = job.expected[i] /\ job.statuses[i] = "spent"
      BY <1>9, <2>7, Zenon
    <3>2. StatusOf(x, unspent[n]) = "spent"
      BY <3>1, <1>1, <1>2, <2>5, <2>7, StatusProven, Zenon
    <3>3. StatusOf(x, unspent[n]) = "unspent"
      BY <2>7, ListedClaim, Zenon
    <3> QED
      BY <3>2, <3>3
  <2>8. ASSUME height = n, NEW x \in Having("unspent") PROVE x.coin \in {c.coin : c \in Listing(unspent[n])}
    <3>1. x \in Listing(unspent[n])
      BY <1>8, <1>10, <2>5, <2>8, Zenon
    <3> QED
      BY <3>1, Zenon
  <2> QED
    BY <2>2, <2>4, <2>6, <2>7, <2>8, Zenon
<1>15. TrustInv'
  BY <1>1, Zenon DEF LightInv, TrustInv
<1>16. ServersInv'
  BY <1>1, Zenon DEF LightInv, ServersInv
<1>17. Claimed' = Claimed
  BY <1>1, Zenon DEF Claimed
<1>18. ShownInv'
  <2>1. shown'.faults \cap HonestServers = {}
    BY <1>2, <1>7, Zenon DEF Running
  <2>2. (shown.heights \subseteq 1..Len(unspent))'
    BY <1>1, <1>7, <1>11, Zenon
  <2>3. (\A c \in shown.coins : c.right /\ \E h \in shown.heights : c.coin \in unspent[h])'
    BY <1>1, <1>7, <1>10, Zenon
  <2>4. (\A s \in HonestServers \cap Claimed :
            shown.heights = {probes[s].seen} => shown.coins = Listing(unspent[probes[s].seen]))'
    BY <1>1, <1>7, <1>13, <1>17, Zenon DEF Listing
  <2>5. (\A s \in shown.blamed \cap HonestServers :
            shown.done /\ (probes[s].seen # probes[s].tip \/ Cardinality(shown.heights) > 1))'
    BY <1>1, <1>7, <1>14, Zenon
  <2> QED
    BY <1>7, <2>1, <2>2, <2>3, <2>4, <2>5, Zenon DEF ShownInv
<1> QED
  BY <1>1, <1>15, <1>16, <1>18 DEF LightInv, JobInv

LEMMA ResetKeeps ==
    ASSUME LightInv, Refresh \/ RestartWallet
    PROVE  LightInv'
<1>1. UNCHANGED <<unspent, tips, savedTrust>> /\ probes' = [s \in Servers |-> NoProbe] /\ shown' = NothingShown
  BY Zenon DEF Refresh, RestartWallet
<1>2. ShownInv'
  BY <1>1, StaysReset, Zenon
<1>3. TrustInv'
  <2>1. CASE Refresh
    BY <1>1, <2>1, Zenon DEF LightInv, TrustInv, Refresh
  <2>2. CASE RestartWallet
    <3>1. trusted' = from_genesis \/ (trusted' = savedTrust /\ savedTrust # <<>>)
      BY <2>2, Zenon DEF RestartWallet
    <3> QED
      BY <1>1, <3>1, GenesisTrust, Zenon DEF LightInv, TrustInv
  <2> QED
    BY <2>1, <2>2
<1>4. ServersInv'
  <2>1. NoProbe \in [tip : Nat, seen : Int, listed : SUBSET Claims] /\ NoProbe.tip = 0 /\ NoProbe.seen = -1
    BY DEF NoProbe
  <2>2. \A s \in HonestServers : s \in Servers /\ probes'[s] = NoProbe
    BY <1>1 DEF Servers
  <2>3. probes' \in [Servers -> [tip : Nat, seen : Int, listed : SUBSET Claims]]
    BY <1>1, <2>1
  <2> QED
    BY <1>1, <2>1, <2>2, <2>3 DEF LightInv, ServersInv
<1>5. JobInv'
  <2>1. CASE RestartWallet
    BY <2>1, Zenon DEF JobInv, RestartWallet
  <2>2. CASE Refresh
    <3>1. job' = job /\ shown.done
      BY <2>2, Zenon DEF Refresh
    <3> QED
      BY <3>1, Zenon DEF LightInv, JobInv, Running
  <2> QED
    BY <2>1, <2>2
<1> QED
  BY <1>2, <1>3, <1>4, <1>5 DEF LightInv

LEMMA LightStart == LwInit => LightInv
<1> SUFFICES ASSUME LwInit PROVE LightInv
  OBVIOUS
<1>1. ServersInv
  <2>1. NoProbe \in [tip : Nat, seen : Int, listed : SUBSET Claims] /\ NoProbe.tip = 0 /\ NoProbe.seen = -1
    BY DEF NoProbe
  <2>2. unspent = <<>> /\ tips = [s \in HonestServers |-> 0] /\ probes = [s \in Servers |-> NoProbe]
    BY Zenon DEF LwInit
  <2>3. \A s \in HonestServers : s \in Servers /\ probes[s] = NoProbe /\ tips[s] = 0
    BY <2>2 DEF Servers
  <2>4. unspent \in Seq(SUBSET WalletCoins) /\ Len(unspent) = 0
    BY <2>2
  <2>5. probes \in [Servers -> [tip : Nat, seen : Int, listed : SUBSET Claims]] /\ tips \in [HonestServers -> Nat]
    BY <2>1, <2>2
  <2> QED
    BY <2>1, <2>3, <2>4, <2>5 DEF ServersInv
<1>2. TrustInv /\ JobInv
  BY GenesisTrust, Zenon DEF LwInit, TrustInv, JobInv
<1>3. ShownInv
  <2>1. ~shown.verified /\ shown.blamed = {} /\ shown.faults \cap HonestServers = {}
    BY NothingIsShown, Zenon DEF LwInit
  <2> QED
    BY <2>1, Zenon DEF ShownInv
<1> QED
  BY <1>1, <1>2, <1>3 DEF LightInv

LEMMA LightStep == LightInv /\ [LwNext]_lwVars => LightInv'
<1> SUFFICES ASSUME LightInv, [LwNext]_lwVars PROVE LightInv'
  OBVIOUS
<1>1. CASE UNCHANGED lwVars
  <2>1. UNCHANGED <<unspent, tips, probes, trusted, savedTrust, job, shown>>
    BY <1>1 DEF lwVars
  <2>2. TrustInv' /\ ServersInv'
    BY <2>1, Zenon DEF LightInv, TrustInv, ServersInv
  <2> QED
    BY <2>1, <2>2, OthersKeep DEF LightInv
<1> QED
  BY <1>1, FinalizeKeepsLight, FollowKeeps, ProbeKeeps, StartKeeps, RequestKeeps, SyncKeeps, CheckKeeps, ShowKeeps,
     ResetKeeps, Zenon DEF LwNext

\* Whatever the lying servers send, for every chain of committees of which none has a corrupt
\* quorum, the wallet trusts the committees of the chain only and shows as verified only what
\* was unspent at finalized heights; no server hides a coin (light_client.cpp,
\* verified_balance.cpp).
THEOREM VerifiedCoinsAreReal == LwSpec => []VerifiedIsReal
<1>1. LightInv => VerifiedIsReal
  <2> SUFFICES ASSUME LightInv PROVE VerifiedIsReal
    OBVIOUS
  <2>1. \A e \in DOMAIN trusted : trusted[e] = CommitteeOf[e]
    BY Zenon DEF LightInv, TrustInv, TrustOK
  <2>2. \A e \in DOMAIN savedTrust : savedTrust[e] = CommitteeOf[e]
    <3>1. DOMAIN <<>> = {}
      OBVIOUS
    <3> QED
      BY <3>1, Zenon DEF LightInv, TrustInv, TrustOK
  <2> QED
    BY <2>1, <2>2, Zenon DEF LightInv, ShownInv, VerifiedIsReal
<1> QED
  BY <1>1, LightStart, LightStep, PTL DEF LwSpec

\* An honest server is never given up for a fault, and is blamed for its list only when the
\* chain moved on between its answers or between two pages (verify_claimed_balance).
THEOREM HonestServersKept == LwSpec => []HonestNotBlamed
<1>1. LightInv => HonestNotBlamed
  <2> SUFFICES ASSUME LightInv PROVE HonestNotBlamed
    OBVIOUS
  <2>1. job.faults \cap HonestServers = {}
    <3>1. NoJob.faults = {}
      BY Zenon DEF NoJob
    <3> QED
      BY <3>1, Zenon DEF LightInv, JobInv, Running
  <2> QED
    BY <2>1, Zenon DEF LightInv, ShownInv, HonestNotBlamed
<1> QED
  BY <1>1, LightStart, LightStep, PTL DEF LwSpec
===============================================================================
