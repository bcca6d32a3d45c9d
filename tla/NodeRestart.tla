------------------------------ MODULE NodeRestart ------------------------------
(***************************************************************************)
(* What a node has on disk and how it starts from it (node_state.cpp):     *)
(* the genesis rows, the finalized history, the cached rows of its state,  *)
(* the consensus safety rows in two sealed copies with a high-water mark.  *)
(* A start writes row by row and may crash between any two of them; voting *)
(* and finalizing write one durable batch each.  Lane records may be lost, *)
(* which a start repairs by rolling the tail of the history back.          *)
(*                                                                         *)
(* The chain itself never forks: a block and its id are its height, the id *)
(* of the genesis is 0 and Absent is the zero hash.  Writes that are not   *)
(* synchronous reach the disk in order, so losing the last of them is a    *)
(* crash at an earlier step.                                               *)
(***************************************************************************)
EXTENDS Integers, Sequences, FiniteSets

CONSTANTS
    LastHeight,       \* bound: heights
    BlocksOfEpoch,    \* committee_epoch_blocks
    Joins,            \* heights whose block registers a validator
    Seats,            \* heights at which this node is in the committee
    Payloads,         \* what it may vote for, numbers from 1 on
    BaseCap, CapPercent, AbsoluteCap,   \* startup_frontier_repair_*
    SafetySpan,       \* kMaxMissingSafetySpan
    Discards,         \* bound: --unsafe-discard-vote-lock-at-height, 0: not given
    MaxFaults         \* bound: crashes, failed writes and lost rows

\* A start can look back over every height a repair rolls back, and over the next.
ASSUME SpanAssumption == SafetySpan > BlocksOfEpoch

\* The row of a vote is none of the marks below: what is voted for is a number from 1 on.
ASSUME RestartAssumption ==
    /\ LastHeight \in Nat /\ BlocksOfEpoch \in Nat \ {0} /\ SafetySpan \in Nat
    /\ Payloads \subseteq Nat \ {0}
    /\ BaseCap \in Nat /\ CapPercent \in Nat /\ AbsoluteCap \in Nat

Absent == -1
NoRow == 0
Unreadable == -1
Polka == -2           \* a row that records an observed polka and no vote
RowHeights == 1..LastHeight
NoTip == [height |-> Absent, id |-> Absent]

VARIABLES
    disk,             \* the rows of the database
    pending,          \* writes the start has yet to make, one by one
    stage,            \* where the node is
    boot,             \* the options of the start, and whether it has repaired
    mem,              \* the node's finalized height, state, votes and abstentions
    signedVotes,      \* every vote that left the node: <<height, payload>>
    overridden,       \* heights at which the operator discarded the vote lock
    reported,         \* the finalized height the node has told others
    lost,             \* heights whose lane records the disk lost
    torn,             \* a crash interrupted the creation of the genesis or a repair
    faults

rsVars == <<disk, pending, stage, boot, mem, signedVotes, overridden, reported, lost, torn, faults>>

NoMemory == [height |-> 0, id |-> Absent, state |-> [at |-> 0, extra |-> {}],
             votes |-> [h \in RowHeights |-> NoRow], abstain |-> {}]

-------------------------------------------------------------------------------
RsEpochStart(h) == h - ((h - 1) % BlocksOfEpoch)
Largest(S) == CHOOSE x \in S : \A y \in S : y <= x
Smallest(S) == CHOOSE x \in S : \A y \in S : x <= y
Row(name, value) == [name |-> name, value |-> value]

\* The state of a height.  Every block changes rows of validators (their participation), so
\* the cached rows are those of one height, and validators the state of it does not have.
StateAt(h) == [at |-> h, extra |-> {}]
Registered(h) == Joins \cap (0..h)

\* Outputs, checkpoints and timed escrows are replaced; validator rows are only put.
persist_canonical_cache_rows(cache, h) ==
    [at |-> h, extra |-> (cache.extra \cup Registered(cache.at)) \ Registered(h)]

\* Erased first, so that the commitment of another state at this height is no conflict.
SaveState(h) ==
    <<Row("commitment", Absent), Row("commitment", h), Row("cache", persist_canonical_cache_rows(disk.cache, h))>>

\* init_mainnet_genesis on an empty database.
GenesisRows ==
    <<Row("marker", TRUE), Row("json", TRUE), Row("tip", [height |-> 0, id |-> 0]),
      Row("cache", persist_canonical_cache_rows(disk.cache, 0)), Row("commitment", 0)>>

\* Slip: only the height of the cached rows is compared.
trusted_checkpoint_slip(h) ==
    /\ h > 0
    /\ 1..h \subseteq disk.mapped \cap disk.transitions
    /\ h \in disk.certs
    /\ disk.cache.at = h

\* The tip's transition, its predecessors and its certificate are there, and the cached rows
\* have the state commitment it signs.  Lane records are not read.
trusted_checkpoint(h) ==
    /\ h > 0
    /\ 1..h \subseteq disk.mapped \cap disk.transitions
    /\ h \in disk.certs
    /\ disk.cache = StateAt(h)

\* derive_canonical_state_from_frontier_storage stops at the first height it cannot load.
Unloadable(f) == {h \in 1..f : h \notin disk.mapped \cap disk.transitions \cap disk.certs \cap disk.lanes}
LacksLaneRecord(h) == h \in (disk.mapped \cap disk.transitions \cap disk.certs) \ disk.lanes

repair_cap(tip) ==
    LET percent == (tip * CapPercent + 99) \div 100
    IN  Smallest({Largest({BaseCap, percent}), Largest({BaseCap, AbsoluteCap})})

\* The newest checkpoint row is that of the block after the cached state; snapshots and
\* freeze markers are made from checkpoints.
repair_floor(f) ==
    LET candidate == RsEpochStart(disk.cache.at + 1) - 1
    IN  IF candidate <= f THEN candidate ELSE 0

\* Slip: a tail as long as the cap is refused.
CanRollBack_slip(bad, f) == f - bad + 1 < repair_cap(f) /\ bad - 1 >= repair_floor(f)

CanRollBack(bad, f) == f - bad + 1 <= repair_cap(f) /\ bad - 1 >= repair_floor(f)

\* rollback_frontier_tail_from_transition: the rows of every height from the tip down, then
\* the new tip, which has the zero hash when nothing is left.  The ingress tip is left out.
RollbackRows(bad, f) ==
    LET tables == <<"transitions", "mapped", "certs", "hash">>
        Erased(i) == LET name == tables[(i % 4) + 1] IN Row(name, disk[name] \ ((f - (i \div 4))..f))
    IN  [i \in 1..(4 * (f - bad + 1)) |-> Erased(i - 1)]
        \o <<Row("frontier", Absent), Row("frontier", bad - 1),
             Row("tip", [height |-> bad - 1, id |-> IF bad = 1 THEN Absent ELSE bad - 1])>>

-------------------------------------------------------------------------------
\* The safety row that a start takes for height h: the primary, or its mirror; two readable
\* copies that differ are both distrusted.
Readable(r) == r \notin {NoRow, Unreadable}
SafetyRow(h) ==
    LET p == disk.primary[h]
        m == disk.mirror[h]
    IN  IF Readable(p) /\ Readable(m) /\ p # m THEN Unreadable
        ELSE IF Readable(p) THEN p
        ELSE IF Readable(m) THEN m
        ELSE IF p = NoRow /\ m = NoRow THEN NoRow
        ELSE Unreadable

\* Outside the committee of the next height nothing can have been voted there.
MayHaveVoted(h) == h # mem.height + 1 \/ h \in Seats

\* Slip: a height without a row is taken for one without a vote.
LostHistory_slip == {h \in RowHeights : h > mem.height /\ MayHaveVoted(h) /\ SafetyRow(h) = Unreadable}

\* Heights whose vote history is lost: no copy can be read, or there is none below the mark.
LostHistory ==
    {h \in RowHeights : h > mem.height /\ MayHaveVoted(h) /\
        \/ SafetyRow(h) = Unreadable
        \/ SafetyRow(h) = NoRow /\ h <= disk.highwater /\ h <= mem.height + SafetySpan}

-------------------------------------------------------------------------------
RsInit ==
    /\ disk = [marker |-> FALSE, json |-> FALSE, tip |-> NoTip, frontier |-> Absent, hash |-> {}, mapped |-> {},
               transitions |-> {}, certs |-> {}, lanes |-> {}, cache |-> [at |-> Absent, extra |-> {}],
               commitment |-> Absent, primary |-> [h \in RowHeights |-> NoRow],
               mirror |-> [h \in RowHeights |-> NoRow], quarantine |-> {}, highwater |-> 0]
    /\ pending = <<>> /\ stage = "down" /\ mem = NoMemory
    /\ boot = [fast |-> TRUE, reindex |-> TRUE, discard |-> 0, repaired |-> FALSE]
    /\ signedVotes = {} /\ overridden = {} /\ reported = 0 /\ lost = {} /\ torn = FALSE /\ faults = 0

\* Node::init up to load_state.
Open(fast, reindex, discard) ==
    LET opened == [disk EXCEPT !.commitment = IF reindex THEN Absent ELSE @, !.json = @ \/ disk.marker]
    IN  /\ stage \in {"down", "refused"}
        /\ boot' = [fast |-> fast, reindex |-> reindex, discard |-> discard, repaired |-> FALSE]
        /\ disk' = opened
        /\ mem' = NoMemory
        /\ IF ~disk.marker
           THEN stage' = "genesis" /\ pending' = GenesisRows
           ELSE /\ stage' = IF disk.tip.height = 0 /\ disk.tip.id # 0 THEN "refused" ELSE "load"
                /\ pending' = <<>>
        /\ UNCHANGED <<signedVotes, overridden, reported, lost, torn, faults>>

WriteRow ==
    /\ pending # <<>>
    /\ disk' = [disk EXCEPT ![Head(pending).name] = Head(pending).value]
    /\ pending' = Tail(pending)
    /\ stage' = IF Len(pending) > 1 THEN stage
                ELSE CASE stage = "genesis" -> "load"
                       [] stage = "repair" -> "replay"
                       [] stage = "save" -> "restore"
    /\ UNCHANGED <<boot, mem, signedVotes, overridden, reported, lost, torn, faults>>

\* load_state up to the fast start.
LoadTip ==
    LET tip == IF disk.tip = NoTip THEN [height |-> 0, id |-> Absent] ELSE disk.tip
    IN  /\ stage = "load"
        /\ disk' = [disk EXCEPT !.tip = tip]
        /\ \/ /\ (tip.height > 0 /\ tip.height \notin disk.hash) \/ ~disk.json
              /\ stage' = "refused" /\ UNCHANGED <<pending, mem>>
           \/ /\ tip.height > 0 => tip.height \in disk.hash
              /\ disk.json
              /\ IF boot.fast /\ trusted_checkpoint(tip.height)
                 THEN /\ mem' = [mem EXCEPT !.height = tip.height, !.id = tip.id, !.state = disk.cache]
                      /\ pending' = SaveState(tip.height) /\ stage' = "save"
                 ELSE /\ mem' = [mem EXCEPT !.height = tip.height, !.id = tip.id]
                      /\ stage' = "replay" /\ UNCHANGED pending
        /\ UNCHANGED <<boot, signedVotes, overridden, reported, lost, torn, faults>>

\* A commitment of this tip vouches for the cached rows: without it they are replaced.
CacheRefused(h) == disk.commitment = h /\ disk.cache.at # Absent /\ disk.cache # StateAt(h)

\* load_state from the full replay to the cache rows.
Replay ==
    LET f == IF disk.frontier = Absent THEN 0 ELSE disk.frontier
        bad == Smallest(Unloadable(f))
    IN  /\ stage = "replay"
        /\ \/ /\ Unloadable(f) = {}
              /\ mem.height = f /\ mem.id = f /\ ~CacheRefused(f)
              /\ mem' = [mem EXCEPT !.state = StateAt(f)]
              /\ pending' = SaveState(f) /\ stage' = "save"
              /\ UNCHANGED boot
           \/ /\ Unloadable(f) # {} /\ LacksLaneRecord(bad) /\ ~boot.repaired /\ CanRollBack(bad, f)
              /\ mem' = [mem EXCEPT !.height = bad - 1, !.id = IF bad = 1 THEN Absent ELSE bad - 1]
              /\ pending' = RollbackRows(bad, f) /\ stage' = "repair"
              /\ boot' = [boot EXCEPT !.repaired = TRUE]
           \/ /\ IF Unloadable(f) = {} THEN mem.height # f \/ mem.id # f \/ CacheRefused(f)
                 ELSE ~LacksLaneRecord(bad) \/ boot.repaired \/ ~CanRollBack(bad, f)
              /\ stage' = "refused" /\ UNCHANGED <<pending, mem, boot>>
        /\ UNCHANGED <<disk, signedVotes, overridden, reported, lost, torn, faults>>

\* load_state from the safety rows on.  Each height has a batch of its own, and a start that
\* finds some of them done ends with the same rows.
RestoreSafety ==
    LET h == mem.height
        quarantine == {q \in disk.quarantine : q > h} \cup LostHistory
        Kept(i) == i > h /\ Readable(SafetyRow(i))
        copies == [i \in RowHeights |-> IF Kept(i) THEN SafetyRow(i) ELSE NoRow]
        discarded == boot.discard \in quarantine
    IN  /\ stage = "restore"
        /\ disk' = [disk EXCEPT !.primary = copies, !.mirror = copies,
                                !.quarantine = IF discarded THEN quarantine \ {boot.discard} ELSE quarantine,
                                !.highwater = IF discarded /\ @ = boot.discard THEN @ - 1 ELSE @]
        /\ mem' = [mem EXCEPT !.votes = [i \in RowHeights |-> IF copies[i] = Polka THEN NoRow ELSE copies[i]],
                              !.abstain = disk'.quarantine]
        /\ overridden' = IF discarded THEN overridden \cup {boot.discard} ELSE overridden
        /\ reported' = h
        /\ stage' = "running"
        /\ UNCHANGED <<pending, boot, signedVotes, lost, torn, faults>>

\* A durable batch that fails may be written or not; the node stops until it is restarted.
FailStop(batch) ==
    /\ faults < MaxFaults /\ faults' = faults + 1
    /\ disk' \in {disk, batch}
    /\ stage' = "stopped"
    /\ UNCHANGED <<pending, boot, mem, signedVotes, overridden, reported, lost, torn>>

SafetyBatch(h, row) ==
    [disk EXCEPT !.primary[h] = row, !.mirror[h] = row, !.highwater = Largest({@, h})]

\* A prevote is recorded in a durable batch and signed after it.  One round of a height: what
\* a later round may vote for is in TwoPhaseVoting.
Prevote(v) ==
    LET h == mem.height + 1
    IN  /\ stage = "running" /\ h \in Seats \cap RowHeights
        /\ h \notin mem.abstain
        /\ mem.votes[h] \in {NoRow, v}
        /\ \/ /\ disk' = SafetyBatch(h, v)
              /\ mem' = [mem EXCEPT !.votes[h] = v]
              /\ signedVotes' = signedVotes \cup {<<h, v>>}
              /\ UNCHANGED <<pending, stage, boot, overridden, reported, lost, torn, faults>>
           \/ FailStop(SafetyBatch(h, v))

\* An observed polka is recorded like a vote; the row of a height that has votes keeps them.
ObservePolka ==
    LET h == mem.height + 1
    IN  /\ stage = "running" /\ h \in RowHeights
        /\ disk.primary[h] = NoRow
        /\ \/ /\ disk' = SafetyBatch(h, Polka)
              /\ UNCHANGED <<pending, stage, boot, mem, signedVotes, overridden, reported, lost, torn, faults>>
           \/ FailStop(SafetyBatch(h, Polka))

FinalBatch(h) ==
    [disk EXCEPT !.tip = [height |-> h, id |-> h], !.frontier = h, !.hash = @ \cup {h}, !.mapped = @ \cup {h},
                 !.transitions = @ \cup {h}, !.certs = @ \cup {h}, !.lanes = @ \cup {h},
                 !.cache = persist_canonical_cache_rows(@, h), !.commitment = h,
                 !.primary[h] = NoRow, !.mirror[h] = NoRow, !.quarantine = @ \ {h}]

\* A block is finalized, by votes or by synchronisation: the new state is published after its
\* batch is durable.
FinalizeNext ==
    LET h == mem.height + 1
    IN  /\ stage = "running" /\ h <= LastHeight
        /\ \/ /\ disk' = FinalBatch(h)
              /\ mem' = [mem EXCEPT !.height = h, !.id = h, !.state = [@ EXCEPT !.at = h],
                                    !.votes[h] = NoRow, !.abstain = @ \ {h}]
              /\ reported' = h /\ lost' = lost \ {h}
              /\ UNCHANGED <<pending, stage, boot, signedVotes, overridden, torn, faults>>
           \/ FailStop(FinalBatch(h))

CrashOrStop ==
    /\ stage \notin {"down", "refused"}
    /\ stage # "stopped" => faults < MaxFaults
    /\ faults' = IF stage = "stopped" THEN faults ELSE faults + 1
    /\ torn' = \/ torn
               \/ stage = "genesis" /\ disk.marker /\ disk.tip = NoTip
               \/ stage = "repair" /\ disk.tip.height \notin disk.transitions
    /\ stage' = "down" /\ pending' = <<>> /\ mem' = NoMemory
    /\ UNCHANGED <<disk, boot, signedVotes, overridden, reported, lost>>

\* The disk loses the lane records of a finalized block.
LoseLaneRecord(h) ==
    /\ stage = "down" /\ h \in disk.lanes /\ h <= disk.frontier
    /\ faults < MaxFaults /\ faults' = faults + 1
    /\ disk' = [disk EXCEPT !.lanes = @ \ {h}]
    /\ lost' = lost \cup {h}
    /\ UNCHANGED <<pending, stage, boot, mem, signedVotes, overridden, reported, torn>>

\* Both copies of a safety row are lost or damaged, or one of them, which may also be an
\* older row that was restored over it.
DamageSafetyRow(h) ==
    /\ stage = "down" /\ Readable(disk.primary[h]) /\ disk.primary[h] = disk.mirror[h]
    /\ faults < MaxFaults /\ faults' = faults + 1
    /\ \/ \E r \in {NoRow, Unreadable} : disk' = [disk EXCEPT !.primary[h] = r, !.mirror[h] = r]
       \/ \E r \in {NoRow, Unreadable, Polka} : disk' = [disk EXCEPT !.primary[h] = r]
       \/ \E r \in {NoRow, Unreadable, Polka} : disk' = [disk EXCEPT !.mirror[h] = r]
    /\ UNCHANGED <<pending, stage, boot, mem, signedVotes, overridden, reported, lost, torn>>

RsNext ==
    \/ \E fast, reindex \in BOOLEAN, discard \in Discards : Open(fast, reindex, discard)
    \/ WriteRow \/ LoadTip \/ Replay \/ RestoreSafety
    \/ \E v \in Payloads : Prevote(v)
    \/ ObservePolka \/ FinalizeNext \/ CrashOrStop
    \/ \E h \in RowHeights : LoseLaneRecord(h) \/ DamageSafetyRow(h)

RsSpec == RsInit /\ [][RsNext]_rsVars

-------------------------------------------------------------------------------
\* A node that starts has the state of its tip, whatever mixture of rows crashes and repairs
\* have left (load_state: a fast start accepts cached rows only if the tip signs them), and
\* the tip is the one it reported before, or a later one whose batch reached the disk; only
\* from a block with a lost lane record on may the history be gone.
StartedIsCanonical ==
    [][stage # "running" /\ stage' = "running" =>
          /\ mem'.state = StateAt(mem'.height)
          /\ disk'.tip = [height |-> mem'.height, id |-> mem'.height]
          /\ mem'.height >= reported \/ mem'.height + 1 \in lost]_rsVars

\* A start with the default options succeeds after any crash and any failed write, outside of
\* the creation of the genesis and of a repair, which are not atomic; lost records are repaired
\* within the cap and the running epoch (rollback_frontier_tail_from_transition), except for
\* the first block.
RefusedForCause ==
    stage = "refused" =>
        \/ torn \/ ~boot.reindex
        \/ \E h \in lost : h = 1 \/ h < RsEpochStart(disk.frontier + 1) \/ disk.frontier - h >= repair_cap(disk.frontier)

\* The node never votes for two payloads in one round, also when the height is voted on again
\* after a repair rolled it back, or after the record of the vote was damaged (the mirror, the
\* quarantine and the high-water mark of load_state); an operator may override this.
NeverVotesTwice ==
    \A a, b \in signedVotes : a[1] = b[1] => a[2] = b[2] \/ a[1] \in overridden

===============================================================================
