----------------------------- MODULE TimedRelease -----------------------------
(* Execution of a block (execute_frontier_slice of                             *)
(* consensus/frontier_execution.cpp) with its timed transactions: sealed       *)
(* envelopes wait in escrow with a bond and are settled, opened or expired,    *)
(* before any record of the block.  The short locks of the parent height are   *)
(* opened with the time signature every block carries; long locks by the       *)
(* openings a proposer adds.  Signatures of transactions and the sealing are   *)
(* left out: a body opens to what was sealed, or to nothing.                   *)
EXTENDS Integers, Sequences, FiniteSets, SequencesExt

CONSTANTS
    StartFunds,            \* outputs at the start: coin -> value
    Transfers,        \* transactions: [id, inputs, pay, delta], delta into the confidential pool
    Envelopes,        \* TxTimed: [id, coin, unlock, epoch, prepaid, bond, body]
    EpochBlocksT,     \* committee_epoch_blocks
    KeysRoot,           \* epoch start -> committee_root of its keys, equal for equal keys
    LongFee,          \* kTxTimedLongFeePerEpoch
    GraceBlocks,      \* kTimedLongGraceBlocks
    MinForfeit,       \* min_bond
    MaxTimedPerBlock, MaxPerUnlock, MaxLongSettlements, MaxSliceRecords,
    LastExecuted      \* bound: blocks

\* What an envelope may open to, and what a block may hold: told apart by their ids, which name
\* their outputs, and each spends something (validate_tx, validate_tx_v2).
Bodies == {env.body.tx : env \in {x \in Envelopes : x.body.kind = "transfer"}}
Movements == Transfers \cup Bodies

ASSUME TimedReleaseAssumption ==
    /\ EpochBlocksT \in Nat \ {0} /\ GraceBlocks \in Nat /\ LongFee \in Nat
    /\ MinForfeit \in Nat /\ LastExecuted \in Nat
    /\ MaxTimedPerBlock \in Nat /\ MaxPerUnlock \in Nat /\ MaxLongSettlements \in Nat /\ MaxSliceRecords \in Nat
    /\ StartFunds \in [DOMAIN StartFunds -> Nat] /\ IsFiniteSet(DOMAIN StartFunds)
    /\ \A tx \in Movements : /\ tx.pay \in Nat /\ tx.delta \in Int /\ tx.inputs # {}
                             /\ <<tx.id, 0>> \notin DOMAIN StartFunds
    /\ \A env \in Envelopes : /\ env.unlock \in Nat /\ env.epoch \in Nat /\ env.prepaid \in Nat /\ env.bond \in Nat
                              /\ KeysRoot[env.epoch] \in Nat
                              /\ <<env.id, 0>> \notin DOMAIN StartFunds /\ <<env.id, 1>> \notin DOMAIN StartFunds
    /\ \A a, b \in Movements : a.id = b.id => a = b
    /\ \A a, b \in Envelopes : a.id = b.id => a = b
    /\ \A a \in Movements, b \in Envelopes : a.id # b.id

VARIABLES
    executed,         \* height of the last block
    funds,            \* unspent outputs: coin -> value
    shielded,         \* confidential_pool_value
    feesTaken,        \* fees of all blocks
    escrows,          \* timed_escrows: [env, at, index]
    keySets,          \* roots in timed_key_sets
    settlements       \* how envelopes ended: [id, at, how, height, untouched]

exVars == <<executed, funds, shielded, feesTaken, escrows, keySets, settlements>>

EpochOfHeight(height) == ((height - 1) \div EpochBlocksT) * EpochBlocksT + 1
timed_is_long_lock(env) == EpochOfHeight(env.unlock) # env.epoch

\* Every epoch, started or whole, beyond the one of inclusion.
timed_long_lock_min_fee(height, unlock) ==
    LET end == EpochOfHeight(height) + EpochBlocksT - 1
    IN IF unlock <= end THEN 0 ELSE ((unlock - end + EpochBlocksT - 1) \div EpochBlocksT) * LongFee

\* Escrows of one unlock height are taken in inclusion order, openings by height and keys.
LastEscrow(S) == CHOOSE e \in S : \A f \in S : f.at < e.at \/ (f.at = e.at /\ f.index <= e.index)
LastOpening(S) == CHOOSE o \in S : \A p \in S : p.unlock < o.unlock \/ (p.unlock = o.unlock /\ p.root <= o.root)

ValueOf(coins, outputs) == SumFunction([c \in coins |-> outputs[c]])

-------------------------------------------------------------------------------
(* The block under execution: work, pool, fees, the inputs consumed, the        *)
(* envelopes opened and the settlements made.                                   *)
Put(outputs, coin, value) ==
    IF value = 0 THEN outputs ELSE [c \in DOMAIN outputs \cup {coin} |-> IF c = coin THEN value ELSE outputs[c]]
Without(outputs, coins) == [c \in DOMAIN outputs \ coins |-> outputs[c]]

Applies(st, tx) ==
    /\ tx.inputs \cap st.consumed = {}
    /\ tx.inputs \subseteq DOMAIN st.work
    /\ ValueOf(tx.inputs, st.work) >= tx.pay + tx.delta
    /\ st.pool + tx.delta >= 0                               \* the turnstile

try_apply(st, tx) ==
    IF ~Applies(st, tx) THEN st
    ELSE [st EXCEPT !.work = Put(Without(@, tx.inputs), <<tx.id, 0>>, tx.pay),
                    !.consumed = @ \cup tx.inputs,
                    !.pool = @ + tx.delta,
                    !.fees = @ + ValueOf(tx.inputs, st.work) - tx.pay - tx.delta]

\* One escrow ends: its body runs, or it has expired; else the bond is a fee.
Settle(st, escrow, how) ==
    LET env     == escrow.env
        tx      == env.body.tx
        applied == how = "open" /\ (env.body.kind = "reveal" \/ (env.body.kind = "transfer" /\ Applies(st, tx)))
        ran     == IF applied /\ env.body.kind = "transfer" THEN try_apply(st, tx) ELSE st
        refund  == applied \/ how = "expired"
    IN [ran EXCEPT !.work = IF refund THEN Put(@, <<env.id, 1>>, env.bond) ELSE @,
                   !.fees = IF refund THEN @ ELSE @ + env.bond,
                   !.settled = Append(@, [escrow |-> escrow,
                                          how |-> IF applied THEN "applied" ELSE IF refund THEN "expired" ELSE "forfeited"])]

SettleAll(st, S, how) == MapThenFoldSet(LAMBDA e, acc : Settle(acc, e, how), st, LAMBDA e : e, LastEscrow, S)

long_escrows_for(o) == {e \in escrows : e.env.unlock = o.unlock /\ timed_is_long_lock(e.env) /\ KeysRoot[e.env.epoch] = o.root}

\* Each opening is of a final height within its grace period, and settles something.
OpenAll(st, openings) ==
    MapThenFoldSet(LAMBDA o, acc : SettleAll(acc, long_escrows_for(o), "open"), st, LAMBDA o : o, LastOpening, openings)

verify_long_time_signatures(height, openings) ==
    /\ \A o \in openings : /\ o.unlock < height /\ height - o.unlock <= GraceBlocks
                           /\ o.root \in keySets /\ long_escrows_for(o) # {}
    /\ Cardinality(UNION {long_escrows_for(o) : o \in openings}) <= MaxLongSettlements

\* Slip: the grace period ends in the block that may still open the lock.
GraceEnd_slip(height) == height - GraceBlocks

GraceEnd(height) == height - GraceBlocks - 1

Settlements(st, height, openings) ==
    LET due     == {e \in escrows : e.env.unlock = height - 1 /\ ~timed_is_long_lock(e.env)}
        late    == {e \in escrows : e.env.unlock = GraceEnd(height) /\ timed_is_long_lock(e.env)}
    IN SettleAll(OpenAll(SettleAll(st, due, "open"), openings), late, "expired")

check_timed_inclusion(st, env, height) ==
    /\ env.unlock >= height /\ env.epoch = EpochOfHeight(height)
    /\ env.prepaid >= 1 + timed_long_lock_min_fee(height, env.unlock)
    /\ env.coin \in DOMAIN st.work /\ env.bond >= MinForfeit
    /\ env.prepaid + env.bond <= st.work[env.coin]

try_include_timed(st, env, height) ==
    LET waiting == Cardinality({e \in escrows : e.env.unlock = env.unlock})
                   + Cardinality({i \in DOMAIN st.opened : st.opened[i].unlock = env.unlock})
    IN IF \/ Len(st.opened) >= MaxTimedPerBlock \/ waiting >= MaxPerUnlock
          \/ env.coin \in st.consumed \/ ~check_timed_inclusion(st, env, height)
       THEN st
       ELSE [st EXCEPT !.work = Put(Without(@, {env.coin}), <<env.id, 0>>, st.work[env.coin] - env.prepaid - env.bond),
                       !.consumed = @ \cup {env.coin},
                       !.fees = @ + env.prepaid,
                       !.opened = Append(@, env)]

Records(st, height, records) ==
    FoldLeft(LAMBDA acc, r : IF r \in Envelopes THEN try_include_timed(acc, r, height) ELSE try_apply(acc, r), st, records)

\* Slip: the records run first.
InTurn_slip(st, height, openings, records) == Settlements(Records(st, height, records), height, openings)

\* Settlement first, so that no record can take the inputs of a body that is being revealed.
InTurn(st, height, openings, records) == Records(Settlements(st, height, openings), height, records)

execute_frontier_slice(openings, records) ==
    InTurn([work |-> funds, pool |-> shielded, fees |-> 0, consumed |-> {}, opened |-> <<>>, settled |-> <<>>],
           executed + 1, openings, records)

-------------------------------------------------------------------------------
ExInit ==
    /\ executed = 0 /\ funds = StartFunds /\ shielded = 0 /\ feesTaken = 0
    /\ escrows = {} /\ keySets = {} /\ settlements = {}

\* Could the body be applied before the block, and did the other bodies of it leave it alone?
Untouched(tx, others) ==
    /\ tx.inputs \subseteq DOMAIN funds /\ ValueOf(tx.inputs, funds) >= tx.pay + tx.delta /\ shielded + tx.delta >= 0
    /\ \A o \in others : o.inputs \cap tx.inputs = {} /\ o.delta >= 0

\* A block any proposer may have built, with apply_timed_escrows.
ExecuteBlock(openings, records) ==
    LET height == executed + 1
        out    == execute_frontier_slice(openings, records)
        ended  == {out.settled[i] : i \in DOMAIN out.settled}
        opened == {[env |-> out.opened[i], at |-> height, index |-> i - 1] : i \in DOMAIN out.opened}
        kept   == (escrows \ {s.escrow : s \in ended}) \cup opened
        roots  == keySets \cup {KeysRoot[e.env.epoch] : e \in {f \in opened : timed_is_long_lock(f.env)}}
        Others(e) == {s.escrow.env.body.tx : s \in {t \in ended : t.escrow # e /\ t.how = "applied" /\ t.escrow.env.body.kind = "transfer"}}
    IN /\ executed < LastExecuted
       /\ Len(records) <= MaxSliceRecords
       /\ verify_long_time_signatures(height, openings)
       /\ executed' = height
       /\ funds' = out.work /\ shielded' = out.pool /\ feesTaken' = feesTaken + out.fees
       /\ escrows' = kept
       /\ keySets' = {r \in roots : \E e \in kept : KeysRoot[e.env.epoch] = r}
       /\ settlements' = settlements \cup
              {[id |-> s.escrow.env.id, how |-> s.how, height |-> height,
                untouched |-> s.escrow.env.body.kind = "reveal"
                              \/ (s.escrow.env.body.kind = "transfer" /\ Untouched(s.escrow.env.body.tx, Others(s.escrow)))]
                   : s \in ended}

PossibleOpenings == {[unlock |-> e.env.unlock, root |-> KeysRoot[e.env.epoch]] : e \in escrows}
NewRecords == Transfers \cup {env \in Envelopes : (\A e \in escrows : e.env # env) /\ (\A s \in settlements : s.id # env.id)}

ExNext ==
    \E openings \in SUBSET PossibleOpenings, records \in SeqOf(NewRecords, MaxSliceRecords) :
        IsInjective(records) /\ ExecuteBlock(openings, records)

ExSpec == ExInit /\ [][ExNext]_exVars

-------------------------------------------------------------------------------
\* Every envelope in escrow ends once and in time: a short lock in the block after its height, a
\* long one within its grace period, its keys at hand until then, and its bond is paid back or
\* paid as a fee, never both: no unit is made or lost.
EscrowsEnd ==
    /\ \A e \in escrows :
           /\ executed <= e.env.unlock + (IF timed_is_long_lock(e.env) THEN GraceBlocks ELSE 0)
           /\ timed_is_long_lock(e.env) => KeysRoot[e.env.epoch] \in keySets
           /\ \A s \in settlements : s.id # e.env.id
    /\ \A s, t \in settlements : s.id = t.id => s = t
    /\ SumFunction(funds) + shielded + feesTaken + SumFunction([e \in escrows |-> e.env.bond]) = SumFunction(StartFunds)

\* Nobody can make a sender forfeit by racing the release: a body that could be applied before
\* the block, and that no other released body disturbs, is applied or has expired.
NoForfeitByRace == \A s \in settlements : s.untouched => s.how # "forfeited"
================================================================================
