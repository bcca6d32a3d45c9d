-------------------------- MODULE ValidatorLifecycle --------------------------
(* How finalized blocks change the validator registry: the liveness window,  *)
(* the join window and its queue, bond outputs and their spends, exits       *)
(* deferred to the end of the committee epoch. One block is a few steps, in  *)
(* the order of the code: BeginBlock, the queued joins, the spends of the    *)
(* block, its registrations, EndBlock. A transaction is validated against    *)
(* the registry of the parent block (prev), but applied to the current one.  *)
(* deferred_exit_activation_height is 0 on every network.                    *)
EXTENDS ValidatorRegistry

CONSTANTS
    Genesis,           \* initial_validators
    Settled,           \* keys that joined, and warmed up, before the run starts
    Bonds,             \* bond outputs one key may create
    EpochBlocks,       \* committee_epoch_blocks
    CommitteeSize,     \* members of a committee, when as many are active
    JoinWindow,        \* validator_join_limit_window_blocks
    JoinMax,           \* validator_join_limit_max_new
    LivenessWindow,    \* validator_liveness_window_blocks
    EligibleFloor,     \* heights a key must have been eligible for to be judged
    SuspendRate, ExitRate,    \* miss rates in percent
    SuspendFor,        \* validator_suspend_duration_blocks
    Amount,            \* the amount of a bond output
    BlsOf,             \* the key for time signatures that its join names
    MinBond(_, _),     \* the least bond at a height, given the active validators
    MaxHeight,         \* bound: finalized height
    MaxTxs             \* bound: transactions of validators in the whole run

\* A bond output: its owner, and which of the owner's outputs it is.
OutPoints == Keys \X (1..Bonds)
Owner(o) == o[1]

ASSUME LifecycleAssumption ==
    /\ Genesis \subseteq Keys /\ Settled \subseteq Keys \ Genesis
    /\ Settled # {} => Bonds >= 1
    /\ {Bonds, JoinMax, SuspendRate, ExitRate, SuspendFor, MaxHeight, MaxTxs} \subseteq Nat
    /\ {EpochBlocks, CommitteeSize, JoinWindow, LivenessWindow, EligibleFloor} \subseteq Nat \ {0}
    /\ Amount \in [OutPoints -> Nat] /\ BlsOf \in [OutPoints -> BlsKeys]

\* The minimum moves with the height (the supply) and grows with the number of operators of the
\* active validators (validator_min_bond_units).
ASSUME MinBondAssumption ==
    \A x \in 0..MaxHeight, S \in SUBSET Keys :
        /\ MinBond(x, S) \in Nat
        /\ \A T \in SUBSET S : MinBond(x, T) <= MinBond(x, S)

VARIABLES
    height,       \* finalized height
    phase,        \* where the block at height + 1 stands
    reg,          \* state->validators
    prev,         \* the registry the block's transactions are validated against
    outs,         \* bond outputs: unused, SCVALREG, SCVALUNB, or gone
    fresh,        \* outputs created by the block itself (not in pre_utxos)
    queue,        \* validator_join_requests still REQUESTED
    joins,        \* start and count of the join window
    minBond,      \* rules_.min_bond: the least bond of the block
    liveStart,    \* validator_liveness_window_start_height
    committee,    \* committee of height + 1
    parent,       \* committee of height
    txs           \* transactions so far

vars == <<height, phase, reg, prev, outs, fresh, queue, joins, minBond, liveStart, committee,
          parent, txs>>

h == height + 1    \* the block being applied

\* committee_epoch_start(h) = committee_epoch_start(h + 1)
SameEpoch == (h - 1) \div EpochBlocks = h \div EpochBlocks

\* select_finalized_committee: which of the candidates are drawn is left open
Committees(active) ==
    {c \in SUBSET active : \/ Cardinality(c) = CommitteeSize
                           \/ Cardinality(active) <= CommitteeSize /\ c = active}

Phases == {"idle", "queue", "spends", "outputs"}

Entries ==
    [status : Statuses, joined : Nat, bonded : BOOLEAN, bond : OutPoints \cup {Zero},
     unbond : Nat, until : Nat, exit : Nat, eligible : Nat, seen : Nat, bls : BlsKeys \cup {NoBls}]

TypeOK ==
    /\ height \in Nat
    /\ phase \in Phases
    /\ reg \in [Keys -> Entries] /\ prev \in [Keys -> Entries]
    /\ outs \in [OutPoints -> {"unused", "reg", "unb", "spent"}]
    /\ fresh \subseteq OutPoints
    /\ queue \subseteq [out : OutPoints, at : Nat]
    /\ joins \in [start : Nat, count : Nat]
    /\ minBond \in Nat
    /\ liveStart \in Nat
    /\ committee \subseteq Keys /\ parent \subseteq Keys
    /\ txs \in Nat

SettledEntry(k) == [GenesisEntry EXCEPT !.bond = <<k, 1>>, !.bls = BlsOf[<<k, 1>>]]

\* The run starts at the genesis state or, when keys have settled, later in the
\* life of the chain: heights are counted from there.
Init ==
    /\ height = 0 /\ phase = "idle" /\ txs = 0
    /\ reg = [k \in Keys |-> CASE k \in Genesis -> GenesisEntry
                               [] k \in Settled -> SettledEntry(k)
                               [] OTHER -> Unregistered]
    /\ prev = reg
    /\ outs = [o \in OutPoints |-> IF o \in Settled \X {1} THEN "reg" ELSE "unused"]
    /\ fresh = {} /\ queue = {}
    /\ joins = [start |-> 0, count |-> 0] /\ minBond = 0
    /\ liveStart = 0
    /\ committee \in Committees(Genesis \cup Settled)
    /\ parent = IF Settled = {} THEN {} ELSE committee

-----------------------------------------------------------------------------
(* update_validator_liveness_from_observed_participants *)

Counted(signers) ==
    [k \in Keys |->
        IF k \in parent /\ reg[k].status \in {"ACTIVE", "SUSPENDED"}
        THEN [reg[k] EXCEPT !.eligible = @ + 1, !.seen = IF k \in signers THEN @ + 1 ELSE @]
        ELSE reg[k]]

MissRate(v) == ((v.eligible - v.seen) * 100) \div v.eligible

MissesToExit(v) == v.eligible >= EligibleFloor /\ MissRate(v) >= ExitRate

MissesToSuspend(v) ==
    ~MissesToExit(v) /\ v.eligible >= EligibleFloor /\ MissRate(v) >= SuspendRate

\* Only the end of the epoch makes an exit for misses take effect.
Judged(v) ==
    CASE MissesToExit(v) ->
            [v EXCEPT !.status = IF SameEpoch THEN @ ELSE "EXITING", !.unbond = h, !.exit = h]
      [] MissesToSuspend(v) -> [v EXCEPT !.status = "SUSPENDED", !.until = h + SuspendFor]
      [] OTHER -> v

\* The end of a liveness window: every entry is judged, whatever its status,
\* and the counters start again.
Rolled(r) ==
    LET judged == {k \in Keys : MissesToExit(r[k]) \/ MissesToSuspend(r[k])}
    IN [k \in Keys |->
           [(IF k \in Spared(r, judged, h + 1) THEN r[k] ELSE Judged(r[k]))
               EXCEPT !.eligible = 0, !.seen = 0]]

\* validator_liveness_window_should_rollover, at the window's last block
RollsOver ==
    /\ h + 1 >= liveStart + LivenessWindow
    /\ (h + 1 - liveStart) % LivenessWindow = 0

Quorum(signers) == 3 * Cardinality(signers) > 2 * Cardinality(parent)

advance_validator_join_window ==
    IF h < joins.start + JoinWindow THEN joins
    ELSE [start |-> joins.start + ((h - joins.start) \div JoinWindow) * JoinWindow, count |-> 0]

\* A new block: who signed the parent is counted, then the least bond is set and the join
\* window moves.
BeginBlock(signers) ==
    /\ phase = "idle" /\ height < MaxHeight
    /\ signers \subseteq parent /\ (parent # {} => Quorum(signers))
    /\ IF parent # {} /\ RollsOver
       THEN /\ reg' = Rolled(Counted(signers))
            /\ liveStart' = liveStart + ((h + 1 - liveStart) \div LivenessWindow) * LivenessWindow
       ELSE reg' = Counted(signers) /\ UNCHANGED liveStart
    /\ minBond' = MinBond(h, active_sorted(reg', h))
    /\ joins' = advance_validator_join_window
    /\ phase' = "queue"
    /\ UNCHANGED <<height, prev, outs, fresh, queue, committee, parent, txs>>

-----------------------------------------------------------------------------
(* apply_validator_state_changes_from_txs *)

WindowFull == JoinMax > 0 /\ joins.count >= JoinMax

Registrable(o) ==
    /\ can_register_bond(reg[Owner(o)], Amount[o], minBond, h)
    /\ bls_key_assignable(reg, Owner(o), BlsOf[o])

Ready == {q \in queue : Registrable(q.out)}

Register(o) ==
    /\ reg' = [reg EXCEPT ![Owner(o)] = register_bond(@, o, BlsOf[o], h)]
    /\ joins' = [joins EXCEPT !.count = @ + 1]

\* Slip (not part of the specification): any request that can register does.
AdmitAny ==
    /\ phase = "queue" /\ ~WindowFull
    /\ \E q \in Ready : Register(q.out) /\ queue' = queue \ {q}
    /\ UNCHANGED <<height, phase, prev, outs, fresh, minBond, liveStart, committee, parent, txs>>

\* The oldest request that can register does; one that cannot keeps its place
\* and does not hold up the ones behind it.
AdmitQueued ==
    /\ phase = "queue" /\ ~WindowFull
    /\ \E q \in Ready :
        /\ \A q2 \in Ready : q.at <= q2.at
        /\ Register(q.out)
        /\ queue' = queue \ {q}
    /\ UNCHANGED <<height, phase, prev, outs, fresh, minBond, liveStart, committee, parent, txs>>

QueueDone ==
    /\ phase = "queue"
    /\ WindowFull \/ Ready = {}
    /\ phase' = "spends"
    /\ UNCHANGED <<height, reg, prev, outs, fresh, queue, joins, minBond, liveStart, committee,
                   parent, txs>>

\* A spend is a transaction of this block. The registry only looks up the
\* outputs the parent block left (pre_utxos), and spends come before outputs.
Spend(o, then) ==
    /\ phase = "spends" \/ (phase = "outputs" /\ o \in fresh)
    /\ txs < MaxTxs /\ txs' = txs + 1
    /\ outs' = [outs EXCEPT ![o] = then]
    /\ UNCHANGED <<height, phase, prev, queue, joins, minBond, liveStart, committee, parent>>

\* Slip (not part of the specification): an exit before the epoch ends is deferred,
\* but the last active validator may leave at the end of the epoch.
LeaveNoFloor(r, k) ==
    IF SameEpoch
    THEN IF r[k].status = "NONE" THEN r[k]
         ELSE [r[k] EXCEPT !.unbond = IF @ = 0 THEN h ELSE @, !.exit = Latest(@, h)]
    ELSE request_unbond(r[k], h)

\* The owner asks to leave: at once at the end of an epoch, otherwise (and when
\* it is the last active validator) only the height of the request is noted.
Leave(r, k) ==
    IF SameEpoch \/ active_sorted(r, h + 1) = {k}
    THEN IF r[k].status = "NONE" THEN r[k]
         ELSE [r[k] EXCEPT !.unbond = IF @ = 0 THEN h ELSE @, !.exit = Latest(@, h)]
    ELSE request_unbond(r[k], h)

\* SCVALREG spent by its owner into SCVALUNB
Unbond(o) ==
    /\ outs[o] = "reg"
    /\ prev[Owner(o)].status \notin {"NONE", "BANNED"}
    /\ Spend(o, "unb")
    /\ fresh' = fresh \cup {o}
    /\ reg' = IF o \in fresh THEN reg ELSE [reg EXCEPT ![Owner(o)] = Leave(reg, Owner(o))]

\* SCVALUNB spent by its owner to an ordinary output
Withdraw(o) ==
    /\ outs[o] = "unb"
    /\ can_withdraw_bond(prev[Owner(o)], h)
    /\ Spend(o, "spent")
    /\ reg' = IF o \in fresh THEN reg ELSE [reg EXCEPT ![Owner(o)] = finalize_withdrawal(@)]
    /\ UNCHANGED fresh

\* Either output burned with evidence against its owner
Slash(o) ==
    /\ outs[o] \in {"reg", "unb"}
    /\ prev[Owner(o)].status # "NONE"
    /\ Spend(o, "spent")
    /\ reg' = IF o \in fresh THEN reg
              ELSE [reg EXCEPT ![Owner(o)] = finalize_withdrawal(ban(@, h))]
    /\ UNCHANGED fresh

\* SCONBREG, ignored when the key for time signatures has been registered meanwhile
Onboard(k, b) ==
    /\ phase \in {"spends", "outputs"} /\ phase' = "outputs"
    /\ txs < MaxTxs /\ txs' = txs + 1
    /\ prev[k].status = "NONE" /\ \A j \in Keys : prev[j].bls # b
    /\ reg' = [reg EXCEPT ![k] = IF bls_key_assignable(reg, k, b)
                                 THEN register_onboarding(@, b, h) ELSE @]
    /\ UNCHANGED <<height, prev, outs, fresh, queue, joins, minBond, liveStart, committee, parent>>

\* Slip (not part of the specification): a join that finds the window full is dropped.
DropWhenFull(o) == UNCHANGED <<reg, queue, joins>>

WaitWhenFull(o) ==
    /\ queue' = queue \cup {[out |-> o, at |-> h]}
    /\ UNCHANGED <<reg, joins>>

\* SCVALJRQ and its SCVALREG: registered now, queued when the window is full, and
\* ignored (the output stays) when the key cannot register. The amount and the key for time
\* signatures are validated against the parent's registry.
Join(o) ==
    /\ phase \in {"spends", "outputs"} /\ phase' = "outputs"
    /\ txs < MaxTxs /\ txs' = txs + 1
    /\ outs[o] = "unused"
    /\ Amount[o] >= MinBond(h, active_sorted(prev, h))
    /\ ~TakenBls(prev, Owner(o), BlsOf[o])
    /\ outs' = [outs EXCEPT ![o] = "reg"]
    /\ fresh' = fresh \cup {o}
    /\ IF WindowFull THEN WaitWhenFull(o)
       ELSE IF Registrable(o) THEN Register(o) /\ UNCHANGED queue
       ELSE UNCHANGED <<reg, queue, joins>>
    /\ UNCHANGED <<height, prev, minBond, liveStart, committee, parent>>

\* Deferred exits take effect with the last block of the epoch.
Departures(r) ==
    LET leaving == {k \in Keys : /\ r[k].bonded /\ r[k].unbond # 0
                                 /\ r[k].status \in {"ACTIVE", "SUSPENDED"}}
    IN [k \in Keys |->
           IF ~SameEpoch /\ k \in leaving \ Spared(r, leaving, h + 1)
           THEN [r[k] EXCEPT !.status = "EXITING"]
           ELSE r[k]]

\* finalize_matured_unspendable_bond_exits: a genesis bond is no output to withdraw
Matured(v) ==
    IF v.bond = Zero /\ can_withdraw_bond(v, h) THEN finalize_withdrawal(v) ELSE v

\* Committees of the next epoch: drawn from the active validators, or the first
\* key that still has a bond when none is active (the emergency fallback that follows
\* in the code has no other candidates). None at all: the block is refused.
NextCommittees(r) ==
    LET active == active_sorted(r, h + 1)
        bonded == {k \in Keys : r[k].bonded /\ r[k].status \notin {"BANNED", "ONBOARDING"}}
    IN IF active # {} THEN Committees(active)
       ELSE {{k \in bonded : \A j \in bonded : k <= j}}

EndBlock ==
    /\ phase \in {"spends", "outputs"}
    /\ LET departed == Departures(reg)
       IN reg' = [k \in Keys |-> Matured(advance_height(departed[k], h + 1))]
    /\ prev' = reg'
    /\ fresh' = {}
    /\ parent' = committee
    /\ IF SameEpoch THEN UNCHANGED committee ELSE committee' \in NextCommittees(reg') \ {{}}
    /\ height' = h /\ phase' = "idle"
    /\ UNCHANGED <<outs, queue, joins, minBond, liveStart, txs>>

Next ==
    \/ \E signers \in SUBSET parent : BeginBlock(signers)
    \/ AdmitQueued
    \/ QueueDone
    \/ \E o \in OutPoints : Unbond(o) \/ Withdraw(o) \/ Slash(o) \/ Join(o)
    \/ \E k \in Keys, b \in BlsKeys : Onboard(k, b)
    \/ EndBlock

Spec == Init /\ [][Next]_vars

-----------------------------------------------------------------------------
(* Properties *)

\* The next height the registry decides about
Target == IF phase = "idle" THEN height + 1 ELSE height + 2

Eligible == active_sorted(reg, Target)

\* Liveness penalties, exits (at once or deferred to the end of the epoch, alone or
\* several in one block) and withdrawals never leave the next height without an active
\* validator: only a slashed bond can ("never let liveness penalties collapse effective
\* active validators for next height to zero", canonical_derivation.cpp 632 and the
\* floors of the unbond path and of the epoch boundary).
ActiveSetFloor ==
    [][(Eligible # {} /\ ~\E o \in OutPoints : Slash(o)) => Eligible' # {}]_vars

\* A bond whose owner the registry does not know (so that it could never be unbonded)
\* belongs to a join that is still queued: a full join window delays a join, it does not
\* strand its bond (canonical_derivation.cpp 806), and neither does the minimum, which for a
\* join of the block is at most the one its transaction was validated with. The exception is
\* a key for time signatures that somebody else registered meanwhile, in the same block.
JoinsNotStranded ==
    \A o \in OutPoints :
        outs[o] = "reg" /\ reg[Owner(o)].status = "NONE"
        => \/ \E q \in queue : q.out = o
           \/ TakenBls(reg, Owner(o), BlsOf[o])

\* The join of a new key that the current block could register
NewReady == {q \in Ready : reg[Owner(q.out)].status = "NONE"}

\* A queued join of a new key is overtaken only in a block whose minimum it does not meet, or
\* once its key for time signatures is another's: as long as it waits and could register, only
\* joins that are as old register, neither younger ones of the queue nor those of the block
\* itself (canonical_derivation.cpp 694 and 695).
NoQueueJumping ==
    [][\A q \in NewReady \cap queue', k \in Keys :
          reg'[k].bond \notin {reg[k].bond, Zero}
          => \E older \in queue : older.out = reg'[k].bond /\ older.at <= q.at]_vars

\* Between blocks, an active validator has something to lose: a bond output that has not
\* been paid out or burned (SCVALREG, or SCVALUNB while its exit waits), unless it is a
\* genesis validator (canonical_derivation.cpp 726: only spends of pre_utxos are seen).
ActiveHasBond ==
    phase = "idle" =>
        \A k \in Eligible \ Genesis :
            \E o \in OutPoints : Owner(o) = k /\ outs[o] \in {"reg", "unb"}
=============================================================================
