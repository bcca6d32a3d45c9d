-------------------------------- MODULE Mempool --------------------------------
(***************************************************************************)
(* The memory pool of a node (mempool.cpp) and the calls the node makes to *)
(* it: a transaction from a client or a peer, the event loop, a finalized  *)
(* block.  A transaction is reduced to what admission looks at; its        *)
(* signatures and proofs are taken as valid.                               *)
(***************************************************************************)
EXTENDS Integers, FiniteSets, FiniteSetsExt

CONSTANTS
    Txs,              \* [id, inputs, fee, size, verify, delta, v2, epoch, stamp]; the output of a
                      \* transaction has its id, epoch is that of its admission proof (0: none)
    Funds,            \* the outpoints of the genesis
    MaxTxCount,       \* kMaxTxCount
    MaxPoolBytes,     \* kMaxPoolBytes
    MarginBps,        \* full_replacement_margin_bps_
    MinRelayFee, FeeExempt, BaseBits, PressureTxs,   \* the relay fee and the hashcash policy
    MaxPoolValue,     \* 2^64 - 1
    BlocksPerPowEpoch,
    MaxBlocks         \* bound: finalized blocks

ASSUME MempoolAssumption ==
    /\ \A t \in Txs : t.id \in Nat /\ t.fee \in Nat /\ t.size \in Nat /\ t.verify \in Nat
    /\ \A s, t \in Txs : s.id = t.id => s = t
    /\ MaxTxCount \in Nat /\ MaxPoolBytes \in Nat

VARIABLES
    by_txid,          \* by_txid_
    eviction_index,   \* eviction_index_, the transactions behind its keys
    spent_outpoints,  \* spent_outpoints_, pairs
    total_bytes,      \* total_bytes_
    pool_value,       \* confidential_pool_value_
    ctx_height,       \* ctx_->current_height, 0: none
    stamped_time,     \* last_finalized_timestamp_ is set
    utxos, committed, blocks   \* the finalized chain: UTXO set, turnstile value, height

mpVars == <<by_txid, eviction_index, spent_outpoints, total_bytes, pool_value, ctx_height, stamped_time,
            utxos, committed, blocks>>

-------------------------------------------------------------------------------
effective_score_weight(tx) == Max({1, tx.size}) + 4 * tx.verify

\* EvictionKeyLess on (fee, weight, id): the fee rate, then the fee, then the larger id.
KeyLess(fa, wa, ia, fb, wb, ib) ==
    \/ fa * wb < fb * wa
    \/ fa * wb = fb * wa /\ fa < fb
    \/ fa * wb = fb * wa /\ fa = fb /\ ia > ib

EntryLess(a, b) == KeyLess(a.fee, effective_score_weight(a), a.id, b.fee, effective_score_weight(b), b.id)

worst_entry(index) == CHOOSE w \in index : \A t \in index \ {w} : EntryLess(w, t)

meets_full_replacement_margin(tx, worst) ==
    tx.fee * 10000 * effective_score_weight(worst) >= worst.fee * (10000 + MarginBps) * effective_score_weight(tx)

pool_value_admits(value, delta) == value + delta \in 0..MaxPoolValue

pool_is_full(pool, tx, bytes) == Cardinality(pool) >= MaxTxCount \/ bytes + tx.size > MaxPoolBytes

\* Slip: the estimate of the fee rate uses the weight of a confidential transaction.
fast_key_loses_slip(tx, worst) ==
    ~KeyLess(worst.fee, Max({1, worst.size}), worst.id, tx.fee, Max({1, tx.size}), tx.id)

\* The cheap comparison before any cryptography: size alone as weight.
fast_key_loses(tx, worst) ==
    ~KeyLess(worst.fee, effective_score_weight(worst), worst.id, tx.fee, Max({1, tx.size}), tx.id)

required_hashcash_bits(tx, pool) ==
    IF tx.v2 \/ tx.fee >= FeeExempt THEN 0
    ELSE BaseBits + (IF Cardinality(pool) > PressureTxs THEN Cardinality(pool) - PressureTxs ELSE 0)

\* The admission proof of a join or an onboarding registration is of the current epoch or
\* the one before.
PowEpoch(height) == 1 + (height - 1) \div BlocksPerPowEpoch
admission_pow_invalid(tx, height) == tx.epoch # 0 /\ tx.epoch \notin {PowEpoch(height), PowEpoch(height) - 1}

\* accept_tx up to the question of room.
Admissible(tx, pool, spent, height) ==
    /\ tx \notin pool
    /\ tx.inputs \subseteq utxos
    /\ \A op \in tx.inputs : \A s \in spent : s[1] # op
    /\ ~admission_pow_invalid(tx, height)
    /\ tx.fee >= MinRelayFee
    /\ tx.v2 => pool_value_admits(committed, tx.delta)
    /\ tx.stamp >= required_hashcash_bits(tx, pool)
    /\ required_hashcash_bits(tx, pool) # 0 \/ tx.stamp # 0 => stamped_time

\* The comparison with the worst entry of a full pool.
Displaces(tx, worst, bytes) ==
    /\ meets_full_replacement_margin(tx, worst)
    /\ EntryLess(worst, tx)
    /\ bytes - worst.size + tx.size <= MaxPoolBytes

\* erase_entry: the inputs that are still marked for the entry are free again.
erase_entry(dropped, spent) == {s \in spent : \A t \in dropped : s \notin t.inputs \X {t.id}}

Bytes(txs) == SumFunction([t \in txs |-> t.size])

\* What is left after these entries are erased, as a record of the four containers.
Keeping(dropped, pool) ==
    [txs |-> pool.txs \ dropped, index |-> pool.index \ dropped, spent |-> erase_entry(dropped, pool.spent),
     bytes |-> pool.bytes - Bytes(dropped \cap pool.txs)]

Inserting(tx, pool) ==
    [txs |-> pool.txs \cup {tx}, index |-> pool.index \cup {tx}, spent |-> pool.spent \cup (tx.inputs \X {tx.id}),
     bytes |-> pool.bytes + tx.size]

ThePool == [txs |-> by_txid, index |-> eviction_index, spent |-> spent_outpoints, bytes |-> total_bytes]

SetPool(pool) ==
    by_txid' = pool.txs /\ eviction_index' = pool.index /\ spent_outpoints' = pool.spent /\ total_bytes' = pool.bytes

\* set_validation_context and prune_expired_admission_pow.
Contextual(height, pool) ==
    Keeping(IF height > ctx_height THEN {t \in pool.txs : admission_pow_invalid(t, height)} ELSE {}, pool)

\* set_confidential_pool_value.
Turnstile(value, pool) ==
    Keeping(IF value # pool_value THEN {t \in pool.txs : t.v2 /\ ~pool_value_admits(value, t.delta)} ELSE {}, pool)

prune_against_utxo(pool, view) == Keeping({t \in pool.txs : ~(t.inputs \subseteq view)}, pool)

-------------------------------------------------------------------------------
MpInit ==
    /\ by_txid = {} /\ eviction_index = {} /\ spent_outpoints = {} /\ total_bytes = 0
    /\ pool_value = 0 /\ ctx_height = 1 /\ stamped_time = FALSE
    /\ utxos = Funds /\ committed = 0 /\ blocks = 0

\* handle_tx: the context and the turnstile value first, then accept_tx.
handle_tx(tx) ==
    LET pool == Turnstile(committed, Contextual(blocks + 1, ThePool))
        full == pool_is_full(pool.txs, tx, pool.bytes)
        worst == worst_entry(pool.index)
        refused == \/ ~Admissible(tx, pool.txs, pool.spent, blocks + 1)
                   \/ full /\ (pool.index = {} \/ fast_key_loses(tx, worst) \/ ~Displaces(tx, worst, pool.bytes))
    IN  /\ tx \notin by_txid
        /\ SetPool(IF refused THEN pool
                   ELSE Inserting(tx, IF full THEN Keeping({worst}, pool) ELSE pool))
        /\ ctx_height' = blocks + 1 /\ pool_value' = committed
        /\ UNCHANGED <<stamped_time, utxos, committed, blocks>>

\* One turn of the event loop.
EventLoop ==
    /\ SetPool(Contextual(blocks + 1, ThePool))
    /\ ctx_height' = blocks + 1
    /\ UNCHANGED <<pool_value, stamped_time, utxos, committed, blocks>>

\* A block of at most two transactions, pooled here or not, is finalized (none spends an
\* output of the same block).
FinalizeBlock(included) ==
    LET spends == UNION {t.inputs : t \in included}
        view == (utxos \ spends) \cup {t.id : t \in included}
        value == committed + MapThenSumSet(LAMBDA t : t.delta, included)
    IN  /\ blocks < MaxBlocks /\ blocks' = blocks + 1
        /\ spends \subseteq utxos /\ value \in 0..MaxPoolValue
        /\ \A s, t \in included : s # t => s.inputs \cap t.inputs = {}
        /\ \A t \in included : ~admission_pow_invalid(t, blocks + 1)
        /\ stamped_time' = TRUE
        /\ utxos' = view /\ committed' = value
        /\ SetPool(Turnstile(value, prune_against_utxo(Keeping(included \cap by_txid, ThePool), view)))
        /\ pool_value' = value
        /\ UNCHANGED ctx_height

MpNext ==
    \/ EventLoop
    \/ \E tx \in Txs : handle_tx(tx)
    \/ \E included \in kSubset(0, Txs) \cup kSubset(1, Txs) \cup kSubset(2, Txs) : FinalizeBlock(included)

MpSpec == MpInit /\ [][MpNext]_mpVars

-------------------------------------------------------------------------------
\* The indices of the pool agree with its entries within the limits: an outpoint is marked
\* exactly while one entry spends it, the eviction index lists the entries, the bytes add up.
\* And after every block each entry can still be included on its own: it spends confirmed
\* outputs and the turnstile of the finalized state admits it.  The cheap test in front of a
\* full pool refuses only what the full comparison would refuse.
PoolConsistent ==
    /\ spent_outpoints = UNION {t.inputs \X {t.id} : t \in by_txid}
    /\ \A s, t \in by_txid : s # t => s.inputs \cap t.inputs = {}
    /\ eviction_index = by_txid
    /\ total_bytes = Bytes(by_txid)
    /\ total_bytes <= MaxPoolBytes /\ Cardinality(by_txid) <= MaxTxCount
    /\ \A t \in by_txid : t.inputs \subseteq utxos /\ (t.v2 => pool_value_admits(committed, t.delta))
    /\ eviction_index # {} => \A tx \in Txs :
         fast_key_loses(tx, worst_entry(eviction_index)) => ~Displaces(tx, worst_entry(eviction_index), total_bytes)
================================================================================
