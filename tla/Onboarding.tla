------------------------------- MODULE Onboarding -------------------------------
(***************************************************************************)
(* The onboarding of one validator key (validator_onboarding.cpp): a       *)
(* durable record that calls of start_or_resume, poll and cancel advance,  *)
(* the join transaction they build and broadcast, and the finalized state  *)
(* they read.  A call holds the database lock, so the finalized state      *)
(* stands still while it runs; it may crash after any step, and only what  *)
(* it has persisted is left.  The key has not joined before.               *)
(***************************************************************************)
EXTENDS Naturals, FiniteSets, FiniteSetsExt

CONSTANTS
    Values,           \* the value of each output paid to the key, a sequence
    FirstOutputs,     \* the outputs it has at the start
    Required,         \* bond_amount + fee
    PowBlocks,        \* blocks of an admission epoch
    MaxTip,           \* bound: finalized height
    MaxCrashes,       \* bound: crashes of a call
    StepLimit         \* the iteration limit of advance()

ASSUME OnboardingAssumption == PowBlocks \in Nat \ {0} /\ StepLimit \in Nat /\ StepLimit > 4

VARIABLES
    record,           \* the durable record
    call,             \* the record in the memory of the running call, and its iterations
    wallet_outputs,   \* unspent outputs of the key in the finalized state
    tip,              \* finalized height
    join,             \* "none", "QUEUED" (request known), "PENDING", "ACTIVE"
    readiness,        \* the node's runtime snapshot: "none", "blocked" (or stale), "ready"
    pooled,           \* join transactions the network holds
    accepted,         \* every join transaction it has accepted
    crashes

onVars == <<record, call, wallet_outputs, tip, join, readiness, pooled, accepted, crashes>>
finalizedVars == <<wallet_outputs, tip, join, readiness>>

NoTx == [inputs |-> {}, epoch |-> 0]
NewRecord == [state |-> "CHECKING_PREREQS", inputs |-> {}, tx |-> NoTx, attempted |-> FALSE, outcome |-> "NONE", error |-> "none"]
NoRecord == [NewRecord EXCEPT !.state = "absent"]
NoCall == [record |-> NoRecord, steps |-> 0]
Calling == call # NoCall

-------------------------------------------------------------------------------
Epoch(height) == 1 + height \div PowBlocks
join_tx_admission_pow_expired(tx) == tx.epoch # 0 /\ Epoch(tip) > tx.epoch + 1

Worth(outputs) == MapThenSumSet(LAMBDA o : Values[o], outputs)

\* Largest value first, until the amount is reached.
select_deterministic_utxos ==
    LET Before(p, o) == Values[p] > Values[o] \/ (Values[p] = Values[o] /\ p < o)
        First(k) == {o \in wallet_outputs : Cardinality({p \in wallet_outputs : Before(p, o)}) < k}
    IN  First(Min({k \in 0..Cardinality(wallet_outputs) : Worth(First(k)) >= Required}))

\* Slip: the rebuild starts with a new choice of inputs.
reset_join_tx_for_pow_rebuild_slip(r) ==
    [r EXCEPT !.tx = NoTx, !.attempted = FALSE, !.outcome = "NONE", !.error = "none", !.state = "SELECTING_UTXOS"]

\* An expired transaction is built again from the same inputs.
reset_join_tx_for_pow_rebuild(r) ==
    [r EXCEPT !.tx = NoTx, !.attempted = FALSE, !.outcome = "NONE", !.error = "none", !.state = "BUILDING_JOIN_TX"]

\* One iteration of advance() ends with a persisted record, or goes on.
Return(r) == record' = r /\ call' = NoCall
Continue(r) ==
    IF call.steps + 1 < StepLimit THEN call' = [record |-> r, steps |-> call.steps + 1] /\ UNCHANGED record
    ELSE Return([r EXCEPT !.state = "FAILED", !.error = "internal_error"])
Fail(r, code) == Return([r EXCEPT !.state = "FAILED", !.error = code])

\* The call is in this state, and the finalized state does not decide the iteration.
At(state) ==
    /\ Calling /\ call.record.state = state /\ join \notin {"PENDING", "ACTIVE"}
    /\ UNCHANGED <<finalizedVars, crashes>>

OnInit ==
    /\ record = NoRecord /\ call = NoCall
    /\ wallet_outputs = FirstOutputs /\ tip = 0 /\ join = "none" /\ readiness = "none"
    /\ pooled = {} /\ accepted = {} /\ crashes = 0

\* start_or_resume (poll is the same for a record that exists).
start_or_resume ==
    /\ ~Calling
    /\ call' = [record |-> IF record = NoRecord THEN NewRecord ELSE record, steps |-> 0]
    /\ UNCHANGED <<record, finalizedVars, pooled, accepted, crashes>>

\* validator_onboarding_state_pre_broadcast and the case of BROADCASTING_JOIN_TX.
Cancellable(r) ==
    \/ r.state \in {"IDLE", "CHECKING_PREREQS", "WAITING_FOR_SYNC", "WAITING_FOR_FUNDS", "SELECTING_UTXOS", "BUILDING_JOIN_TX"}
    \/ r.state = "BROADCASTING_JOIN_TX" /\ ~r.attempted

\* cancel (after the broadcast it only stops the tracking).
cancel ==
    /\ ~Calling /\ record # NoRecord /\ Cancellable(record)
    /\ record' = [record EXCEPT !.state = "CANCELLED", !.inputs = {}, !.tx = NoTx]
    /\ UNCHANGED <<call, finalizedVars, pooled, accepted, crashes>>

\* The registry decides before the state of the record does.
FollowRegistry ==
    /\ Calling /\ join \in {"PENDING", "ACTIVE"}
    /\ Return(IF join = "ACTIVE" THEN [call.record EXCEPT !.state = "ACTIVE", !.error = "none"]
              ELSE [call.record EXCEPT !.state = "PENDING_ACTIVATION"])
    /\ UNCHANGED <<finalizedVars, pooled, accepted, crashes>>

CheckingPrereqs(wait_for_sync) ==
    /\ At("CHECKING_PREREQS") /\ UNCHANGED <<pooled, accepted>>
    /\ \/ readiness # "ready" /\ wait_for_sync
          /\ Return([call.record EXCEPT !.state = "WAITING_FOR_SYNC", !.error = "none"])
       \/ readiness # "ready" /\ ~wait_for_sync /\ Fail(call.record, "node_not_ready")
       \/ readiness = "ready" /\ Worth(wallet_outputs) < Required
          /\ Return([call.record EXCEPT !.state = "WAITING_FOR_FUNDS", !.error = "none"])
       \/ readiness = "ready" /\ Worth(wallet_outputs) >= Required
          /\ Continue([call.record EXCEPT !.state = "SELECTING_UTXOS"])

WaitingForSync ==
    /\ At("WAITING_FOR_SYNC") /\ UNCHANGED <<pooled, accepted>>
    /\ IF readiness = "ready" THEN Continue([call.record EXCEPT !.state = "CHECKING_PREREQS"]) ELSE Return(call.record)

WaitingForFunds ==
    /\ At("WAITING_FOR_FUNDS") /\ UNCHANGED <<pooled, accepted>>
    /\ Continue([call.record EXCEPT !.state = "CHECKING_PREREQS"])

SelectingUtxos ==
    /\ At("SELECTING_UTXOS") /\ UNCHANGED <<pooled, accepted>>
    /\ IF Worth(wallet_outputs) < Required THEN Fail(call.record, "selection_failed")
       ELSE Continue([call.record EXCEPT !.inputs = select_deterministic_utxos, !.state = "BUILDING_JOIN_TX"])

\* The build fails for a wallet address or a proof of work, or because the requirement has grown
\* over the value of the reserved inputs.
BuildingJoinTx ==
    /\ At("BUILDING_JOIN_TX") /\ UNCHANGED <<pooled, accepted>>
    /\ IF call.record.inputs = {} THEN Fail(call.record, "selection_failed")
       ELSE IF ~(call.record.inputs \subseteq wallet_outputs) THEN Fail(call.record, "reserved_input_unavailable")
       ELSE \/ Fail(call.record, "build_failed")
            \/ Continue([call.record EXCEPT !.tx = [inputs |-> call.record.inputs, epoch |-> Epoch(tip)],
                                            !.outcome = "NONE", !.state = "BROADCASTING_JOIN_TX"])

\* rpc_broadcast_tx: a node takes the transaction or not, and the answer may be lost.  (The
\* expiry is checked again after a rejection: the tip is still the same.)
BroadcastingJoinTx(outcome, taken) ==
    LET r == call.record
        conflict == \E other \in pooled \ {r.tx} : other.inputs \cap r.tx.inputs # {}
    IN  /\ At("BROADCASTING_JOIN_TX") /\ ~r.attempted
        /\ taken => ~conflict /\ r.tx.inputs \subseteq wallet_outputs
        /\ outcome = "SENT" => taken
        /\ outcome = "REJECTED" => ~taken
        /\ IF r.tx = NoTx THEN Fail(r, "broadcast_failed") /\ UNCHANGED <<pooled, accepted>>
           ELSE IF join_tx_admission_pow_expired(r.tx)
           THEN Continue(reset_join_tx_for_pow_rebuild(r)) /\ UNCHANGED <<pooled, accepted>>
           ELSE /\ call' = [call EXCEPT !.record.attempted = TRUE, !.record.outcome = outcome]
                /\ pooled' = IF taken THEN pooled \cup {r.tx} ELSE pooled
                /\ accepted' = IF taken THEN accepted \cup {r.tx} ELSE accepted
                /\ UNCHANGED record

\* The outcome is recorded; until then a crash leaves no trace of the broadcast.
AfterBroadcast ==
    /\ At("BROADCASTING_JOIN_TX") /\ call.record.attempted /\ UNCHANGED <<pooled, accepted>>
    /\ IF call.record.outcome = "REJECTED" THEN Fail(call.record, "tx_rejected")
       ELSE IF call.record.outcome = "NONE" THEN Fail(call.record, "broadcast_failed")
       ELSE Return([call.record EXCEPT !.state = "WAITING_FOR_FINALIZATION"])

\* late: more than kOnboardingFinalizationTimeoutMs since the broadcast.
WaitingForFinalization(late) ==
    /\ At("WAITING_FOR_FINALIZATION") /\ UNCHANGED <<pooled, accepted>>
    /\ IF join = "none" /\ join_tx_admission_pow_expired(call.record.tx)
       THEN Continue(reset_join_tx_for_pow_rebuild(call.record))
       ELSE IF call.record.attempted /\ late THEN Fail(call.record, "tx_finalization_timeout")
       ELSE Return(IF join = "QUEUED" THEN [call.record EXCEPT !.state = "PENDING_ACTIVATION"] ELSE call.record)

\* Nothing more to do for a record that waits for its activation or has ended.
RecordSettled ==
    /\ Calling /\ call.record.state \in {"PENDING_ACTIVATION", "ACTIVE", "FAILED", "CANCELLED"}
    /\ At(call.record.state) /\ UNCHANGED <<pooled, accepted>>
    /\ Return(call.record)

CrashCall ==
    /\ Calling /\ crashes < MaxCrashes /\ crashes' = crashes + 1
    /\ call' = NoCall
    /\ UNCHANGED <<record, finalizedVars, pooled, accepted>>

-------------------------------------------------------------------------------
\* The chain between two calls: a block with a pooled join transaction (queued when the
\* join window is full) or without one; expired transactions leave the pools.
FinalizeJoin(tx) ==
    /\ ~Calling /\ tip < MaxTip /\ tx \in pooled /\ join = "none"
    /\ tx.inputs \subseteq wallet_outputs /\ ~join_tx_admission_pow_expired(tx)
    /\ wallet_outputs' = wallet_outputs \ tx.inputs
    /\ tip' = tip + 1 /\ join' \in {"QUEUED", "PENDING"}
    /\ pooled' = {t \in pooled : t.inputs \cap tx.inputs = {}}
    /\ UNCHANGED <<record, call, readiness, accepted, crashes>>

FinalizeOther ==
    /\ ~Calling /\ tip < MaxTip /\ tip' = tip + 1
    /\ pooled' = {t \in pooled : Epoch(tip + 1) <= t.epoch + 1}
    /\ join' = (IF join = "QUEUED" THEN "PENDING" ELSE IF join = "PENDING" THEN "ACTIVE" ELSE join)
    /\ UNCHANGED <<record, call, wallet_outputs, readiness, accepted, crashes>>

\* The network forgets a transaction, the owner is paid or spends, the snapshot changes.
LoseTx ==
    /\ ~Calling /\ \E tx \in pooled : pooled' = pooled \ {tx}
    /\ UNCHANGED <<record, call, finalizedVars, accepted, crashes>>

Payment(o) ==
    /\ ~Calling /\ o \notin wallet_outputs
    /\ \A t \in accepted : o \notin t.inputs
    /\ wallet_outputs' = wallet_outputs \cup {o}
    /\ UNCHANGED <<record, call, tip, join, readiness, pooled, accepted, crashes>>

SpendElsewhere(o) ==
    /\ ~Calling /\ o \in wallet_outputs
    /\ \A t \in pooled : o \notin t.inputs
    /\ wallet_outputs' = wallet_outputs \ {o}
    /\ UNCHANGED <<record, call, tip, join, readiness, pooled, accepted, crashes>>

Snapshot ==
    /\ ~Calling /\ readiness' \in {"blocked", "ready"} \ {readiness}
    /\ UNCHANGED <<record, call, wallet_outputs, tip, join, pooled, accepted, crashes>>

OnNext ==
    \/ start_or_resume \/ cancel \/ FollowRegistry \/ WaitingForSync \/ WaitingForFunds \/ SelectingUtxos
    \/ BuildingJoinTx \/ AfterBroadcast \/ RecordSettled \/ CrashCall \/ FinalizeOther \/ LoseTx \/ Snapshot
    \/ \E b \in BOOLEAN : CheckingPrereqs(b) \/ WaitingForFinalization(b)
    \/ \E outcome \in {"SENT", "REJECTED", "AMBIGUOUS"}, taken \in BOOLEAN : BroadcastingJoinTx(outcome, taken)
    \/ \E tx \in pooled : FinalizeJoin(tx)
    \/ \E o \in DOMAIN Values : Payment(o) \/ SpendElsewhere(o)

OnSpec == OnInit /\ [][OnNext]_onVars

-------------------------------------------------------------------------------
\* The key never has two bonds at stake, and no attempt is given up that may still bond: while
\* no call has crashed, any two of its join transactions spend a common output, and a record is
\* cancelled only while none of them is out.  Crash or not, a call ends within its iterations
\* and never finds its own bookkeeping broken.
OneBondAtStake ==
    /\ crashes = 0 => /\ \A s, t \in accepted : s.inputs \cap t.inputs # {}
                      /\ record.state = "CANCELLED" => accepted = {}
    /\ record.error \notin {"internal_error", "broadcast_failed"}
================================================================================
