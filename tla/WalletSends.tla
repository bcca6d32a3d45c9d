----------------------------- MODULE WalletSends -----------------------------
(* The desktop wallet's bookkeeping: which coins its unfinished transactions     *)
(* hold back, and its copy of the finalized history.  A refresh runs beside the  *)
(* window: it takes a copy of the local state, asks the servers, and its result  *)
(* is applied later, if nothing else changed the state meanwhile.  A send plans  *)
(* under a modal dialog, during which results are still applied.  Every write of *)
(* the store is separate: the wallet may be killed between any two of them.      *)
(*                                                                               *)
(* Servers are at different heights, so an answer may be that of any height up   *)
(* to the finalized tip; one refresh asks one server, which never goes back.     *)
(* The window's lists are written together with the store and loaded from it     *)
(* after every refresh, so one variable, disk, stands for both.  Confidential    *)
(* coins, amounts and fees, and coins held by an onboarding are left out.        *)
EXTENDS Integers, Sequences, FiniteSets, SequencesExt, Functions

CONSTANTS
    SpendCoins,       \* the coins of the wallet
    MinTipDelta,      \* kPendingSendReleaseMinTipDelta
    UnlockDelay,      \* "opens after" so many blocks
    LongGrace,        \* kTimedLongGraceBlocks
    WalletLimits      \* bounds, a set to choose from: the last height, own transactions, payments
                      \* received, refreshes under way, kills of the wallet, blocks a server is late

ASSUME WalletSendsAssumption ==
    /\ MinTipDelta \in Nat /\ UnlockDelay \in Nat /\ LongGrace \in Nat \ {0}
    /\ WalletLimits \subseteq [blocks : Nat, ids : Nat, payments : Nat, refreshes : Nat \ {0}, kills : Nat, late : Nat]

VARIABLES
    chain,            \* the finalized tip, and the wallet's transactions in it, in order
    pool,             \* the transactions of the wallet that servers have taken
    disk,             \* the wallet store
    window,           \* the running wallet: its tip, the last polled tip, the open dialogs
    refreshes,        \* requests whose result has not been applied
    nextId,           \* the next transaction's name
    kept,             \* history: sends that were recorded, with the height they are dated at
    unheld,           \* history: spends that cancel a transfer which held its coins no longer
    tornRebuild,      \* history: killed while a history with a cursor was written anew
    kills,
    limits            \* the bounds of this behaviour

wsVars == <<chain, pool, disk, window, refreshes, nextId, kept, unheld, tornRebuild, kills, limits>>

Opened(tip) ==
    [up |-> TRUE, tip |-> tip, polled |-> 0, dialog |-> <<>>, cancel |-> <<>>, stage |-> "choose"]
Closed == [Opened(0) EXCEPT !.up = FALSE]

\* No modal dialog is open: neither that of a send nor those of a cancellation.
NoDialog == window.up /\ window.dialog = <<>> /\ window.cancel = <<>>

\* A transaction: its inputs, and for an envelope the sealed transfer, its unlock height and
\* whether that lies beyond the committee's epoch (a long lock).
Plain(id, coins) ==
    [id |-> id, coins |-> coins, body |-> 0, sealed |-> {}, unlock |-> 0, long |-> FALSE]
Sealed(id, fee, coin, unlock, long) ==
    [id |-> id, coins |-> {fee}, body |-> id + 1, sealed |-> {coin}, unlock |-> unlock, long |-> long]

\* The heights a server may be at.
Heights == {v \in 1..chain.tip : v + limits.late >= chain.tip}

FinalIds == {chain.fin[i].id : i \in DOMAIN chain.fin}
IdsAt(v) == [i \in 1..Cardinality({j \in DOMAIN chain.fin : chain.fin[j].height <= v}) |-> chain.fin[i].id]
SpentAt(v) == UNION {chain.fin[i].coins : i \in {j \in DOMAIN chain.fin : chain.fin[j].height <= v}}

-------------------------------------------------------------------------------
(* The store.                                                                    *)

Without(f, ids) == Restrict(f, DOMAIN f \ ids)
Put(f, k, x) == [i \in DOMAIN f \union {k} |-> IF i = k THEN x ELSE f[i]]

\* The records of the finalized history as load() returns them; their order is not looked at.
finalized_history(st) == Range(st.hist)

\* The first n of the records have been put, the counter not yet.
PutRecords(st, records, n) ==
    [st EXCEPT !.hist = [i \in DOMAIN st.hist \union (st.seq + 1)..(st.seq + n) |->
                            IF i \in (st.seq + 1)..(st.seq + n) THEN records[i - st.seq] ELSE st.hist[i]]]

append_finalized_history(st, records) ==
    [PutRecords(st, records, Len(records)) EXCEPT !.seq = st.seq + Len(records)]

Emptied(st) == [st EXCEPT !.hist = <<>>, !.seq = 0]
replace_finalized_history(st, records) == append_finalized_history(Emptied(st), records)

\* What a kill inside one of the two leaves.
AppendCut(st, records) == {PutRecords(st, records, n) : n \in 0..Len(records)}
ReplaceCut(st, records) ==
    {[st EXCEPT !.hist = Without(@, 1..n)] : n \in DOMAIN st.hist \union {0}}
      \union AppendCut(Emptied(st), records)

upsert_pending_spend(st, id, coins, created) ==
    [st EXCEPT !.pend = Put(@, id, [coins |-> coins, created |-> created])]

pending_wallet_reserved_outpoints(st) == UNION {st.pend[id].coins : id \in DOMAIN st.pend}

-------------------------------------------------------------------------------
(* A refresh: its request, what the servers answer, its result.                  *)

Request(st, tip) ==
    [latest |-> TRUE, fresh |-> TRUE, tip |-> tip, hist |-> finalized_history(st),
     cursor |-> st.cursor, sent |-> st.sent, pend |-> st.pend]

\* A request makes every earlier one out of date, and so does a change of the local state.
refresh_chain_state(rs, st, tip) == {[r EXCEPT !.latest = FALSE] : r \in rs} \union {Request(st, tip)}
mark_refresh_state_changed(rs) == {[r EXCEPT !.fresh = FALSE] : r \in rs}

\* Slip: every result is applied.
should_apply_refresh_result_slip(r) == TRUE
should_apply_refresh_result(r) == r.latest /\ r.fresh

\* The history part of a result, status tip t and pages as of height v: all of it again when
\* there is none yet, when a page fails or repeats a record, else what follows the cursor.
history_result(r, t, v) ==
    LET listed == IdsAt(v)
        rebuilt == [mode |-> "replace", records |-> listed, cursor |-> Len(listed), seen |-> Range(listed)]
        more == SubSeq(listed, r.cursor + 1, Len(listed))
    IN  IF r.hist = {} \/ (r.cursor = 0 /\ t # r.tip) THEN {rebuilt}
        ELSE IF t = r.tip
          THEN {[mode |-> "none", records |-> <<>>, cursor |-> r.cursor, seen |-> r.hist]}
          ELSE {rebuilt} \union
               {h \in {[mode |-> "append", records |-> more, cursor |-> r.cursor + Len(more),
                        seen |-> r.hist \union Range(more)]} :
                   Range(more) \intersect r.hist = {}}

\* A send that the server does not know is given up two blocks after the height it is dated at
\* (and two minutes, which may always have passed), in a refresh that saw the tip move.
dropped_from_runtime(r, t, id) ==
    LET created == IF id \in DOMAIN r.pend THEN r.pend[id].created ELSE 0
    IN  t # r.tip /\ t >= created + MinTipDelta

\* A result: the sends that are final (in the history, or by their status, which may stay
\* unanswered) or given up leave the list, and what the history shows is no longer pending.
build_refresh_result(r, t, h, final, given) ==
    [tip |-> t, history |-> h, gone |-> (r.sent \intersect h.seen) \union final \union given,
     settled |-> DOMAIN r.pend \intersect h.seen]

\* The store after the result: the snapshot, the history, the cursor, then the sends.
ApplySnapshot(st, res) == [st EXCEPT !.snap = res.tip]
ApplyHistory(st, res) ==
    CASE res.history.mode = "replace" -> replace_finalized_history(st, res.history.records)
      [] res.history.mode = "append" /\ res.history.records # <<>> ->
           append_finalized_history(st, res.history.records)
      [] OTHER -> st
ApplyCursor(st, res) ==
    IF res.history.mode = "none" THEN st ELSE [st EXCEPT !.cursor = res.history.cursor]
ApplyRemovals(st, pend, sent) == [st EXCEPT !.pend = Without(@, pend), !.sent = @ \ sent]

Applied(st, res) ==
    LET recorded == ApplyCursor(ApplyHistory(ApplySnapshot(st, res), res), res)
    IN  ApplyRemovals(recorded, res.gone \union res.settled, res.gone)

\* set_history_cursor writes the height, then the transaction: a kill between the two leaves a
\* place somewhere in the block, or no cursor if there was none.
CursorCut(st, res) ==
    LET at == res.history.cursor
        upTo(h) == Cardinality({i \in DOMAIN chain.fin : chain.fin[i].height <= h})
        half == IF st.cursor = 0 \/ at = 0 THEN {0}
                ELSE upTo(chain.fin[at].height - 1)..upTo(chain.fin[at].height)
    IN  IF res.history.mode = "none" THEN {} ELSE {[st EXCEPT !.cursor = c] : c \in half}

HistoryCut(st, res) ==
    CASE res.history.mode = "replace" -> ReplaceCut(st, res.history.records)
      [] res.history.mode = "append" -> AppendCut(st, res.history.records)
      [] OTHER -> {st}

\* What a kill leaves of a result that is being applied.
ApplyCut(st, res) ==
    LET s1 == ApplySnapshot(st, res)
        s2 == ApplyHistory(s1, res)
        s3 == ApplyCursor(s2, res)
        lost == res.gone \union res.settled
    IN  {st} \union HistoryCut(s1, res) \union {s2} \union CursorCut(s2, res)
          \union {ApplyRemovals(s3, p, {}) : p \in SUBSET lost}
          \union {ApplyRemovals(s3, lost, p) : p \in SUBSET res.gone}

-------------------------------------------------------------------------------
(* A send.                                                                       *)

\* What submit_send records of a transaction that a server took: the sealed transfer under its
\* own name, dated at its unlock height, then the transaction, dated at the wallet's tip.
RecordBody(st, tx) == upsert_pending_spend([st EXCEPT !.sent = @ \union {tx.body}], tx.body, tx.sealed, tx.unlock)
RecordTx(st, tx, tip) == upsert_pending_spend([st EXCEPT !.sent = @ \union {tx.id}], tx.id, tx.coins, tip)
RecordTimed(st, tx) == [st EXCEPT !.timed = @ \union {tx}]

\* Slip: the sealed transfer is dated like any other send.
RecordSend_slip(st, tx, tip) ==
    RecordTx(IF tx.body = 0 THEN st
             ELSE RecordTimed(upsert_pending_spend([st EXCEPT !.sent = @ \union {tx.body}], tx.body, tx.sealed, tip), tx),
             tx, tip)

RecordSend(st, tx, tip) == RecordTx(IF tx.body = 0 THEN st ELSE RecordTimed(RecordBody(st, tx), tx), tx, tip)

\* What a kill leaves of it.
RecordCut(st, tx, tip) ==
    LET named(s, id) == [s EXCEPT !.sent = @ \union {id}]
        s1 == IF tx.body = 0 THEN st ELSE RecordTimed(RecordBody(st, tx), tx)
    IN  {st, s1, named(s1, tx.id)}
          \union (IF tx.body = 0 THEN {} ELSE {named(st, tx.body), RecordBody(st, tx)})

\* send_available_prevs with the coins of a server at height v: unspent there, and not held by
\* a pending spend.
send_available_prevs(st, v) == (SpendCoins \ SpentAt(v)) \ pending_wallet_reserved_outpoints(st)

\* The transactions submit_send may plan with them.  The unlock height of a sealed transfer
\* (prepare_timed_send) follows from the tip the wallet knew before it asked for its coins.
PlainPlans(v) == {Plain(nextId, {c}) : c \in send_available_prevs(disk, v)}
SealedPlans(v) ==
    LET free == send_available_prevs(disk, v)
    IN  {Sealed(nextId, p[1], p[2], window.tip + 1 + UnlockDelay, p[3]) :
           p \in {q \in free \X free \X BOOLEAN : q[1] # q[2] /\ nextId < limits.ids}}

\* The coins and the tip of the server that is asked before a send.
refresh_finalized_send_state(v) == [window EXCEPT !.tip = v]

\* No server answers: one of them may have taken the transaction all the same.
UnansweredBroadcast(tx) == SUBSET {tx}

-------------------------------------------------------------------------------
WsInit ==
    /\ chain = [tip |-> 1, fin |-> <<>>]
    /\ pool = {}
    /\ disk = [snap |-> 0, hist |-> <<>>, seq |-> 0, cursor |-> 0, sent |-> {}, pend |-> <<>>, timed |-> {}]
    /\ window \in {Opened(0), Opened(1)}
    /\ refreshes = {Request(disk, window.tip)}
    /\ nextId = 1
    /\ kept = {} /\ unheld = {} /\ tornRebuild = FALSE /\ kills = 0 /\ limits \in WalletLimits

\* The transfers that the next block opens and applies: every short lock in the block after its
\* unlock height, a long lock in any block of its grace period, when the signatures of its
\* committee come; where its coins are still there, and no other transfer of the block took them.
MayOpen ==
    LET until(tx) == tx.unlock + (IF tx.long THEN LongGrace ELSE 1)
        due == {tx \in pool : /\ tx.body # 0 /\ tx.id \in FinalIds /\ tx.body \notin FinalIds
                              /\ tx.unlock <= chain.tip /\ chain.tip < until(tx)
                              /\ tx.sealed \intersect SpentAt(chain.tip) = {}}
    IN  {open \in SUBSET due :
           /\ \A tx, u \in open : tx # u => tx.sealed \intersect u.sealed = {}
           /\ \A tx \in due \ open : tx.long \/ \E u \in open : tx.sealed \intersect u.sealed # {}}

\* A block is finalized: the transfers it opens, and a transaction of the wallet or a payment
\* to it.
FinalizeWalletBlock ==
    LET height == chain.tip + 1
        opened(open) == SetToSeq({[id |-> tx.body, height |-> height, coins |-> tx.sealed] : tx \in open})
        left(tx, open) ==
            /\ tx.id \notin FinalIds /\ (tx.body = 0 \/ tx.unlock >= height)
            /\ tx.coins \intersect (SpentAt(chain.tip) \union UNION {t.sealed : t \in open}) = {}
        received == Cardinality({i \in DOMAIN chain.fin : chain.fin[i].id > limits.ids})
        payment == {<<[id |-> limits.ids + height, height |-> height, coins |-> {}]>>}
        block(open) ==
            {<<>>} \union (IF received < limits.payments THEN payment ELSE {})
              \union {<<[id |-> tx.id, height |-> height, coins |-> tx.coins]>> : tx \in {t \in pool : left(t, open)}}
    IN  /\ height <= limits.blocks
        /\ \E open \in MayOpen : \E b \in block(open) :
             chain' = [tip |-> height, fin |-> chain.fin \o opened(open) \o b]
        /\ UNCHANGED <<pool, disk, window, refreshes, nextId, kept, unheld, tornRebuild, kills>>

\* The answer to a poll of the tip; a new tip starts a refresh.
poll_finalized_tip_status ==
    /\ window.up
    /\ \E v \in Heights :
         /\ v = window.polled \/ Cardinality(refreshes) < limits.refreshes
         /\ window' = [window EXCEPT !.tip = v, !.polled = v]
         /\ refreshes' = IF v = window.polled THEN refreshes ELSE refresh_chain_state(refreshes, disk, v)
    /\ UNCHANGED <<chain, pool, disk, nextId, kept, unheld, tornRebuild, kills>>

\* The refresh button.
Refresh ==
    /\ NoDialog /\ Cardinality(refreshes) < limits.refreshes
    /\ refreshes' = refresh_chain_state(refreshes, disk, window.tip)
    /\ UNCHANGED <<chain, pool, disk, window, nextId, kept, unheld, tornRebuild, kills>>

\* A result arrives that is out of date, or no server answered.
DropResult ==
    /\ \E r \in refreshes : refreshes' = refreshes \ {r}
    /\ UNCHANGED <<chain, pool, disk, window, nextId, kept, unheld, tornRebuild, kills>>

\* The results request r may come to: status tip, pages and statuses of one server in turn.
Results(r) ==
    LET heights == {p \in Heights \X Heights \X Heights : p[1] <= p[2] /\ p[2] <= p[3]}
        of(p, h) == LET open  == r.sent \ h.seen
                        final == open \intersect Range(IdsAt(p[3]))
                        mayDrop == {id \in open \ final : dropped_from_runtime(r, p[1], id)}
                    IN  {build_refresh_result(r, p[1], h, f, g) : f \in SUBSET final, g \in SUBSET mayDrop}
    IN  UNION {UNION {of(p, h) : h \in history_result(r, p[1], p[2])} : p \in heights}

apply_refresh_result ==
    \E r \in refreshes :
      /\ should_apply_refresh_result(r)
      /\ \E res \in Results(r) :
           \/ /\ disk' = Applied(disk, res)
              /\ window' = [window EXCEPT !.tip = res.tip]
              /\ refreshes' = mark_refresh_state_changed(refreshes \ {r})
              /\ UNCHANGED <<tornRebuild, kills>>
           \/ /\ kills < limits.kills /\ kills' = kills + 1
              /\ \E st \in ApplyCut(disk, res) :
                   /\ disk' = st
                   /\ tornRebuild' = \/ tornRebuild
                                     \/ /\ res.history.mode = "replace" /\ disk.cursor # 0 /\ st # disk
                                        /\ <<st.hist, st.seq, st.cursor>> # LET done == Applied(disk, res) IN <<done.hist, done.seq, done.cursor>>
              /\ window' = Closed /\ refreshes' = {}
    /\ UNCHANGED <<chain, pool, nextId, kept, unheld>>

\* The wallet is started again: it loads its store, asks for its coins, which may remain without
\* answer, and refreshes.
StartWallet ==
    /\ ~window.up
    /\ \E tip \in Heights \union {disk.snap} : window' = Opened(tip)
    /\ refreshes' = {Request(disk, window'.tip)}
    /\ UNCHANGED <<chain, pool, disk, nextId, kept, unheld, tornRebuild, kills>>

\* submit_send up to the confirmation.
PlanSend ==
    /\ NoDialog /\ nextId <= limits.ids
    /\ \E v \in Heights : \E tx \in PlainPlans(v) \union SealedPlans(v) :
         window' = [refresh_finalized_send_state(v) EXCEPT !.dialog = <<tx>>]
    /\ UNCHANGED <<chain, pool, disk, refreshes, nextId, kept, unheld, tornRebuild, kills>>

Ids(tx) == IF tx.body = 0 THEN 1 ELSE 2
KeptOf(tx, tip) ==
    {[id |-> tx.id, coins |-> tx.coins, dated |-> tip]}
      \union {k \in {[id |-> tx.body, coins |-> tx.sealed, dated |-> tx.unlock]} : tx.body # 0}

\* A server took the transaction and the wallet, whose tip is now tip, records it.
Submitted(tx, tip) ==
    /\ Cardinality(refreshes) < limits.refreshes
    /\ pool' = pool \union {tx} /\ nextId' = nextId + Ids(tx)
    /\ disk' = RecordSend(disk, tx, tip)
    /\ window' = [window EXCEPT !.tip = tip, !.dialog = <<>>]
    /\ refreshes' = refresh_chain_state(mark_refresh_state_changed(refreshes), disk', tip)
    /\ kept' = kept \union KeptOf(tx, tip)
    /\ UNCHANGED <<chain, unheld, tornRebuild, kills>>

\* submit_send from the confirmation on: the user declines; no server answers, which may have
\* taken it all the same, or one refuses; it is recorded; a plain send whose coin is gone is
\* planned once more, with the coins of a server asked now; or the wallet is killed.
ConfirmSend ==
    /\ window.dialog # <<>>
    /\ LET tx == window.dialog[1]
       IN  \/ /\ \E taken \in UnansweredBroadcast(tx) :
                   /\ pool' = pool \union taken
                   /\ nextId' = IF taken = {} THEN nextId ELSE nextId + Ids(tx)
              /\ window' = [window EXCEPT !.dialog = <<>>]
              /\ UNCHANGED <<chain, disk, refreshes, kept, unheld, tornRebuild, kills>>
           \/ Submitted(tx, window.tip)
           \/ tx.body = 0 /\ \E v \in Heights : \E again \in PlainPlans(v) : Submitted(again, v)
           \/ /\ kills < limits.kills /\ kills' = kills + 1
              /\ pool' = pool \union {tx} /\ nextId' = nextId + Ids(tx)
              /\ disk' \in RecordCut(disk, tx, window.tip)
              /\ window' = Closed /\ refreshes' = {}
              /\ UNCHANGED <<chain, kept, unheld, tornRebuild>>

\* The cancelling spend takes the place of the sealed transfer; the fee coin of an envelope
\* that is still pending is spent too, which is not recorded.
RecordCancel(st, tx, id, tip) ==
    [upsert_pending_spend([st EXCEPT !.pend = Without(@, {tx.body}), !.sent = @ \union {id}], id, tx.sealed, tip)
       EXCEPT !.timed = @ \ {tx}]

CancelCut(st, tx, id, tip) ==
    {st, [st EXCEPT !.pend = Without(@, {tx.body})],
     [st EXCEPT !.pend = Without(@, {tx.body}), !.sent = @ \union {id}],
     [RecordCancel(st, tx, id, tip) EXCEPT !.timed = st.timed]}

\* cancel_timed_send up to the choice: the transfers that the wallet's tip has not reached.
ListTimedSends ==
    /\ NoDialog /\ nextId <= limits.ids
    /\ \E tx \in disk.timed :
         /\ tx.unlock + 1 > window.tip
         /\ window' = [window EXCEPT !.cancel = <<tx>>, !.stage = "choose"]
    /\ UNCHANGED <<chain, pool, disk, refreshes, nextId, kept, unheld, tornRebuild, kills>>

\* From the choice to the question, which says whether the envelope is still pending.
ChooseTimedSend ==
    /\ window.cancel # <<>> /\ window.stage = "choose"
    /\ LET pending == window.cancel[1].id \in disk.sent
       IN  \/ window' = [window EXCEPT !.cancel = <<>>]
           \/ window' = [window EXCEPT !.stage = IF pending THEN "both" ELSE "transfer"]
    /\ UNCHANGED <<chain, pool, disk, refreshes, nextId, kept, unheld, tornRebuild, kills>>

\* From the question on: the user declines or the cancelling spend is not answered for; it is
\* recorded; or the wallet is killed.  What the two dialogs said may be out of date.
cancel_timed_send ==
    /\ window.cancel # <<>> /\ window.stage # "choose" /\ nextId <= limits.ids
    /\ LET tx == window.cancel[1]
           cancel == Plain(nextId, tx.sealed)
           feeSpend == Plain(nextId + 1, tx.coins)
           withFee == window.stage = "both" /\ nextId < limits.ids
           sent == /\ \E also \in SUBSET {f \in {feeSpend} : withFee} : pool' = pool \union {cancel} \union also
                   /\ nextId' = nextId + 2
                   /\ unheld' = IF tx.body \in DOMAIN disk.pend THEN unheld ELSE unheld \union {nextId}
       IN  \/ /\ \E taken \in UnansweredBroadcast(cancel) :
                   /\ pool' = pool \union taken
                   /\ nextId' = IF taken = {} THEN nextId ELSE nextId + 2
              /\ window' = [window EXCEPT !.cancel = <<>>]
              /\ UNCHANGED <<disk, refreshes, kept, unheld, kills>>
           \/ /\ sent
              /\ Cardinality(refreshes) < limits.refreshes
              /\ disk' = RecordCancel(disk, tx, nextId, window.tip)
              /\ kept' = {k \in kept : k.id # tx.body} \union KeptOf(cancel, window.tip)
              /\ window' = [window EXCEPT !.cancel = <<>>]
              /\ refreshes' = refresh_chain_state(mark_refresh_state_changed(refreshes), disk', window.tip)
              /\ UNCHANGED kills
           \/ /\ sent
              /\ kills < limits.kills /\ kills' = kills + 1
              /\ disk' \in CancelCut(disk, tx, nextId, window.tip)
              /\ kept' = {k \in kept : k.id # tx.body}
              /\ window' = Closed /\ refreshes' = {}
    /\ UNCHANGED <<chain, tornRebuild>>

WsNext ==
    \/ FinalizeWalletBlock
    \/ poll_finalized_tip_status \/ Refresh \/ apply_refresh_result \/ DropResult
    \/ PlanSend \/ ConfirmSend
    \/ ListTimedSends \/ ChooseTimedSend \/ cancel_timed_send
    \/ StartWallet

WsSpec == WsInit /\ [][WsNext /\ UNCHANGED limits]_wsVars

-------------------------------------------------------------------------------
\* The wallet does not spend a coin twice: the coins of a recorded send stay held, through
\* refreshes, a restart and results that arrive late, until it is final or two blocks older
\* than it is dated, which for a sealed transfer is its unlock height; and no two such sends
\* spend the same coin.  A short lock has opened or failed by then, a long lock may still open.
\* The one exception is a spend that cancels a transfer which held its coins no longer
\* (cancel_timed_send does not look).
HeldUntilGivenUp ==
    LET live == {k \in kept : k.id \notin FinalIds /\ chain.tip < k.dated + MinTipDelta}
    IN  \A k \in live : /\ k.coins \subseteq pending_wallet_reserved_outpoints(disk)
                        /\ \A l \in live \ {k} : k.coins \intersect l.coins = {} \/ {k.id, l.id} \intersect unheld # {}

\* The history has no gap and no double entry, wherever the wallet was killed: what the cursor
\* has passed is recorded, once.  The one exception is a kill while a history that has a cursor
\* is written anew (replace_finalized_history, then set_history_cursor).
HistoryExact ==
    tornRebuild \/ /\ IsInjective(disk.hist)
                   /\ \A i \in 1..disk.cursor : chain.fin[i].id \in finalized_history(disk)
===============================================================================
