------------------------------- MODULE PartnerApi -------------------------------
(***************************************************************************)
(* The partner API of the explorer (apps/finalis-explorer/main.cpp):       *)
(* withdrawals submitted under an idempotency key, their state refreshed   *)
(* from the chain, an event for every change, a webhook for every          *)
(* finalized one, retried and then kept in a dead-letter queue, all of it  *)
(* in memory and saved as a whole to a file.  Requests run on threads of   *)
(* their own and hold the mutex for single sections; the webhook worker    *)
(* is one more thread.  One partner, authenticated and within its limits.  *)
(***************************************************************************)
EXTENDS Naturals, Sequences, FiniteSets, SequencesExt

CONSTANTS
    Threads,          \* request threads
    IdemKeys,         \* idempotency keys a client uses, numbers
    Bodies,           \* request bodies: [client, tx]
    KeyTtl, EventTtl, QueueTtl,                \* seconds an entry is kept, 0 for ever
    KeyLimit, EventLimit, QueueLimit,          \* entries kept
    MaxAttempts,      \* partner_webhook_max_attempts
    MaxReplays,       \* partner_webhook_max_replay_attempts
    MaxBackoff,       \* cap of the delay of a retry
    Answers,          \* bound: answers of the node to a broadcast, of the four below
    Budgets           \* bounds of a behaviour, one of these: [posts, restarts, now]

Clients == {b.client : b \in Bodies}
PayTxs == {b.tx : b \in Bodies}
NoWithdrawal == [tx |-> 0, state |-> "none"]
NoKey == [body |-> [client |-> 0, tx |-> 0], ts |-> 0]
Hook == 0             \* the webhook worker
Processes == Threads \cup {Hook}
Idle == [at |-> "idle"]

VARIABLES
    api,              \* the partner state in memory, one record
    saved,            \* the file: a copy of it, or <<>> when it cannot be parsed
    pc,               \* what each thread is doing, with what it holds
    pay,              \* tx -> "unknown", "relayed", "finalized", "rejected"
    now,              \* clock
    delivered,        \* history: events whose webhook was posted
    crowded,          \* history: events whose webhook a full queue pushed out
    posts, restarts, budget   \* counts and their bounds

paVars == <<api, saved, pc, pay, now, delivered, crowded, posts, restarts, budget>>

EmptyApi == [withdrawals |-> [c \in Clients |-> NoWithdrawal], idem |-> [k \in IdemKeys |-> NoKey],
             events |-> <<>>, next |-> 1, queue |-> <<>>, dlq |-> <<>>]

-------------------------------------------------------------------------------
Newest(s, n) == SubSeq(s, IF Len(s) > n THEN Len(s) - n + 1 ELSE 1, Len(s))
Expired(ttl, since, t) == ttl # 0 /\ t - since > ttl
Held(idem) == {k \in IdemKeys : idem[k] # NoKey}

\* Keys past their age, and the oldest ones above the limit.
Forgotten(idem, t) ==
    LET live == {k \in Held(idem) : ~Expired(KeyTtl, idem[k].ts, t)}
        Newer(k) == {j \in live : idem[j].ts > idem[k].ts \/ (idem[j].ts = idem[k].ts /\ j > k)}
    IN  {k \in Held(idem) : k \notin live \/ Cardinality(Newer(k)) >= KeyLimit}

\* Events leave at the front only, while the first one is too old.
FreshEvents(events, t) ==
    LET old == {i \in 0..Len(events) : \A j \in 1..i : Expired(EventTtl, events[j].ts, t)}
    IN  SubSeq(events, Max(old) + 1, Len(events))

\* One job per sequence, where the first stood: the one with the fewest attempts, due first.
Merged(q) ==
    LET same(i) == {j \in 1..Len(q) : q[j].event.seq = q[i].event.seq}
        better(j, k) == \/ q[j].attempt < q[k].attempt
                        \/ q[j].attempt = q[k].attempt /\ q[j].next < q[k].next
                        \/ q[j].attempt = q[k].attempt /\ q[j].next = q[k].next /\ j <= k
        firsts == SelectSeq([i \in 1..Len(q) |-> i], LAMBDA i : i = Min(same(i)))
    IN  [n \in 1..Len(firsts) |-> q[CHOOSE j \in same(firsts[n]) : \A k \in same(firsts[n]) : better(j, k)]]

LiveJobs(q, t) == Merged(SelectSeq(q, LAMBDA j : ~Expired(QueueTtl, j.enqueued, t) /\ j.attempt < MaxAttempts))
LiveLetters(dlq, t) ==
    LET quarantine(d) == [d EXCEPT !.quarantined = @ \/ d.replays >= MaxReplays]
    IN  SelectSeq([i \in 1..Len(dlq) |-> quarantine(dlq[i])], LAMBDA d : ~Expired(QueueTtl, d.failed, t))

prune_partner_state(m, t) ==
    LET events == Newest(FreshEvents(m.events, t), EventLimit)
    IN  [m EXCEPT
            !.idem = [k \in IdemKeys |-> IF k \in Forgotten(@, t) THEN NoKey ELSE @[k]],
            !.events = events,
            !.next = Max({@} \cup {events[i].seq + 1 : i \in 1..Len(events)}),
            !.queue = Newest(LiveJobs(@, t), QueueLimit),
            !.dlq = Newest(LiveLetters(@, t), QueueLimit)]

\* The events whose webhooks that gives up because there are too many.
Crowded(m, t) ==
    LET beyond(s) == {s[i].event : i \in 1..(Len(s) - Len(Newest(s, QueueLimit)))}
    IN  beyond(LiveJobs(m.queue, t)) \cup beyond(LiveLetters(m.dlq, t))

NewJob(event, replays, t) == [event |-> event, attempt |-> 0, replays |-> replays, enqueued |-> t, next |-> t]

\* upsert_partner_withdrawal: an event when the state changed, a webhook when it is final.
upsert_partner_withdrawal(m, client, w) ==
    LET changed == m.withdrawals[client].state # w.state
        event == [seq |-> m.next, client |-> client, state |-> w.state, ts |-> now]
        put == [m EXCEPT !.withdrawals[client] = w]
        told == [put EXCEPT !.events = Append(@, event), !.next = @ + 1]
        queued == \E i \in 1..Len(m.queue) : m.queue[i].event.seq = m.next
    IN  IF ~changed THEN put
        ELSE IF w.state # "finalized" \/ queued THEN told
        ELSE [told EXCEPT !.queue = Append(@, NewJob(event, 0, now))]

Goes(p, step) == pc' = [pc EXCEPT ![p] = step]
Persisting(then) == [at |-> "copy", then |-> then]

-------------------------------------------------------------------------------
PaInit ==
    /\ api = EmptyApi /\ saved = EmptyApi
    /\ pc = [p \in Processes |-> Idle]
    /\ pay = [tx \in PayTxs |-> "unknown"]
    /\ now = 0 /\ delivered = {} /\ crowded = {} /\ posts = 0 /\ restarts = 0 /\ budget \in Budgets

\* persist_explorer_snapshot: the state is copied under the mutex and written after it.
CopyState(p) ==
    /\ pc[p].at = "copy"
    /\ api' = prune_partner_state(api, now) /\ crowded' = crowded \cup Crowded(api, now)
    /\ Goes(p, [at |-> "write", copy |-> api', then |-> pc[p].then])
    /\ UNCHANGED <<saved, pay, now, delivered, posts, restarts, budget>>

WriteState(p) ==
    /\ pc[p].at = "write"
    /\ saved' = pc[p].copy
    /\ Goes(p, pc[p].then)
    /\ UNCHANGED <<api, pay, now, delivered, crowded, posts, restarts, budget>>

\* POST /api/v1/withdrawals up to the broadcast: the idempotency key and the client's id
\* are looked up in one section.
PostWithdrawal(p, key, body) ==
    LET m == prune_partner_state(api, now)
        known == m.idem[key] # NoKey
        replayed == known /\ m.withdrawals[m.idem[key].body.client] # NoWithdrawal
        existing == m.withdrawals[body.client] # NoWithdrawal
        bound == [m EXCEPT !.idem[key] = [body |-> body, ts |-> IF known THEN @.ts ELSE now]]
    IN  /\ p # Hook /\ pc[p] = Idle /\ posts < budget.posts
        /\ posts' = posts + 1 /\ crowded' = crowded \cup Crowded(api, now)
        /\ api' = IF ~(known /\ m.idem[key].body # body) /\ ~replayed /\ existing THEN bound ELSE m
        /\ Goes(p, IF known /\ m.idem[key].body # body THEN Idle
                   ELSE IF replayed \/ existing THEN (IF api' # api THEN Persisting(Idle) ELSE Idle)
                   ELSE LET send == [at |-> "broadcast", key |-> key, body |-> body, ts |-> now]
                        IN  IF api' # api THEN Persisting(send) ELSE send)
        /\ UNCHANGED <<saved, pay, now, delivered, restarts, budget>>

\* The RPC to the node, which may have relayed the transaction also when the answer is lost.
BroadcastWithdrawal(p, answer) ==
    LET tx == pc[p].body.tx
    IN  /\ pc[p].at = "broadcast"
        /\ answer = "rejected" => pay[tx] \in {"unknown", "rejected"}
        /\ \/ answer = "accepted_for_relay" /\ pay' = [pay EXCEPT ![tx] = IF @ = "unknown" THEN "relayed" ELSE @]
           \/ answer = "error" /\ pay' \in {pay, [pay EXCEPT ![tx] = IF @ = "unknown" THEN "relayed" ELSE @]}
           \/ answer \in {"submitted", "rejected"} /\ UNCHANGED pay
        /\ Goes(p, IF answer = "error" THEN Idle
                   ELSE [at |-> "bind", key |-> pc[p].key, body |-> pc[p].body, ts |-> pc[p].ts, state |-> answer])
        /\ UNCHANGED <<api, saved, now, delivered, crowded, posts, restarts, budget>>

BindKey(p) ==
    /\ pc[p].at = "bind"
    /\ api' = [api EXCEPT !.idem[pc[p].key] = [body |-> pc[p].body, ts |-> pc[p].ts]]
    /\ Goes(p, [at |-> "upsert", client |-> pc[p].body.client, w |-> [tx |-> pc[p].body.tx, state |-> pc[p].state]])
    /\ UNCHANGED <<saved, pay, now, delivered, crowded, posts, restarts, budget>>

Upsert(p) ==
    /\ pc[p].at = "upsert"
    /\ api' = upsert_partner_withdrawal(api, pc[p].client, pc[p].w)
    /\ Goes(p, Persisting(Idle))
    /\ UNCHANGED <<saved, pay, now, delivered, crowded, posts, restarts, budget>>

\* GET /api/v1/withdrawals/<id>: the withdrawal is copied, its transaction looked up.
GetWithdrawal(p, client) ==
    /\ p # Hook /\ pc[p] = Idle
    /\ api.withdrawals[client].state \in {"submitted", "accepted_for_relay"}
    /\ Goes(p, [at |-> "fetch", client |-> client, w |-> api.withdrawals[client]])
    /\ UNCHANGED <<api, saved, pay, now, delivered, crowded, posts, restarts, budget>>

\* Slip: the transaction of another thread's withdrawal is credited.
Refreshed_slip(p) == [api.withdrawals[pc[p].client] EXCEPT !.state = pay[pc[p].w.tx]]

Refreshed(p) == [pc[p].w EXCEPT !.state = pay[pc[p].w.tx]]

refresh_partner_withdrawal_state(p) ==
    /\ pc[p].at = "fetch"
    /\ IF pay[pc[p].w.tx] \in {"finalized", "rejected"}
       THEN /\ api' = upsert_partner_withdrawal(api, pc[p].client, Refreshed(p))
            /\ Goes(p, Persisting(Idle))
       ELSE Goes(p, Idle) /\ UNCHANGED api
    /\ UNCHANGED <<saved, pay, now, delivered, crowded, posts, restarts, budget>>

\* partner_webhook_worker takes the first job that is due and posts it without the mutex.
TakeJob ==
    LET m == prune_partner_state(api, now)
        due == {i \in 1..Len(m.queue) : m.queue[i].next <= now}
        post == IF due = {} THEN Idle ELSE [at |-> "post", job |-> m.queue[Min(due)]]
    IN  /\ pc[Hook] = Idle /\ m.queue # <<>>
        /\ due # {} \/ m # api
        /\ api' = m /\ crowded' = crowded \cup Crowded(api, now)
        /\ Goes(Hook, IF m # api THEN Persisting(post) ELSE post)
        /\ UNCHANGED <<saved, pay, now, delivered, posts, restarts, budget>>

backoff(attempt) == IF 2 ^ (attempt - 1) < MaxBackoff THEN 2 ^ (attempt - 1) ELSE MaxBackoff

\* Slip: the last failed attempt only removes the job.
DeadLetter_slip(dlq, q) == dlq

DeadLetter(dlq, q) == Append(dlq, [event |-> q.event, replays |-> q.replays, quarantined |-> FALSE, failed |-> now])

SameJob(queued, job) == queued.event.seq = job.event.seq /\ queued.attempt = job.attempt /\ queued.next = job.next

PostWebhook(success) ==
    LET job == pc[Hook].job
        found == {i \in 1..Len(api.queue) : SameJob(api.queue[i], job)}
        i == Min(found)
        q == api.queue[i]
        failed == [q EXCEPT !.attempt = @ + 1, !.next = now + backoff(q.attempt + 1)]
    IN  /\ pc[Hook].at = "post"
        /\ delivered' = IF success THEN delivered \cup {job.event} ELSE delivered
        /\ IF found = {} THEN Goes(Hook, Idle) /\ UNCHANGED api
           ELSE /\ Goes(Hook, Persisting(Idle))
                /\ api' = IF success THEN [api EXCEPT !.queue = RemoveAt(@, i)]
                          ELSE IF failed.attempt < MaxAttempts THEN [api EXCEPT !.queue[i] = failed]
                          ELSE [api EXCEPT !.queue = RemoveAt(@, i), !.dlq = DeadLetter(@, q)]
        /\ UNCHANGED <<saved, pay, now, crowded, posts, restarts, budget>>

\* POST /api/v1/webhooks/dlq/replay.
ReplayDeadLetter(p, i) ==
    LET d == api.dlq[i]
    IN  /\ p # Hook /\ pc[p] = Idle /\ ~d.quarantined
        /\ api' = IF d.replays >= MaxReplays THEN [api EXCEPT !.dlq[i].quarantined = TRUE]
                  ELSE [api EXCEPT !.dlq = RemoveAt(@, i), !.queue = Append(@, NewJob(d.event, d.replays + 1, now))]
        /\ Goes(p, Persisting(Idle))
        /\ UNCHANGED <<saved, pay, now, delivered, crowded, posts, restarts, budget>>

\* The process dies, perhaps while it writes the file, and starts from what the file says.
RestartExplorer(torn) ==
    LET file == IF torn THEN <<>> ELSE saved
    IN  /\ restarts < budget.restarts /\ restarts' = restarts + 1
        /\ torn => \E p \in Processes : pc[p].at = "write"
        /\ api' = IF file = <<>> THEN EmptyApi ELSE prune_partner_state(file, now)
        /\ crowded' = IF file = <<>> THEN crowded ELSE crowded \cup Crowded(file, now)
        /\ saved' = IF file = <<>> \/ api' = file THEN file ELSE api'
        /\ pc' = [p \in Processes |-> Idle]
        /\ UNCHANGED <<pay, now, delivered, posts, budget>>

\* The chain decides a relayed transaction; time passes.
SettlePayment(tx, outcome) ==
    /\ pay[tx] = "relayed" /\ pay' = [pay EXCEPT ![tx] = outcome]
    /\ UNCHANGED <<api, saved, pc, now, delivered, crowded, posts, restarts, budget>>

TickClock ==
    /\ now < budget.now /\ now' = now + 1
    /\ UNCHANGED <<api, saved, pc, pay, delivered, crowded, posts, restarts, budget>>

PaNext ==
    \/ \E p \in Processes : CopyState(p) \/ WriteState(p) \/ BindKey(p) \/ Upsert(p) \/ refresh_partner_withdrawal_state(p)
    \/ \E p \in Threads, key \in IdemKeys, body \in Bodies : PostWithdrawal(p, key, body)
    \/ \E p \in Threads, answer \in Answers : BroadcastWithdrawal(p, answer)
    \/ \E p \in Threads, client \in Clients : GetWithdrawal(p, client)
    \/ \E p \in Threads, i \in 1..Len(api.dlq) : ReplayDeadLetter(p, i)
    \/ TakeJob \/ TickClock
    \/ \E success \in BOOLEAN : PostWebhook(success)
    \/ \E torn \in BOOLEAN : RestartExplorer(torn)
    \/ \E tx \in PayTxs, outcome \in {"finalized", "rejected"} : SettlePayment(tx, outcome)

PaSpec == PaInit /\ [][PaNext]_paVars

-------------------------------------------------------------------------------
Waiting(seq) == {<<"queue", i>> : i \in {j \in 1..Len(api.queue) : api.queue[j].event.seq = seq}}
            \cup {<<"dlq", i>> : i \in {j \in 1..Len(api.dlq) : api.dlq[j].event.seq = seq}}

\* A finalized withdrawal is notified: until its event is older than the queue's TTL, the webhook
\* was posted or waits in exactly one of the queue and the dead letters, however the worker,
\* retries, replays, pruning and restarts interleave.  The exceptions are a queue above its limit,
\* which drops the oldest, and a file that cannot be parsed, with which the event is forgotten too.
NotifiedAtLeastOnce ==
    \A e \in Range(api.events) :
        /\ Cardinality(Waiting(e.seq)) <= 1
        /\ e.state = "finalized" /\ ~Expired(QueueTtl, e.ts, now) => Waiting(e.seq) # {} \/ e \in delivered \cup crowded

\* What is reported as finalized names a transaction that the chain finalized, although the
\* lookup and the update are apart and other requests replace the withdrawal in between.
ReportedIsFinal ==
    \A c \in Clients : api.withdrawals[c].state = "finalized" => pay[api.withdrawals[c].tx] = "finalized"
================================================================================
