# A TLA+ model of the Finalis node

Finalis is a proof-of-stake ledger with deterministic finality. Validators with a bond form a committee per
epoch; the committee finalizes one *frontier transition* per height in two voting phases; every node derives the
whole state (outputs, validators, rewards, availability) from the finalized records alone. This project models the
parts of the system whose correctness depends on interleaving, failure or long sequences of operations, checks them
with TLC on small instances and proves the main results with TLAPS for every value of the constants. All paths
below are relative to the repository; unless they start with `docs/` or `apps/`, they are under `src/`.

The modules are translated from the C++ code. The repository also carries specifications of its own (`formal/`);
nothing here is derived from them.

## 1. The system

| Component | State | Operations | Interacts with |
|---|---|---|---|
| Two-phase voting (`node/node_consensus.cpp`, `node/node.cpp`) | current round, candidate bodies, vote reservations, lock, valid polka | propose, prevote, precommit, finalize, re-gossip | safety store, vote trackers, round synchronisation, canonical derivation |
| Safety store (`node/node_state.cpp`, `storage/db.cpp`) | one sealed row per height in two copies, quarantine mark, write fence | durable batches before every vote, load at start | voting |
| Vote trackers (`consensus/votes.cpp`) | votes by round and validator, last round of each validator, limits | add, evict, clear | voting, round synchronisation |
| Round synchronisation (`node/node.cpp` event loop, `node/node_network.cpp`) | round timer, timed-out rounds, highest timeout certificate | timeout vote, certificate, f + 1 catch-up, reset on peer loss and reconnection | voting, peers |
| Peer manager (`p2p/peer_manager.cpp`, `node/node_network.cpp`) | connections, their handshake, queues and threads | dial, accept, handshake, send, broadcast, close | everything that sends |
| Finalized sync (`node/node_network.cpp`, `node/node_consensus.cpp`) | tips of peers, requests by height, buffered transitions | request, buffer, apply, score | peers, derivation |
| Validator registry (`consensus/validator_registry.cpp`, `utxo/validate.cpp`) | one entry per key, join queue, join window, liveness window | join, onboard, unbond, withdraw, slash, suspend, exit | canonical derivation, transactions, committee selection |
| Committee selection and leader schedule (`consensus/canonical_derivation.cpp`, `finalized_committee.cpp`, `committee_schedule.cpp`, `epoch_tickets.cpp`) | checkpoint per epoch, adaptive target and streaks, tickets and their difficulty | draw a committee, rotate leaders, fall back | registry, availability, voting |
| Canonical derivation (`consensus/canonical_derivation.cpp`) | the derived state | apply one finalized record, settle epochs, commit | all of the above |
| Ingress lanes (`node/node_ingress.cpp`, `consensus/ingress.cpp`, `storage/db.cpp`) | lane tips, certified records, equivocation evidence | certify, gossip, ask for ranges, truncate | mempool, derivation |
| Frontier execution, timed release (`consensus/frontier_execution.cpp`, `node/node_consensus.cpp`) | escrows, key sets, time signatures | seal, sign a final height, open, expire | registry, lanes |
| Availability retention (`consensus/availability_retention.cpp`) | operator states, retained prefixes, audits | warm up, probation, recover, assign | committee selection |
| Monetary policy (`consensus/monetary.cpp`, `confidential_supply.cpp`) | reserve, epoch rewards, confidential pool, base fee | accrue, settle, recycle | derivation |
| Mempool (`mempool/mempool.cpp`) | entries, spent outpoints, eviction index, bytes | admit, displace, evict, prune | lanes, derivation |
| Tree of outputs, light server (`crypto/smt.cpp`, `lightserver/server.cpp`) | the tree, change rows, the server's copy | update, publish, follow, prove | derivation, wallets |
| Light client, wallet (`consensus/light_client.cpp`, `wallet/light_verifier.cpp`, `wallet/verified_balance.cpp`) | trusted committees, what servers listed and proved | follow handoffs, verify, show | light servers |
| Desktop wallet (`apps/finalis-wallet/wallet_window.cpp`, `wallet_store.cpp`, `refresh_gate.cpp`) | sends not yet final with the coins they hold, time-locked sends, finalized history and its cursor | refresh, poll, send, cancel | light servers, timed release |
| Onboarding (`onboarding/validator_onboarding.cpp`) | a durable record per key | start, poll, cancel | registry, mempool |
| Partner API (`apps/finalis-explorer/main.cpp`) | idempotency keys, withdrawals, events, webhook queue and dead letters, a snapshot file | submit, refresh, deliver, replay, prune | light server |

What is hard in this code: votes must be durable before they leave the process, while a write may fail, be lost or
be replayed; resets on peer loss take a node back to round 0 of a height it has voted in; messages arrive in any
order, more than once, or never; a faulty member signs anything and a faulty peer sends anything; several threads of a
connection send and mark what they sent apart; several validators leave in one block while each check counts the others
as still there; a transaction is validated against one state and applied to another; a record races the opening of a
sealed one; windows, queues and buffers are at their limit; a chain that moves on between two requests of one answer.
`PROJECT.json` lists each such hazard at its line with the properties meant to catch it.

What makes each part correct is stated by the properties of section 3.

## 2. Modules

| Module | Models | Checked through |
|---|---|---|
| `CommitteeQuorum` | a committee, its faulty members, `quorum_threshold`, the f + 1 of the catch-up | everything about votes |
| `HeightFinality` | abstract: what finality promises at one height | refined by `TwoPhaseVoting` |
| `VotingRules` | abstract: when a member may sign a prevote or a precommit, with the signed votes as the only state | refined by `TwoPhaseVoting` |
| `TwoPhaseVoting` | the node code of one height: proposing, both votes, locks, valid values, finalization, timeouts, the durable row, resets, restarts | `MCTwoPhaseVoting` |
| `TimeoutVotes`, `RoundSync` | `TimeoutVoteTracker`; round timers, timeout votes, certificates, catch-up, re-gossip, peer loss, restarts | `MCRoundSync`, `MCPeers` |
| `PeerSessions` | the threads, handshake, queues and end of a connection between two nodes | `MCPeers` |
| `FinalizedSync` | catching up with the finalized chain | `MCPeers` |
| `ValidatorRegistry`, `ValidatorLifecycle` | the operations on a registry entry; how finalized blocks change the registry | `MCValidatorLifecycle`, `MCServices` |
| `Onboarding` | the onboarding service for one key | `MCServices` |
| `PartnerApi` | withdrawals, events and webhooks of the explorer | `MCServices` |
| `WalletSends` | refreshes, sends and the history of the desktop wallet | `MCServices` |
| `AvailabilityOperators` | operators, prefixes and audits | `MCChain` |
| `CommitteeCheckpoints` | the checkpoint of every epoch and the leader schedule | `MCChain` |
| `MonetarySettlement` | emission, fees, settlement, reserve, confidential pool | `MCChain` |
| `AdaptiveControls` | ticket difficulty and base fee | `MCChain` |
| `TimeSignatures` | signing final heights and openings, pools, pruning | `MCChain` |
| `Mempool` | admission, displacement, limits, pruning | `MCNode` |
| `IngressLanes` | one lane: certificates, gossip, ranges, blocks, truncation | `MCNode`, `MCIngressLanes` |
| `UtxoTree` | the sparse Merkle tree, its change rows and the server's copy | `MCNode` |
| `LightWallet` | handoffs and the verified balance | `MCNode` |
| `TimedRelease` | execution of a block with its escrows | `MCNode` |
| `NodeRestart` | the rows of the database, how a start reads, repairs and rewrites them, the two copies of the safety row | `MCNode` |
| `QuorumProofs`, `RoundSyncProofs`, `IngressLanesProofs` | theorems about the components they are named after | |
| `TwoPhaseVotingProofs` | theorems about `VotingRules` and `TwoPhaseVoting` | |
| `ServicesProofs` | theorems about `ValidatorLifecycle`, `Onboarding`, `PartnerApi` and `WalletSends` | |
| `PeersProofs` | theorems about `FinalizedSync` and `PeerSessions` | |
| `ChainProofs` | theorems about the components of `MCChain`, and about `TimedRelease` and `Mempool`, which share their lemmas on sums | |
| `NodeProofs` | theorems about `NodeRestart` and `LightWallet` | |

The `MC` modules of several components carry a variable `part`: a behaviour follows one component and leaves the others
in their initial state, so that one run asks the questions of several components without multiplying their states.

A definition whose comment starts with *Slip* is not part of a specification. It is a mistaken variant of the
definition below it (a dropped guard, a missing reset) and exists so that a property can be shown to notice the mistake.

### Two-phase voting

`TwoPhaseVoting` follows one height of a committee of two or more members. Each honest member has its memory
(`current_round`, `candidates`, `building`, `highest_tc`, ...) and its `store`: the safety row in memory, on disk, and
whether a write has failed. Actions are the handlers: `BuildProposal` and `SendProposal` (two critical sections of the
event loop, with anything in between), `HandlePropose`, `HandlePrevote`, `HandleVote`, `HandleFrontierBlock`,
`Rebroadcast`, `TimeoutVote`, `RecordTimeoutCertificate`, `CatchUpRound`, `PeerLossReset`, `Restart`,
`RestartWithDamage` (row unreadable, the height is quarantined). Each handler does everything the code does
in one call: a body may complete a polka and a precommit quorum that were waiting for it, so one `HandlePropose` can
store a valid value, lock, precommit, prevote and finalize.

*Messages are what has been signed.* A node acts on any subset of the signed messages, in any order, any number of
times; loss, duplication and reordering need no message queues. Faulty members count as having signed everything at
all times. A failed write is either lost or replayed when the database is opened again; both fence the store until the restart.

Left out: committees of one member (they finalize on their own path), the limits of `VoteTracker`, the two copies of
the row (one atomic row here, two in `NodeRestart`), bodies that fail validation, the repair mode, and test hooks.
The second check of a proposal, in the section that signs it, is modelled, but no property would notice its absence: votes and
finality are safe whatever a leader proposes, and a stale proposal is refused by those that have moved on.

### Start, storage and repair

`NodeRestart` is one node over several heights with what it has on disk: the rows of the genesis, the tip, the finalized
history row by row, the cached rows of the state with their commitment, and the safety rows in two copies with the
quarantine and the high-water mark. `Open` is `Node::init` with any options, `LoadTip` and `Replay` are `load_state` up to
the cache rows (fast start, full replay, repair of a tail whose lane records are gone), `RestoreSafety` the rest of it.
What a start writes is queued in `pending` and reaches the disk one row per `WriteRow`, so a crash falls between any two
rows; voting and finalizing write one durable batch, which may fail and then be there or not. A block is its height: the
chain does not fork here. A height has one round; later rounds are in `TwoPhaseVoting`. A fast start asks for the rows of all
heights where the code reads the window it retains, and the comparison of the lane tips (`node/node_state.cpp:266-291`)
is left out.

### Rounds, connections, sync

`RoundSync` keeps what `TwoPhaseVoting` abstracts away: what each node holds of the timeout votes. A tracker keeps the
votes of at most `MaxRoundsHeld` rounds and only the latest round of each member. `PeerLoss` and `Reconnect` put a node
back to round 0 and clear its votes, `Restart` clears everything. After a peer loss a vote from before it may or may not
still be remembered as seen. Proposals appear only through their effect on the round (`HandlePropose`), and that of an
honest leader arrives only while the leader is in the round it proposed in.

`PeerSessions` has, for each end of a connection, the thread that dialed or accepted it, the reader and the writer, and
per node the event loop that holds the mutex while it broadcasts. A frame is queued and only then marked as sent, by two
steps of the thread. Frames are VERSION, VERACK, `sync` (what `is_bootstrap_sync_msg` allows early) and `gossip`. Rate
limits, payload checks and bans are left out: both nodes are correct.

`FinalizedSync` has one node, honest and faulty peers, the requests by height with their round-robin cursor, and the
buffer. A transition is the finalized one (with or without its lane certificates) or a forged one; an id does not cover
the lane certificates, so the first two share it. Rate budgets only delay requests and are left out.

### Validator lifecycle, onboarding, partners, wallet

One block of `ValidatorLifecycle` is several steps in the order of `apply_frontier_record_impl`: `BeginBlock` (the
signers of the parent are counted, a liveness window may end, the join window moves, the least bond of the block is set),
`AdmitQueued` until the window is full or nobody is ready (`QueueDone`), the spends (`Unbond`, `Withdraw`, `Slash`), the outputs (`Onboard`, `Join`),
`EndBlock` (deferred exits at the end of an epoch, warm-ups and suspensions that end, genesis bonds that mature, the next
committee). `prev` is the registry transactions are validated against, `fresh` the outputs of the block itself, which the
registry loop cannot see. `MinBond` stands for `validator_min_bond_units` (`consensus/monetary.cpp:178-190`): the least bond moves with
the height, as the supply does, and grows with the active operators. A join is validated against the minimum and the registry of the
parent and registered against those of the block, so a join that was valid may have to wait (`can_register_bond`,
`bls_key_assignable`) while others that can register pass it. A BLS key belongs to the validator that registered it first.

Abstracted: how the minimum is computed, the proof that a BLS key is possessed, admission proof of work, signatures
(an owner acts on its own outputs, evidence exists against any registered key), the lien of long time locks (a
withdrawal is possible whenever the registry allows it), weights and tickets (any committee of the right size may be
drawn). A block is refused when no committee can be derived. Two floors that depend on the order of the keys are the
operator `Spared`: of validators that are all to leave, the one with the greatest key stays. Keys are numbers for that reason.

`Onboarding` is the durable record and the calls that advance it step by step; a call may crash after any step.
Payments arrive, the join transaction is built from the coins there are, relayed, lost, finalized or expires. The required amount
is fixed; an amount that grew over the coins already chosen shows as a build that fails, which may happen at any time.
`PartnerApi` has the critical sections of a request (key check, broadcast, update), a refresh, the webhook worker with its
retries, backoff, dead letters and their replay, and the snapshot file, each a step of its own. Keys, events and jobs expire by
their own ages, 0 meaning never, and pruning keeps one job per sequence number.

`WalletSends` is the bookkeeping of the desktop wallet. `refresh_chain_state` copies the local state and asks the servers
on another thread; `apply_refresh_result` is the result arriving on the window's thread, or `DropResult` when it is out of
date. Both refresh gates are kept (the latest request, an unchanged state). A send is two steps, `PlanSend` up to the
confirmation dialog and `ConfirmSend` after it, with results applied in between. Servers are at different heights, and one
refresh sees the tip, the pages and the statuses of one server at heights that never fall. Every write of the store is
separate: the `...Cut` operators are the stores a kill can leave, also in the middle of a cancellation. A transfer may be
cancelled although its pending spend has been given up, as `cancel_timed_send` does not look; the history variable `unheld`
names the spends that do so, which the reservation of coins says nothing of. A cancellation is three steps: the list is read
(`ListTimedSends`), an entry is chosen (`ChooseTimedSend`) and confirmed (`cancel_timed_send`), with results applied while either
dialog is open. A short lock opens in the block after its unlock height; a long one in any block of its grace period
(`LongGrace`; 480 blocks in the code). Coins are names; confidential coins, fees, and
the two minutes a send must be old before it is given up (which may always have passed) are left out.

### What finalized blocks drive

`AvailabilityOperators`, `CommitteeCheckpoints`, `MonetarySettlement` and `AdaptiveControls` are parts of
`apply_frontier_record_impl` and of the derivation of the next checkpoint. Inputs that come from elsewhere (registries,
how full a block was, which candidate wins a seat) are chosen freely. Percentages and thresholds are constants, integer
divisions are kept. Live derivation credits every audit as answered, so `AvailabilityOperators` has no other outcome. Two
choices are wider than the code: the bond of a registered operator may fall, and `AdaptiveControls` has epochs poorer
than blocks can make them.

`TimeSignatures` has the pools of signatures per height and per opening, the refusals that are remembered, pruning,
re-sending and restarts. `TimedRelease` is `execute_frontier_slice` over transfers and sealed envelopes: settlement
of short locks, openings, expiry, then the records, each loop in the order of the code.

### Pool, lanes, tree, wallet

`Mempool` reduces a transaction to what admission looks at. `IngressLanes` follows one lane of two nodes. Each epoch has a
designated certifier, to which transactions are routed; but a certificate is valid with the signature of any
member of the committee (`consensus/ingress.cpp:141-166`), so faulty members sign whatever links to a chain of signed records, in any
epoch. Certificates are told apart by content; one of the same content with other signatures is `resigned`. Evidence is written before
signatures are checked and never read again, so nothing is said of it. A range is read without the node's mutex; the
two erases of one truncated record are one step. In `UtxoTree` hashes are terms, the memo table of single-leaf paths is part of the state,
and a reference definition (the full tree over the outputs) is what the root is compared with. `LightWallet` asks an
honest server, whose chain moves on between requests, and a lying one that shows whatever signatures it can collect. That the
wallet also saves how far it verified when no server gave valid proofs is left out.

## 3. Runs

Deadlock checking is off in every run: heights, rounds, transactions and disruptions are bounded, so behaviours end.

| Run | Instance | Properties |
|---|---|---|
| `Rounds` | 2 members, 2 rounds, a proposal built in each, 1 reset or restart | `RulesSpec` (refinement): every vote the node signs is one the rules allow. `LockMovesForward` |
| `Storage` | 2 members, 1 round with two proposals, failing writes, 2 resets, cache of one body | `SignedVotesAreDurable`, `VotingInv` (the inductive invariant), `FinalityRefined` (refinement) |
| `FaultyLeader` | 4 members, the faulty one leads and equivocates, 1 restart, symmetric | `Agreement` |
| `Restarts` | 4 members, 1 down, 1 restart, fairness | `CertificateEndsRound`, `RoundsEnd` (liveness) |
| `Peers` | rounds: 4 members, 1 faulty, 1 down, rounds 0..2, 1 peer loss. Sync: an honest and a faulty peer, 2 heights, buffer of 3, 1 outage. Sessions: 1 connection, queues of 3 frames, 1 extra (a send, a break, a timeout) | `RoundsFollowCertificates`, `CurrentRoundKept`; `HonestNotScored`, `SyncCatchesUp` (liveness); `HandshakeHarmless`, `ConnectionsSettle` (liveness) |
| `Services` | registry: 1 validator, 2 keys that join up to twice, window of 1 join in 3 blocks, epochs of 3, 7 heights, 4 transactions, bonds of two sizes under a minimum that moves, 3 BLS keys. Onboarding: 3 coins, 4 heights, 1 crash. Partners: two POSTs with one key, or one with a restart and 2 ticks of the clock; 2 threads, a queue of 1, 2 attempts, 1 replay, ages of 1, 2 and 1 ticks. Wallet: 2 coins, 1 to 4 heights, in five mixes of payments, own transactions (plain, time-locked, cancelled, up to six), a grace period of 3, late servers, concurrent refreshes and kills | `JoinsNotStranded`, `ActiveSetFloor`, `NoQueueJumping`; `OneBondAtStake`; `NotifiedAtLeastOnce`, `ReportedIsFinal`; `HeldUntilGivenUp`, `HistoryExact` |
| `Chain` | 2 operators and 6 heights; 4 validators of 3 operators through consecutive checkpoints; 6 heights of settlement in epochs of 2; difficulty 0..3 and base fees to 20; 3 signers, 1 of them early, 1 long lock | `EligibleIsEarned`; `CommitteeFormed`, `TargetNeedsStreak`; `SupplyConserved`; `ControlsSteady`; `SecretUntilFinal`, `SignedBlocksGoOn` (liveness) |
| `Node` | pool of 3 of 7 transactions; a lane of 2 nodes with 2 transactions, 2 blocks in epochs of one, two schedules of certifiers and 1 fault (a crash or a certificate of a faulty member); trees of depth 3 with 4 keys; 2 servers and 3 heights; 7 blocks with 4 envelopes; a node with 4 heights in one epoch, a repair cap of 2 and 3 faults | `PoolConsistent`; `LanesFollowChain`, `BlocksApply`; `TipIsProvable`; `VerifiedIsReal`, `HonestNotBlamed`; `EscrowsEnd`, `NoForfeitByRace`; `StartedIsCanonical`, `RefusedForCause`, `NeverVotesTwice` |
| `PeerLoss`, `Burned`, `Refused`, `Truncated` | violations | section 6 |

*Why the bounds are enough.* Two rounds are the least in which a lock of one round meets a proposal of the next. Four
members is the smallest committee with a faulty one, two members the smallest in which a quorum is everybody, so a single
lost vote matters. Two resets let a write fail, be replayed and be followed by another crash. In `Peers` the round window
(1) is one smaller than the rounds held (2), as tight as the assumption allows; the code has 32 and 256. Two heights and
two peers are the least in which a height is buffered before its parent and a forged candidate precedes the real one. A
queue of three frames is full exactly when an established peer has read nothing since the handshake. In the registry the
bounds let every window (join, liveness, epoch, unbonding delay, cooldown) pass at least once, and a liveness window ends
both at the end of an epoch (block 3) and inside one (block 7); a queued join falls below a minimum that has risen
meanwhile. Two POSTs of one key is the least that can conflict; two attempts are the least with a retry and a dead letter. In the
run each node certifies in an epoch next to one of another member; with both nodes certifying in turn, and with two faults (4.6
million states), the lane gave the same results. A wallet
with two coins can seal one and pay the fee with the other; a time lock of one block opens, and two blocks more pass, within
four heights. In
`Chain` each streak of the committee target and of the difficulty can complete and break, and the year budget changes in the
middle of the run with budgets that do not divide. The trees have keys that part at the first, the second and the last
bit. The four envelopes are a short lock that can be raced, a long one, one that opens to garbage and one that only
reveals. Three faults let a vote be cast, its height be final, a lane record below it be lost and the start that repairs this
crash. What the bounds leave open, the theorems of section 4 close for most of the safety properties.

*Fairness.* `RoundSync`: weak fairness of `NodeStep(p)` for every running node, that is, of its round timer, its
reconnection and receiving what others re-gossip; proposals need not arrive. The event loop runs the timer on every tick,
a stalled node re-gossips its last rounds every 30 s, and connections are retried. `Timely` adds that a re-gossip arrives
before the next timer expires (30 s, growing to 300 s). `RoundsEnd` needs it: a tracker keeps only the latest round of each
member (`consensus/votes.cpp:113-121`), so a vote overtaken by a later one is refused for good, and with arbitrary delay a
certificate may never form at a node. It is checked with crashed, not Byzantine, members.
`FinalizedSync`: the event loop starts and notices that it lags, honest peers announce their tip with every keepalive and
reconnect, a retry timer runs out (weak), and an honest peer that is asked for the next height again and again answers
(strong: a request may be lost any number of times, not for ever). Nothing is assumed of the faulty peer.
`PeerSessions`: each thread that can run does, and a connection in the backlog is accepted or refused; read timeouts,
breaks and what the event loop sends are not assumed.
`TimeSignatures`: the loop of every honest node runs, the node follows the chain, a signature that is sent again every
few seconds arrives, and of the honest proposers that have what a block needs some one proceeds.

## 4. Theorems

Everything below is proved for any committee and any bounds, from the named assumptions of the modules: finite committee
of at least two, fewer than a third faulty (`CommitteeAssumption`); a tracker window smaller than the rounds it holds
(`SyncAssumption`); keys ordered so that finite sets of them have a greatest one, windows of at least one block
(`RegistryAssumption`, `LifecycleAssumption`), and a least bond that does not fall when more validators are active
(`MinBondAssumption`); fewer early signers than the threshold of any key set
(`TimeSignaturesAssumption`) and no corrupt quorum in any committee of the chain (`LightAssumption`); a search for lost
safety rows that is longer than an epoch (`SpanAssumption`: 64 heights against 32 in the code); more than four iterations of an
onboarding call (`OnboardingAssumption`: 16 in the code); transactions told apart by their ids (`MempoolAssumption`); epochs of at
least one block and ranges of at least one record (`LanesAssumption`, which asks nothing of who signs); transactions
and envelopes told apart by ids that no output at the start is named after, each transaction with an input, as
`utxo/validate.cpp` demands (`TimedReleaseAssumption`). The rest of the
assumptions only says which constants are numbers and which sets are finite.

**Quorums** (`QuorumProofs`). Two quorums share an honest member; f + 1 members hold an honest one.

**Voting rules** (`CertificatesAgree`). No two finality certificates conflict. Agreement is not inductive. `RulesInv` adds: one
vote per round and kind; precommits have polkas; every prevote and every polka above a precommit respects it; and
`NoPolkaPastOpenQuorum`: while a quorum of members *may still* precommit a transition in a round, no other transition has
a polka in a later one. That last conjunct is what carries agreement over rounds: the set of members that may still
precommit only shrinks, and a polka for another transition needs a member outside it.

**Node code** (`ImplementsRules`, `SafeFinality`, `DurableVotes`, `ImplementsFinality`). Every step of `TwoPhaseVoting` is a step
of `VotingRules` or leaves the votes alone, so agreement carries over. The invariant is `Backed`: while a node can sign, the row in
memory and the row on disk cover every vote it signed; once a write has failed, what is on disk is the old row or the row
that was being written; a quarantined height signs nothing. With it, the guards the code evaluates on the row imply the
guards of the rules, which speak of votes. Finality is refined because a finalized row is durable before it is published.
`LocksMoveForward` follows from the same invariant: a row is replaced only by one with a later lock and its polka.

**Round synchronisation** (`RoundsAreCertified`, `CurrentVotesKept`). Trackers hold only votes that were signed, inside the window;
an honest member signs a timeout vote only for rounds behind a certificate. The induction needs both at once: f + 1
votes contain an honest one, whose own round was certified. The theorem is about honest leaders: a faulty leader that
re-proposes a valid value with its polka is followed to any later round it leads, without a timeout certificate.
`CertificatesEndRounds` says that until the first loss of all peers nobody waits in a round it holds a certificate of; after
one the property fails, which the run `PeerLoss` shows.

**Validator lifecycle** (`FloorHolds`, `QueuedNotStranded`, `QueueInOrder`, `TypeInvariant`). `ActiveSetFloor` needs `ExitingStaysOut`: a
validator that was EXITING in the parent's registry is not active at any step of the block, even if the end of a liveness
window has just made it SUSPENDED, so the withdrawal that this registry allows takes nobody out of the active set. The
floors themselves need that of a non-empty set of keys one is the greatest. `NoQueueJumping` is about the joins that could
register in the block (`NewReady`): those that meet its minimum and whose BLS key is free. It needs
`NewWaitsOnlyWhenFull`: once the queue has been served, such a join waits only if the window is full, so the joins
of the block cannot register either; and that within a block nothing becomes ready, as the minimum is set at its start and
BLS keys are only ever taken. `QueuedNotStranded` has to exempt a join whose BLS key another validator registered first.

**Onboarding** (`OnboardingBonds`). `OnInv` follows the record in the memory of the call, or the durable one between calls: as long as
no call has crashed, every accepted transaction spends its inputs, and it is in a state from which they are not chosen again.
A call never persists a state between the choice of inputs and the broadcast, which is why a record that can be cancelled has
nothing out. Each such state has a greatest number of iterations to come to it, four in all; and a transaction is broadcast in the
epoch it was built in, so it is not found expired before it was sent.

**Partner API** (`ReportsAreFinal`). Lookup, update, snapshot and write are apart, so the invariant is about every copy of a withdrawal:
in memory, in the file, in the snapshot a thread is about to write and in the hands of a request. Each that says finalized names a
transaction that is, and what is final stays final. `NotifiedAtLeastOnce` has no theorem yet: its
invariant has to follow every job through the queue, the dead letters, the worker, the snapshots and the file.

**Memory pool** (`PoolStaysConsistent`). The entries of a pool spend disjoint inputs, so erasing the marks of some leaves exactly the
marks of the others, and their bytes add up (the lemmas on sums below). Fee rates are compared crosswise; that this is a strict total
order gives a full pool its worst entry, and that the cheap test uses a lower weight makes it refuse less than the full one. The
turnstile prunes only when its value changes: the pool's value is always the finalized one, so that is enough.

**Peers** (`HonestPeersKept`, `SessionsHarmless`). An honest peer is scored only if a candidate under its name is refused, so
the invariant says of every buffered candidate, request and answer whose it is: what carries an honest name is the finalized
block of its height. Of a handshake it says what the frames on the way are, in order, given how far each end has got: at
most one VERSION and one VERACK, nothing of the event loop before them.

**What finalized blocks drive** (`NothingOpensEarly`, `EligibilityEarned`, `TargetsNeedStreaks`, `CommitteesFormed`,
`SupplyIsConserved`, `ControlsAreSteady`). All safety properties of `Chain`. Two of them need a result about a definition that is
recursive over data: the loop over the audits of an epoch, and the sum over the members of a committee. Induction theorems
that take a predicate cannot be used, so the predicate is made a set: of the numbers up to which the loop counts rightly, or of
the subsets for which the library's fold is additive; that it contains 0 or the empty set and is closed under one step more makes it
everything, by the well-foundedness of the numbers. `SupplyIsConserved` then sums: a settlement pays each member its share rounded down and
the rest goes to the reserve, and the emission so far is the closed form of the years begun. `CommitteesFormed` rests on
a bijection between the candidates and the operators that have one; `TargetsNeedStreaks` on the counters naming the latest
entries of the history, although the history itself is cut.

**Timed release** (`TimedReleaseInvariant`, `EscrowsAllEnd`, `NobodyIsRaced`). A block is three loops: settlements, openings, records.
They are unwound over the subsets of what they go through, and each step keeps `Books`: outputs, pool, fees and the bonds
in escrow add up. That needs that no output is ever written over, hence the names outputs have had (`Names`): whoever is
among them has spent its inputs for good, so nothing applies twice, and the refund of a waiting escrow has no name yet. For the
race the invariant of the settlements (`Unraced`) says that every consumed output is an input of a body applied in this block, that the rest
is as it was before the block, and that a forfeited body was disturbed by one applied before it. The settlement of a block
takes an escrow once, as the short locks that are due, the openings within the grace period and the long locks past it are disjoint.

**Start and repair** (`RestartInvariant`, `VotesOnce`, `StartsCanonical`). A start writes its rows one by one and may be killed
between any two, so the invariant says for every stage which writes are left (`WritesInv`) and what tip, frontier and
cached rows have to do with each other (`HistoryInv`). `VotesInv` is what makes `NeverVotesTwice` inductive: every vote that no
operator discarded is below the high-water mark and within the span of any start, because a repair never goes back beyond the
epoch of the cached rows; so its row records it, or a start finds the row missing and puts the height in quarantine.
`StartsRefusedForCause` adds `CauseInv`: as long as no crash has torn the genesis or a repair, the rows of every height up to the
tip belong together, also in the middle of what a start is writing (`WholeRows`, `GenesisProgress`, `RepairProgress`). The first height
that cannot be loaded then has lost its lane record, and a start that does not repair it has met the cap or the floor of the epoch.

**Ingress lanes** (`LanesInvariant`, `LanesFollow`, `BlocksAlwaysApply`). `LanesInv` says of a node's lane that its records are a chain with
epochs in order, that a truncation keeps exactly the finalized records, and that without a crash nothing is missing below the tip
outside a running truncation. It assumes nothing of who signs: any member may be faulty in any epoch. `BlocksAlwaysApply` adds that
the finalized records are linked (`LinkedInv`): what a block stores next links to the root of the records before it, and that is the root
a lane has once what gossip left above them is truncated and its state rewound.

**Desktop wallet** (`CoinsReserved`, `HistoryIsExact`). The store is written row by row, a refresh is computed from a copy and a send
waits for its dialog, so `WalletInv` is about all of them: a result that is applied was made from the store as it is;
every live send has its row as recorded (`KeptInv`); rows hold different coins, but for the spends in `unheld` (`HoldsInv`);
the transaction of an open dialog has the next name and free coins (`DialogInv`). `HeldUntilGivenUp` speaks of the sends the wallet has not
given up: a short lock has opened or failed by then, for a long lock it promises nothing after two blocks (section 6). For the history, the cursor covers whole
blocks, and records beyond the stored count are the beginning of what follows (`CoversTo`): an append that was cut is completed, and a
record found twice makes the wallet rebuild the list instead. `tornRebuild` stays the one exception.

**Light wallet** (`VerifiedCoinsAreReal`, `HonestServersKept`). The checkpoints are committees of the chain (`TrustOK`), so a
transition that was made up never verifies: its signatures are at most those of the corrupt members, and a finality certificate names another
transition. What an honest server sends always verifies. While a balance is being proven, the list is exactly what the servers
claimed, and each status is the one at a height of the proof.

*Only model-checked:* the liveness properties (`RoundsEnd`, `SyncCatchesUp`, `ConnectionsSettle`, `SignedBlocksGoOn`: fairness is
outside the prover); `TipIsProvable`, whose tree operations are recursive operators, which the prover does not take; and
`NotifiedAtLeastOnce`, as said above.

## 5. Properties and the mistakes they notice

Each property of a passing run has a mutant in `PROJECT.json`: a slip in one definition that makes TLC report that property.
They include quorums rounded down, a lock that is ignored, a prevote sent before it is recorded, a row published before it
is durable, a certificate that does not end its round, a catch-up on one vote, a window that is not checked, joins that are
dropped, exits without a floor, a bond copied too early, a streak that is not reset, a pool that pays and
keeps a unit, a repeated candidate charged to the wrong peer, one peer asked at a time for
ever, frames sent before the handshake allows them, a handler that takes a mutex twice, a proof one level too
short, cached rows accepted by their height alone, a repair cap off by one, a height without a row taken for one without a
vote, a refresh applied after the state changed, a sealed transfer dated like any other
send, a webhook removed after its last failed attempt, a lane whose state is not rewound after a truncation, signatures counted twice, a signature made a height early or pruned a height early, and an escrow that ends a block
early or after the records.

## 6. Disagreements between code and documents

Shown by a run:

- `PeerLoss`: `highest_tc_by_height_` survives the reset that takes the round back to 0; the same certificate, collected
  again, does not end the round again (`docs/spec/TWO_PHASE_FINALITY.md:107`).
- `Burned`: a bond unbonded and slashed in the same block is burned without the registry noticing; its owner stays active
  until the exit takes effect and is never banned (`docs/CONSENSUS.md:326-329`).
- `Refused`: an operator that becomes ACTIVE on its audit counts with a score below the eligibility minimum makes the
  derived state fail its own validation (`docs/spec/AVAILABILITY_STATE_COMPLETENESS.md`).
- `Truncated`: a crash while a lane is truncated leaves a tip above records that are gone and are never asked for again
  (the comment at `node/node_ingress.cpp:570-573`).

Noticed while modelling, without a run of their own:

- The rounds a node timed out of are memory only, while `docs/spec/TWO_PHASE_FINALITY.md:61-72` lists them in the durable
  state; a restarted node votes in a round it has timed out of. A leader whose round restarts proposes a fresh transition
  although it has a valid value (`node/node.cpp:1719`, `TWO_PHASE_FINALITY.md:78`). Votes stay safe in both cases.
- A long-lock time signature that arrives when the receiver is one block behind, or just after the opening was settled, is
  refused as that of an outsider, its payload is remembered as invalid and every re-send is scored
  (`node/node_consensus.cpp:1190-1223`, `1261-1265`; `docs/CONSENSUS.md:333-336` says such signatures are accepted).
- Light wallet: pages of proofs, the list of coins and the status are separate requests, so an honest server can be
  blamed when the chain moves between them, within what `HonestNotBlamed` excludes; with no claims at all a balance is
  "verified" at height 0 (`wallet/verified_balance.cpp`).
- `ingress-first-seq-must-be-one` (`consensus/ingress.cpp:285-288`) is a peer fault although `node/node_ingress.cpp:40-42`
  says that lag is not penalized.
- Equivocation evidence is written before the signatures of the record are checked (`node/node_ingress.cpp:451-476`, `929-937`,
  `consensus/ingress.cpp:258-271`), and a certificate is valid with the signature of any member
  (`consensus/ingress.cpp:141-166`); so a stored pair does not show that the certifier of its epoch was faulty.
  `docs/PROTOCOL-SPEC.md:139-143` and `docs/ADVERSARIAL_MODEL.md:254` only say that it is persisted.
- A deferred exit keeps the height of the request as `unbond_height` (`consensus/canonical_derivation.cpp:836`). A queued join below a
  minimum that has risen waits, and others pass it, as the comment at `695-696` says. A join whose BLS key another validator registers in
  the same block, or while it is queued, never registers, and its output can neither be unbonded nor withdrawn.
- Onboarding: a crash between the broadcast and the write of its outcome leaves no trace of the attempt; `FAILED` is
  never left although the timeout error says `retryable=yes`; join requests are never erased, so a key that joins again
  goes to `PENDING_ACTIVATION` at once.
- Partner API: the key check and the broadcast are separate critical sections, so two concurrent POSTs with one key and
  different bodies are both broadcast (`docs/integrations/PARTNER_API_V1.md:61`); the snapshot file is rewritten in place. A webhook is lost when
  the queue is over its limit, which drops the oldest job, and when a crash tears the file, although delivery is "at-least-once"
  (`apps/finalis-explorer/main.cpp:5845-5849`,
  `docs/integrations/PARTNER_API_V1.md:120`, `apps/finalis-explorer/README.md:340`). After a crash between
  a POST and the write of the file, the sequence number, and with it the `delivery_id` receivers deduplicate by, may be given to another event.
- Connections: `CONNECTED` is raised after the reader runs, so a connection that ends at once may raise `DISCONNECTED`
  first and leave its cache entries for good. A node with other consensus rules is rejected with a close that drains,
  during which a sync frame of it can be scored although the rejection is not. `PeerDiscipline::add_score` restarts
  the decay with every point, so points given more often than every 30 s never decay.
- Start and repair: `rollback_frontier_tail_from_transition` erases row by row without a batch, so a crash in it leaves a
  tip whose rows are gone and every later start refuses (`node/node_state.cpp:151-208`, `917`). `init_mainnet_genesis`
  writes its marker before the tip; a crash in between makes `load_state` set a tip with the zero hash, refused from then
  on (`825-840`, `907-911`, `817`). A repair of block 1 ends the same way. Rows of validators are put and never
  erased, so after a repair, or a crash between the commitment and the cache rows, a start with `--no-reindex` refuses
  (`1149-1159`, `1231-1234`). No repair is possible when the tip is the last block of an epoch: the floor is the tip.
- Desktop wallet (`apps/finalis-wallet/wallet_window.cpp`): the poll of the tip (`1917`, `1927`), the start and a send store the new tip
  before the refresh they lead to copies it as the previous one (`5156`), so that refresh sees no change of the tip
  (`4617`) and neither fetches new history nor gives up lost sends; a later one does. A kill while a history that has a
  cursor is written anew leaves a gap no later fetch fills (the exception in `HistoryExact`). A send that was given up is
  logged as finalized (`4990`). A rejected send is neither final nor unknown and holds its coins for good. Nothing is
  recorded of a broadcast no server answered, nor by a kill right after it. A kill in `cancel_timed_send` between the removal of
  the sealed transfer's pending spend (`3946`) and the row of the cancelling spend (`3950`) leaves the coins free although the
  transfer is still listed (`apps/finalis-wallet/README.md:106`: "Its coins stay reserved until it opens"). A long lock may open later than two blocks after its unlock height,
  within its grace period of 480 blocks (`consensus/frontier_execution.hpp:75-80`), while its coins are free again (`4808`; the comment at
  `6874-6876` says they "stay reserved until the transfer has opened", the wallet's README at `106-108` says the same).
- The emergency rule that would reuse the prior committee is never reached (`consensus/canonical_derivation.cpp`).

## 7. Plan

Modelled in this order: voting, store and rounds; the registry; then what finalized blocks drive; sync, lanes and pool;
the tree, the light wallet and timed release; onboarding, the partner API; connections; starting from disk; the sends of the
desktop wallet. What is left, by how much it would add:

1. `VoteTracker` and vote gossip: eviction and the limits of prevotes and precommits.
2. The import of a snapshot and the migration of old databases, with a crash at every write.
3. Epoch tickets: search, gossip and reconciliation; addresses, bans and dialing.
4. Theorems: `NotifiedAtLeastOnce`.

## 8. Not modelled

Byte formats, codecs and single-transaction checks (no state beyond one message); cryptography (signatures are
unforgeable, hashes injective); the read-only RPC of the light server and the pages of the explorer (they format finalized
state); the windows, key files and confidential coins of the wallet; the command line tool, the installer and NAT code, SDK, fuzzers and
scripts. By lines these are most of the repository: the wallet window, the explorer, the command line tool, the light
server and the table encodings of `storage/db.cpp` alone are more than 25,000 of its 83,000 lines, and hold next to no
protocol state. The model covers the state they read, and where they keep state of their own (partner API, verified
balance, sends of the wallet, the server's tree) that is modelled.
