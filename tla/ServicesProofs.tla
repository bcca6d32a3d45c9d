---------------------------- MODULE ServicesProofs ----------------------------
(* ValidatorLifecycle: the active set floor and the promise of the join queue,  *)
(* for any number of keys, blocks and transactions.  Onboarding: OneBondAtStake *)
(* for any outputs, heights and crashes.  PartnerApi: ReportedIsFinal for any   *)
(* threads, clients, limits and restarts.  WalletSends: the coins of recorded   *)
(* sends and the finalized history, for any coins, servers, refreshes and kills.*)
EXTENDS ValidatorLifecycle, Onboarding, PartnerApi, WalletSends, FiniteSetTheorems, SequenceTheorems, TLAPS

-----------------------------------------------------------------------------
(* The registry operations on one entry *)

\* Whole windows since a start are a natural number of blocks.
LEMMA WholeWindows ==
    ASSUME NEW a \in Nat, NEW b \in Nat \ {0}
    PROVE  (a \div b) * b \in Nat
<1>1. a \div b \in Nat
  BY SMT
<1> QED
  BY <1>1, SMT

\* Every operation of the registry returns an entry.
LEMMA EntryOperations ==
    ASSUME NEW v \in Entries, NEW x \in Nat, NEW o \in OutPoints, NEW b \in BlsKeys
    PROVE  /\ register_onboarding(v, b, x) \in Entries
           /\ register_bond(v, o, b, x) \in Entries
           /\ request_unbond(v, x) \in Entries
           /\ finalize_withdrawal(v) \in Entries
           /\ ban(v, x) \in Entries
           /\ advance_height(v, x) \in Entries
<1>1. Latest(v.unbond, x) \in Nat /\ Latest(v.exit, Latest(v.unbond, x)) \in Nat
  BY DEF Latest, Entries
<1>2. register_onboarding(v, b, x) \in Entries
  BY DEF register_onboarding, Entries, Statuses
<1>3. register_bond(v, o, b, x) \in Entries
  BY DEF register_bond, Entries, Statuses
<1>4. request_unbond(v, x) \in Entries
  BY DEF request_unbond, Entries, Statuses
<1>5. finalize_withdrawal(v) \in Entries
  BY DEF finalize_withdrawal, Entries
<1>6. ban(v, x) \in Entries
  BY <1>1 DEF ban, Entries, Statuses
<1>7. advance_height(v, x) \in Entries
  BY DEF advance_height, Entries, Statuses
<1> QED
  BY <1>2, <1>3, <1>4, <1>5, <1>6, <1>7

\* An entry that is active at a height is active at the next one.
LEMMA ActiveLater ==
    ASSUME NEW v \in Entries, NEW x \in Nat, is_effectively_active(v, x)
    PROVE  is_effectively_active(v, x + 1)
  BY RegistryAssumption DEF is_effectively_active, Entries

\* Reaching a height keeps an entry that is active there active.
LEMMA ActiveAdvances ==
    ASSUME NEW v \in Entries, NEW x \in Nat, is_effectively_active(v, x)
    PROVE  is_effectively_active(advance_height(v, x), x)
  BY RegistryAssumption DEF is_effectively_active, advance_height, Entries

\* A loop with the floor leaves some active key in place.
LEMMA SomeoneStays ==
    ASSUME NEW r, NEW leaving, NEW x, active_sorted(r, x) # {}
    PROVE  \E k \in active_sorted(r, x) : k \notin leaving \/ k \in Spared(r, leaving, x)
<1>1. active_sorted(r, x) \in SUBSET Keys
  BY DEF active_sorted
<1>2. PICK k \in active_sorted(r, x) : \A j \in active_sorted(r, x) : j <= k
  BY <1>1, RegistryAssumption
<1>3. CASE active_sorted(r, x) \subseteq leaving
  BY <1>2, <1>3 DEF Spared
<1>4. CASE ~(active_sorted(r, x) \subseteq leaving)
  BY <1>4
<1> QED
  BY <1>3, <1>4

-----------------------------------------------------------------------------
(* Types *)

\* Being judged leaves an entry.
LEMMA JudgedEntry ==
    ASSUME NEW v \in Entries, height \in Nat
    PROVE  Judged(v) \in Entries
<1>1. h \in Nat /\ h + SuspendFor \in Nat
  BY LifecycleAssumption DEF h
<1>2. [v EXCEPT !.status = IF SameEpoch THEN @ ELSE "EXITING", !.unbond = h, !.exit = h] \in Entries
  BY <1>1 DEF Entries, Statuses
<1>3. [v EXCEPT !.status = "SUSPENDED", !.until = h + SuspendFor] \in Entries
  BY <1>1 DEF Entries, Statuses
<1>4. CASE MissesToExit(v)
  BY <1>2, <1>4 DEF Judged, MissesToSuspend
<1>5. CASE ~MissesToExit(v) /\ MissesToSuspend(v)
  BY <1>3, <1>5 DEF Judged
<1>6. CASE ~MissesToExit(v) /\ ~MissesToSuspend(v)
  BY <1>6 DEF Judged
<1> QED
  BY <1>4, <1>5, <1>6

\* New counters leave an entry.
LEMMA CountersEntry ==
    ASSUME NEW v \in Entries, NEW a \in Nat, NEW b \in Nat
    PROVE  [v EXCEPT !.eligible = a, !.seen = b] \in Entries
<1> DEFINE w == [v EXCEPT !.eligible = a]
<1>1. w \in Entries
  BY DEF Entries
<1> HIDE DEF w
<1>2. [w EXCEPT !.seen = b] \in Entries
  BY <1>1 DEF Entries
<1> QED
  BY <1>2 DEF w

LEMMA CountedType ==
    ASSUME TypeOK, NEW signers
    PROVE  Counted(signers) \in [Keys -> Entries]
<1> SUFFICES ASSUME NEW k \in Keys
             PROVE  Counted(signers)[k] \in Entries
  BY Zenon DEF Counted
<1>1. reg[k] \in Entries
  BY DEF TypeOK
<1> DEFINE w == [reg[k] EXCEPT !.eligible = @ + 1, !.seen = IF k \in signers THEN @ + 1 ELSE @]
<1>2. w \in Entries
  <2>1. reg[k].eligible + 1 \in Nat /\ (IF k \in signers THEN reg[k].seen + 1 ELSE reg[k].seen) \in Nat
    BY <1>1 DEF Entries
  <2> QED
    BY <1>1, <2>1, CountersEntry, Zenon
<1>3. Counted(signers)[k] \in {w, reg[k]}
  BY DEF Counted
<1> QED
  BY <1>1, <1>2, <1>3

LEMMA RolledType ==
    ASSUME height \in Nat, NEW r \in [Keys -> Entries]
    PROVE  Rolled(r) \in [Keys -> Entries]
<1> SUFFICES ASSUME NEW k \in Keys
             PROVE  Rolled(r)[k] \in Entries
  BY Zenon DEF Rolled
<1> DEFINE judged == {j \in Keys : MissesToExit(r[j]) \/ MissesToSuspend(r[j])}
           w == IF k \in Spared(r, judged, h + 1) THEN r[k] ELSE Judged(r[k])
<1>1. w \in Entries
  BY JudgedEntry
<1>2. Rolled(r)[k] = [w EXCEPT !.eligible = 0, !.seen = 0]
  BY Zenon DEF Rolled
<1> HIDE DEF w
<1>3. [w EXCEPT !.eligible = 0, !.seen = 0] \in Entries
  <2>1. 0 \in Nat
    OBVIOUS
  <2> QED
    BY <1>1, <2>1, CountersEntry, Zenon
<1> QED
  BY <1>2, <1>3, Zenon

LEMMA DeparturesType ==
    ASSUME height \in Nat, NEW r \in [Keys -> Entries]
    PROVE  Departures(r) \in [Keys -> Entries]
<1> SUFFICES ASSUME NEW k \in Keys
             PROVE  Departures(r)[k] \in Entries
  BY DEF Departures
<1>1. r[k] \in Entries
  OBVIOUS
<1>2. [r[k] EXCEPT !.status = "EXITING"] \in Entries
  BY <1>1 DEF Entries, Statuses
<1>3. Departures(r)[k] \in {r[k], [r[k] EXCEPT !.status = "EXITING"]}
  BY DEF Departures
<1> QED
  BY <1>1, <1>2, <1>3

LEMMA LeaveType ==
    ASSUME height \in Nat, NEW r \in [Keys -> Entries], NEW k \in Keys
    PROVE  Leave(r, k) \in Entries
<1>1. h \in Nat /\ r[k] \in Entries
  BY DEF h
<1>2. request_unbond(r[k], h) \in Entries
  BY <1>1 DEF request_unbond, Entries, Statuses
<1>3. [r[k] EXCEPT !.unbond = IF @ = 0 THEN h ELSE @, !.exit = Latest(@, h)] \in Entries
  BY <1>1 DEF Latest, Entries
<1> HIDE DEF h
<1> QED
  BY <1>1, <1>2, <1>3 DEF Leave

LEMMA WindowType ==
    ASSUME TypeOK
    PROVE  advance_validator_join_window \in [start : Nat, count : Nat]
<1>1. CASE h < joins.start + JoinWindow
  BY <1>1 DEF advance_validator_join_window, TypeOK
<1>2. CASE ~(h < joins.start + JoinWindow)
  <2>1. h - joins.start \in Nat /\ JoinWindow \in Nat \ {0} /\ joins.start \in Nat
    BY <1>2, LifecycleAssumption DEF TypeOK, h
  <2>2. ((h - joins.start) \div JoinWindow) * JoinWindow \in Nat
    BY <2>1, WholeWindows
  <2> QED
    BY <1>2, <2>1, <2>2 DEF advance_validator_join_window
<1> QED
  BY <1>1, <1>2

\* The registry of a block's end.
LEMMA EndType ==
    ASSUME TypeOK, NEW k \in Keys
    PROVE  Matured(advance_height(Departures(reg)[k], h + 1)) \in Entries
<1>1. Departures(reg)[k] \in Entries
  BY DeparturesType DEF TypeOK
<1>2. h + 1 \in Nat
  BY DEF TypeOK, h
<1>3. advance_height(Departures(reg)[k], h + 1) \in Entries
  BY <1>1, <1>2 DEF advance_height, Entries, Statuses
<1> DEFINE v == advance_height(Departures(reg)[k], h + 1)
<1>4. finalize_withdrawal(v) \in Entries
  BY <1>3 DEF finalize_withdrawal, Entries
<1> HIDE DEF v
<1> QED
  BY <1>3, <1>4 DEF Matured, v

\* The registry, the outputs, the windows and the committees stay what the code's types
\* say through every step of every block.
THEOREM TypeInvariant == Spec => []TypeOK
<1>1. Init => TypeOK
  <2> SUFFICES ASSUME Init
               PROVE  TypeOK
    OBVIOUS
  <2>1. Unregistered \in Entries /\ GenesisEntry \in Entries
    BY DEF Unregistered, GenesisEntry, Entries, Statuses
  <2>2. \A k \in Settled : <<k, 1>> \in OutPoints /\ BlsOf[<<k, 1>>] \in BlsKeys
    BY LifecycleAssumption DEF OutPoints
  <2>3. \A k \in Settled : SettledEntry(k) \in Entries
    BY <2>1, <2>2 DEF Entries, SettledEntry
  <2>4. reg \in [Keys -> Entries]
    BY <2>1, <2>3 DEF Init
  <2>5. committee \subseteq Keys
    BY LifecycleAssumption DEF Init, Committees
  <2> QED
    BY <2>4, <2>5 DEF Init, TypeOK, Phases
<1>2. TypeOK /\ [Next]_vars => TypeOK'
  <2> SUFFICES ASSUME TypeOK, [Next]_vars
               PROVE  TypeOK'
    OBVIOUS
  <2>h. h \in Nat /\ h + 1 \in Nat
    BY DEF TypeOK, h
  <2>o. \A o \in OutPoints : Owner(o) \in Keys
    BY DEF OutPoints, Owner
  <2>1. ASSUME NEW signers \in SUBSET parent, BeginBlock(signers)
        PROVE  TypeOK'
    <3>1. Counted(signers) \in [Keys -> Entries] /\ Rolled(Counted(signers)) \in [Keys -> Entries]
      BY CountedType, RolledType DEF TypeOK
    <3>2. reg' \in [Keys -> Entries]
      BY <2>1, <3>1 DEF BeginBlock
    <3>3. liveStart' \in Nat
      <4>1. CASE parent # {} /\ RollsOver
        <5>1. h + 1 - liveStart \in Nat /\ LivenessWindow \in Nat \ {0} /\ liveStart \in Nat
          BY <4>1, <2>h, LifecycleAssumption DEF RollsOver, TypeOK
        <5>2. ((h + 1 - liveStart) \div LivenessWindow) * LivenessWindow \in Nat
          BY <5>1, WholeWindows
        <5> QED
          BY <2>1, <4>1, <5>1, <5>2 DEF BeginBlock
      <4>2. CASE ~(parent # {} /\ RollsOver)
        BY <2>1, <4>2 DEF BeginBlock, TypeOK
      <4> QED
        BY <4>1, <4>2
    <3>4. joins' \in [start : Nat, count : Nat]
      BY <2>1, WindowType DEF BeginBlock
    <3>5. minBond' \in Nat
      <4>1. h \in 0..MaxHeight
        BY <2>1, LifecycleAssumption DEF BeginBlock, TypeOK, h
      <4>2. active_sorted(reg', h) \in SUBSET Keys
        BY DEF active_sorted
      <4>3. minBond' = MinBond(h, active_sorted(reg', h))
        BY <2>1 DEF BeginBlock
      <4> QED
        BY <4>1, <4>2, <4>3, MinBondAssumption
    <3> QED
      BY <2>1, <3>2, <3>3, <3>4, <3>5 DEF BeginBlock, TypeOK, Phases
  <2>2. ASSUME NEW o \in OutPoints, Register(o)
        PROVE  reg' \in [Keys -> Entries] /\ joins' \in [start : Nat, count : Nat]
    <3>1. register_bond(reg[Owner(o)], o, BlsOf[o], h) \in Entries
      BY <2>h, <2>o, EntryOperations, LifecycleAssumption DEF TypeOK
    <3>2. reg' \in [Keys -> Entries]
      BY <2>2, <2>o, <3>1 DEF Register, TypeOK
    <3> QED
      BY <2>2, <3>2 DEF Register, TypeOK
  <2>3. CASE AdmitQueued
    <3>1. PICK q \in Ready : Register(q.out) /\ queue' = queue \ {q}
      BY <2>3 DEF AdmitQueued
    <3>2. q.out \in OutPoints
      BY <3>1 DEF Ready, TypeOK
    <3> QED
      BY <2>2, <2>3, <3>1, <3>2 DEF AdmitQueued, TypeOK
  <2>4. CASE QueueDone
    BY <2>4 DEF QueueDone, TypeOK, Phases
  <2>5. ASSUME NEW o \in OutPoints, Unbond(o)
        PROVE  TypeOK'
    <3>1. Leave(reg, Owner(o)) \in Entries
      BY <2>o, LeaveType DEF TypeOK
    <3>2. reg' \in [Keys -> Entries]
      BY <2>5, <2>o, <3>1 DEF Unbond, TypeOK
    <3> QED
      BY <2>5, <3>2 DEF Unbond, Spend, TypeOK
  <2>6. ASSUME NEW o \in OutPoints, Withdraw(o)
        PROVE  TypeOK'
    <3>1. finalize_withdrawal(reg[Owner(o)]) \in Entries
      BY <2>h, <2>o, EntryOperations, LifecycleAssumption DEF TypeOK
    <3>2. reg' \in [Keys -> Entries]
      BY <2>6, <2>o, <3>1 DEF Withdraw, TypeOK
    <3> QED
      BY <2>6, <3>2 DEF Withdraw, Spend, TypeOK
  <2>7. ASSUME NEW o \in OutPoints, Slash(o)
        PROVE  TypeOK'
    <3>1. ban(reg[Owner(o)], h) \in Entries
      BY <2>h, <2>o, EntryOperations, LifecycleAssumption DEF TypeOK
    <3>2. finalize_withdrawal(ban(reg[Owner(o)], h)) \in Entries
      BY <2>h, <3>1, EntryOperations, LifecycleAssumption
    <3>3. reg' \in [Keys -> Entries]
      BY <2>7, <2>o, <3>2 DEF Slash, TypeOK
    <3> QED
      BY <2>7, <3>3 DEF Slash, Spend, TypeOK
  <2>8. ASSUME NEW o \in OutPoints, Join(o)
        PROVE  TypeOK'
    <3>1. /\ reg' \in [Keys -> Entries]
          /\ joins' \in [start : Nat, count : Nat]
          /\ queue' \subseteq [out : OutPoints, at : Nat]
      <4>1. CASE WaitWhenFull(o)
        BY <2>h, <4>1 DEF WaitWhenFull, TypeOK
      <4>2. CASE Register(o) /\ UNCHANGED queue
        BY <2>2, <4>2 DEF TypeOK
      <4>3. CASE UNCHANGED <<reg, queue, joins>>
        BY <4>3 DEF TypeOK
      <4> QED
        BY <2>8, <4>1, <4>2, <4>3 DEF Join
    <3>2. /\ phase' \in Phases /\ txs' \in Nat /\ fresh' \subseteq OutPoints
          /\ outs' \in [OutPoints -> {"unused", "reg", "unb", "spent"}]
          /\ UNCHANGED <<height, prev, minBond, liveStart, committee, parent>>
      <4>1. /\ phase' = "outputs" /\ txs' = txs + 1 /\ fresh' = fresh \cup {o} /\ outs' = [outs EXCEPT ![o] = "reg"]
            /\ UNCHANGED <<height, prev, minBond, liveStart, committee, parent>>
        BY <2>8 DEF Join
      <4> QED
        BY <4>1 DEF TypeOK, Phases
    <3> QED
      BY <3>1, <3>2 DEF TypeOK
  <2>9. ASSUME NEW k \in Keys, NEW b \in BlsKeys, Onboard(k, b)
        PROVE  TypeOK'
    <3>1. register_onboarding(reg[k], b, h) \in Entries
      <4>1. ASSUME NEW v \in Entries, NEW x \in Nat PROVE register_onboarding(v, b, x) \in Entries
        BY DEF register_onboarding, Entries, Statuses
      <4>2. reg[k] \in Entries
        BY DEF TypeOK
      <4> QED
        BY <2>h, <4>1, <4>2
    <3>2. reg' \in [Keys -> Entries]
      BY <2>9, <3>1 DEF Onboard, TypeOK
    <3> QED
      BY <2>9, <3>2 DEF Onboard, TypeOK, Phases
  <2>10. CASE EndBlock
    <3>1. reg' \in [Keys -> Entries]
      BY <2>10, EndType, Zenon DEF EndBlock
    <3>2. committee' \subseteq Keys
      BY <2>10 DEF EndBlock, NextCommittees, Committees, active_sorted, TypeOK
    <3> QED
      BY <2>10, <2>h, <3>1, <3>2 DEF EndBlock, TypeOK, Phases
  <2>11. CASE UNCHANGED vars
    BY <2>11 DEF vars, TypeOK
  <2> QED
    BY <2>1, <2>3, <2>4, <2>5, <2>6, <2>7, <2>8, <2>9, <2>10, <2>11 DEF Next
<1> QED
  BY <1>1, <1>2, PTL DEF Spec

-----------------------------------------------------------------------------
(* The active set floor *)

\* Judging with the floor leaves an active key.
LEMMA RolledFloor ==
    ASSUME height \in Nat, NEW r \in [Keys -> Entries], active_sorted(r, h + 1) # {}
    PROVE  active_sorted(Rolled(r), h + 1) # {}
<1> DEFINE judged == {j \in Keys : MissesToExit(r[j]) \/ MissesToSuspend(r[j])}
<1>1. PICK k \in active_sorted(r, h + 1) : k \notin judged \/ k \in Spared(r, judged, h + 1)
  BY SomeoneStays
<1>2. k \in Keys /\ is_effectively_active(r[k], h + 1) /\ r[k] \in Entries
  BY <1>1 DEF active_sorted
<1>3. CASE k \in Spared(r, judged, h + 1)
  <2>1. Rolled(r)[k] = [r[k] EXCEPT !.eligible = 0, !.seen = 0]
    BY <1>2, <1>3, Zenon DEF Rolled
  <2>2. is_effectively_active(Rolled(r)[k], h + 1)
    BY <1>2, <2>1 DEF is_effectively_active, Entries
  <2> QED
    BY <1>2, <2>2 DEF active_sorted
<1>4. CASE k \notin Spared(r, judged, h + 1) /\ k \notin judged
  <2>1. Judged(r[k]) = r[k]
    BY <1>2, <1>4 DEF Judged
  <2>2. Rolled(r)[k] = [Judged(r[k]) EXCEPT !.eligible = 0, !.seen = 0]
    BY <1>2, <1>4, Zenon DEF Rolled
  <2>3. is_effectively_active(Rolled(r)[k], h + 1)
    BY <1>2, <2>1, <2>2 DEF is_effectively_active, Entries
  <2> QED
    BY <1>2, <2>3 DEF active_sorted
<1> QED
  BY <1>1, <1>3, <1>4

\* Counting the signers changes who is active nowhere.
LEMMA CountedActive ==
    ASSUME TypeOK, NEW signers, NEW x \in Nat, NEW k \in Keys, is_effectively_active(reg[k], x)
    PROVE  is_effectively_active(Counted(signers)[k], x)
<1> DEFINE w == [reg[k] EXCEPT !.eligible = @ + 1, !.seen = IF k \in signers THEN @ + 1 ELSE @]
<1>1. reg[k] \in Entries
  BY DEF TypeOK
<1>2. is_effectively_active(w, x)
  BY <1>1 DEF is_effectively_active, Entries
<1>3. Counted(signers)[k] \in {w, reg[k]}
  BY DEF Counted
<1> QED
  BY <1>2, <1>3

\* So does the end of an epoch with the floor, and the rest of the block's end.
LEMMA EndFloor ==
    ASSUME TypeOK, active_sorted(reg, h + 1) # {}
    PROVE  \E k \in Keys : is_effectively_active(
               Matured(advance_height(Departures(reg)[k], h + 1)), h + 1)
<1> DEFINE leaving == {k \in Keys : /\ reg[k].bonded /\ reg[k].unbond # 0
                                    /\ reg[k].status \in {"ACTIVE", "SUSPENDED"}}
<1>1. PICK k \in active_sorted(reg, h + 1) : k \notin leaving \/ k \in Spared(reg, leaving, h + 1)
  BY SomeoneStays
<1>2. k \in Keys /\ is_effectively_active(reg[k], h + 1) /\ reg[k] \in Entries /\ h + 1 \in Nat
  BY <1>1 DEF active_sorted, TypeOK, h
<1>3. Departures(reg)[k] = reg[k]
  <2>1. ~(~SameEpoch /\ k \in leaving \ Spared(reg, leaving, h + 1))
    BY <1>1
  <2> QED
    BY <1>2, <2>1, Zenon DEF Departures
<1>4. is_effectively_active(advance_height(reg[k], h + 1), h + 1)
  BY <1>2, ActiveAdvances
<1>5. Matured(advance_height(reg[k], h + 1)) = advance_height(reg[k], h + 1)
  BY <1>4 DEF Matured, can_withdraw_bond, is_effectively_active
<1> QED
  BY <1>2, <1>3, <1>4, <1>5

\* A validator whose exit was complete in the parent block is not active while
\* the spends of the block are applied: its withdrawal takes nobody away.
ExitingStaysOut ==
    /\ phase = "idle" => prev = reg
    /\ phase \in {"queue", "spends"} =>
          \A k \in Keys :
              prev[k].bonded /\ prev[k].status = "EXITING" =>
                  /\ reg[k].status \in {"EXITING", "SUSPENDED", "BANNED"}
                  /\ phase = "queue" => reg[k].bonded

\* What the block's beginning makes of an entry whose exit is under way.
LEMMA BeginExiting ==
    ASSUME TypeOK, NEW signers, BeginBlock(signers), NEW k \in Keys,
           reg[k].bonded, reg[k].status = "EXITING"
    PROVE  reg'[k].bonded /\ reg'[k].status \in {"EXITING", "SUSPENDED", "BANNED"}
<1>1. reg[k] \in Entries
  BY DEF TypeOK
<1>2. Counted(signers)[k] = reg[k]
  BY DEF Counted
<1>3. CASE reg' = Counted(signers)
  BY <1>2, <1>3
<1>4. CASE reg' = Rolled(Counted(signers))
  <2> DEFINE r == Counted(signers)
             judged == {j \in Keys : MissesToExit(r[j]) \/ MissesToSuspend(r[j])}
             w == IF k \in Spared(r, judged, h + 1) THEN r[k] ELSE Judged(r[k])
  <2>1. reg'[k] = [w EXCEPT !.eligible = 0, !.seen = 0]
    BY <1>4, Zenon DEF Rolled
  <2>2. w \in {reg[k], Judged(reg[k])}
    BY <1>2
  <2>3. Judged(reg[k]) \in Entries
    BY <1>1, JudgedEntry DEF TypeOK
  <2>4. Judged(reg[k]).bonded /\ Judged(reg[k]).status \in {"EXITING", "SUSPENDED"}
    BY <1>1 DEF Judged, Entries, MissesToSuspend
  <2>5. w \in Entries /\ w.bonded /\ w.status \in {"EXITING", "SUSPENDED"}
    BY <1>1, <2>2, <2>3, <2>4
  <2> HIDE DEF w
  <2> QED
    BY <2>1, <2>5 DEF Entries
<1> QED
  BY <1>3, <1>4 DEF BeginBlock

\* Registering one key leaves the entries of the others, and an active or exiting key
\* does not register.
LEMMA RegisterOther ==
    ASSUME TypeOK, NEW o \in OutPoints, Registrable(o), Register(o), NEW k \in Keys
    PROVE  /\ Owner(o) \in Keys
           /\ reg'[k] # reg[k] => ~reg[k].bonded \/ reg[k].status = "NONE"
<1>1. Owner(o) \in Keys
  BY DEF OutPoints, Owner
<1>2. reg' = [reg EXCEPT ![Owner(o)] = register_bond(@, o, BlsOf[o], h)]
  BY DEF Register
<1>3. CASE k = Owner(o)
  BY <1>1, <1>3 DEF can_register_bond, Registrable
<1>4. CASE k # Owner(o)
  BY <1>1, <1>2, <1>4 DEF TypeOK
<1> QED
  BY <1>1, <1>3, <1>4

\* The unbond path keeps an entry that is exiting, suspended or banned such.
LEMMA LeaveKeeps ==
    ASSUME height \in Nat, NEW r \in [Keys -> Entries], NEW k \in Keys,
           r[k].status \in {"EXITING", "SUSPENDED", "BANNED"}
    PROVE  Leave(r, k).status \in {"EXITING", "SUSPENDED", "BANNED"}
<1>1. r[k] \in Entries
  OBVIOUS
<1>2. request_unbond(r[k], h).status \in {"EXITING", "SUSPENDED", "BANNED"}
  BY <1>1 DEF request_unbond, Entries
<1>3. [r[k] EXCEPT !.unbond = IF @ = 0 THEN h ELSE @, !.exit = Latest(@, h)].status = r[k].status
  BY <1>1 DEF Entries
<1> QED
  BY <1>2, <1>3 DEF Leave

\* ExitingStaysOut is an invariant: between the beginning of a block and its last spend,
\* a key whose exit the parent block had completed is neither active nor pending.
THEOREM ExitInvariant == Spec => []ExitingStaysOut
<1>1. Init => ExitingStaysOut
  BY DEF Init, ExitingStaysOut
<1>2. TypeOK /\ ExitingStaysOut /\ [Next]_vars => ExitingStaysOut'
  <2> SUFFICES ASSUME TypeOK, ExitingStaysOut, [Next]_vars
               PROVE  ExitingStaysOut'
    OBVIOUS
  <2>o. \A o \in OutPoints : Owner(o) \in Keys
    BY DEF OutPoints, Owner
  <2>1. ASSUME NEW signers \in SUBSET parent, BeginBlock(signers)
        PROVE  ExitingStaysOut'
    <3>1. prev = reg /\ prev' = prev /\ phase' = "queue"
      BY <2>1 DEF BeginBlock, ExitingStaysOut
    <3>2. \A k \in Keys : prev'[k].bonded /\ prev'[k].status = "EXITING" =>
              reg'[k].bonded /\ reg'[k].status \in {"EXITING", "SUSPENDED", "BANNED"}
      BY <2>1, <3>1, BeginExiting
    <3> QED
      BY <3>1, <3>2 DEF ExitingStaysOut
  <2>2. CASE AdmitQueued
    <3>1. PICK q \in Ready : Register(q.out)
      BY <2>2 DEF AdmitQueued
    <3>2. q.out \in OutPoints /\ Registrable(q.out)
      BY DEF Ready, TypeOK
    <3>3. \A k \in Keys : reg[k].bonded /\ reg[k].status # "NONE" => reg'[k] = reg[k]
      BY <3>1, <3>2, RegisterOther
    <3> QED
      BY <2>2, <3>3 DEF AdmitQueued, ExitingStaysOut
  <2>3. CASE QueueDone
    BY <2>3 DEF QueueDone, ExitingStaysOut
  <2>4. ASSUME NEW o \in OutPoints, Unbond(o) \/ Withdraw(o) \/ Slash(o)
        PROVE  ExitingStaysOut'
    <3>1. phase' = phase /\ prev' = prev /\ phase \in {"spends", "outputs"}
      BY <2>4 DEF Unbond, Withdraw, Slash, Spend
    <3>2. CASE phase = "outputs"
      BY <3>1, <3>2 DEF ExitingStaysOut
    <3>3. CASE phase = "spends"
      <4> SUFFICES ASSUME NEW k \in Keys, prev[k].bonded, prev[k].status = "EXITING"
                   PROVE  reg'[k].status \in {"EXITING", "SUSPENDED", "BANNED"}
        BY <3>1, <3>3 DEF ExitingStaysOut
      <4>1. reg[k].status \in {"EXITING", "SUSPENDED", "BANNED"} /\ reg[k] \in Entries
        BY <3>3 DEF ExitingStaysOut, TypeOK
      <4>2. Leave(reg, k).status \in {"EXITING", "SUSPENDED", "BANNED"}
        BY <4>1, LeaveKeeps DEF TypeOK
      <4>3. finalize_withdrawal(reg[k]).status \in {"EXITING", "SUSPENDED", "BANNED"}
        BY <4>1 DEF finalize_withdrawal, Entries
      <4>4. finalize_withdrawal(ban(reg[k], h)).status = "BANNED"
        BY <4>1 DEF finalize_withdrawal, ban, Entries
      <4>5. reg'[k] \in {reg[k], Leave(reg, k), finalize_withdrawal(reg[k]),
                         finalize_withdrawal(ban(reg[k], h))}
        BY <2>4, <2>o DEF Unbond, Withdraw, Slash, TypeOK
      <4> QED
        BY <4>1, <4>2, <4>3, <4>4, <4>5
    <3> QED
      BY <3>1, <3>2, <3>3
  <2>5. ASSUME NEW o \in OutPoints, Join(o)
        PROVE  ExitingStaysOut'
    BY <2>5 DEF Join, ExitingStaysOut
  <2>6. ASSUME NEW k \in Keys, NEW b \in BlsKeys, Onboard(k, b)
        PROVE  ExitingStaysOut'
    BY <2>6 DEF Onboard, ExitingStaysOut
  <2>7. CASE EndBlock
    BY <2>7 DEF EndBlock, ExitingStaysOut
  <2>8. CASE UNCHANGED vars
    BY <2>8 DEF vars, ExitingStaysOut
  <2> QED
    BY <2>1, <2>2, <2>3, <2>4, <2>5, <2>6, <2>7, <2>8 DEF Next
<1> QED
  BY <1>1, <1>2, TypeInvariant, PTL DEF Spec

\* An active key is active for the block after the one being applied.
LEMMA ActiveNext ==
    ASSUME height \in Nat, NEW r \in [Keys -> Entries], active_sorted(r, height + 1) # {}
    PROVE  active_sorted(r, h + 1) # {}
<1>1. PICK k \in Keys : is_effectively_active(r[k], height + 1)
  BY DEF active_sorted
<1>2. is_effectively_active(r[k], (height + 1) + 1)
  BY <1>1, ActiveLater
<1> QED
  BY <1>1, <1>2 DEF active_sorted, h

\* Penalties, exits and withdrawals never empty the active set of the next height: for
\* every number of keys, blocks and transactions, only a slashed bond can.
THEOREM FloorHolds == Spec => ActiveSetFloor
<1>1. TypeOK /\ ExitingStaysOut /\ [Next]_vars =>
          [(Eligible # {} /\ ~\E o \in OutPoints : Slash(o)) => Eligible' # {}]_vars
  <2> SUFFICES ASSUME TypeOK, ExitingStaysOut, Next, Eligible # {}, ~\E o \in OutPoints : Slash(o)
               PROVE  Eligible' # {}
    OBVIOUS
  <2>h. h \in Nat /\ h + 1 \in Nat /\ h + 1 = height + 2 /\ height \in Nat
    BY DEF TypeOK, h
  <2>o. \A o \in OutPoints : Owner(o) \in Keys
    BY DEF OutPoints, Owner
  <2>r. reg \in [Keys -> Entries]
    BY DEF TypeOK
  <2>1. ASSUME NEW signers \in SUBSET parent, BeginBlock(signers)
        PROVE  Eligible' # {}
    <3>1. Eligible = active_sorted(reg, height + 1) /\ Eligible' = active_sorted(reg', h + 1)
      BY <2>1, <2>h DEF BeginBlock, Eligible, Target, active_sorted
    <3>2. PICK k \in Keys : is_effectively_active(reg[k], h + 1)
      BY <3>1, <2>r, <2>h, ActiveNext DEF active_sorted
    <3>3. is_effectively_active(Counted(signers)[k], h + 1)
      BY <3>2, <2>h, CountedActive
    <3>4. active_sorted(Counted(signers), h + 1) # {}
      BY <3>3 DEF active_sorted
    <3>5. active_sorted(Rolled(Counted(signers)), h + 1) # {}
      BY <3>4, <2>h, CountedType, RolledFloor
    <3> QED
      BY <2>1, <3>1, <3>4, <3>5 DEF BeginBlock
  <2>2. ASSUME phase # "idle", height' = height, phase' # "idle"
        PROVE  /\ Eligible = active_sorted(reg, h + 1)
               /\ Eligible' = active_sorted(reg', h + 1)
    BY <2>2, <2>h DEF Eligible, Target, active_sorted
  <2>3. ASSUME NEW k \in Keys, is_effectively_active(reg'[k], h + 1)
        PROVE  active_sorted(reg', h + 1) # {}
    BY <2>3 DEF active_sorted
  <2>4. ASSUME NEW o \in OutPoints, Registrable(o), Register(o),
               Eligible = active_sorted(reg, h + 1)
        PROVE  active_sorted(reg', h + 1) # {}
    <3>1. PICK k \in Keys : is_effectively_active(reg[k], h + 1)
      BY <2>4 DEF active_sorted
    <3>2. reg'[k] = reg[k]
      BY <2>4, <3>1, RegisterOther DEF is_effectively_active
    <3> QED
      BY <3>1, <3>2, <2>3
  <2>5. CASE AdmitQueued
    <3>1. PICK q \in Ready : Register(q.out)
      BY <2>5 DEF AdmitQueued
    <3>2. q.out \in OutPoints /\ Registrable(q.out)
      BY DEF Ready, TypeOK
    <3> QED
      BY <2>2, <2>4, <2>5, <3>1, <3>2 DEF AdmitQueued
  <2>6. CASE QueueDone
    BY <2>2, <2>6 DEF QueueDone
  <2>7. ASSUME NEW o \in OutPoints, Unbond(o)
        PROVE  Eligible' # {}
    <3>1. Eligible = active_sorted(reg, h + 1) /\ Eligible' = active_sorted(reg', h + 1)
      BY <2>2, <2>7 DEF Unbond, Spend
    <3>2. CASE o \in fresh
      BY <2>7, <3>1, <3>2 DEF Unbond
    <3>3. CASE o \notin fresh
      <4>1. reg' = [reg EXCEPT ![Owner(o)] = Leave(reg, Owner(o))] /\ Owner(o) \in Keys
        BY <2>7, <2>o, <3>3 DEF Unbond
      <4>2. CASE \E k \in active_sorted(reg, h + 1) : k # Owner(o)
        <5>1. PICK k \in active_sorted(reg, h + 1) : k # Owner(o)
          BY <4>2
        <5>2. k \in Keys /\ is_effectively_active(reg[k], h + 1)
          BY DEF active_sorted
        <5>3. reg'[k] = reg[k]
          BY <4>1, <5>1, <5>2, <2>r
        <5> QED
          BY <5>2, <5>3, <2>3, <3>1
      <4>3. CASE ~\E k \in active_sorted(reg, h + 1) : k # Owner(o)
        <5>1. active_sorted(reg, h + 1) = {Owner(o)}
          BY <3>1, <4>3
        <5>2. is_effectively_active(reg[Owner(o)], h + 1) /\ reg[Owner(o)] \in Entries
          BY <5>1, <4>1, <2>r DEF active_sorted
        <5>3. Leave(reg, Owner(o)) \in
                {reg[Owner(o)],
                 [reg[Owner(o)] EXCEPT !.unbond = IF @ = 0 THEN h ELSE @, !.exit = Latest(@, h)]}
          BY <5>1 DEF Leave
        <5>4. is_effectively_active(Leave(reg, Owner(o)), h + 1)
          BY <5>2, <5>3 DEF is_effectively_active, Entries
        <5>5. reg'[Owner(o)] = Leave(reg, Owner(o))
          BY <4>1, <2>r
        <5> QED
          BY <4>1, <5>4, <5>5, <2>3, <3>1
      <4> QED
        BY <4>2, <4>3
    <3> QED
      BY <3>2, <3>3
  <2>8. ASSUME NEW o \in OutPoints, Withdraw(o)
        PROVE  Eligible' # {}
    <3>1. Eligible = active_sorted(reg, h + 1) /\ Eligible' = active_sorted(reg', h + 1)
      BY <2>2, <2>8 DEF Withdraw, Spend
    <3>2. CASE o \in fresh
      BY <2>8, <3>1, <3>2 DEF Withdraw
    <3>3. CASE o \notin fresh
      <4>1. phase = "spends" /\ prev[Owner(o)].bonded /\ prev[Owner(o)].status = "EXITING"
        BY <2>8, <3>3 DEF Withdraw, Spend, can_withdraw_bond
      <4>2. reg[Owner(o)].status \in {"EXITING", "SUSPENDED", "BANNED"}
        BY <4>1, <2>o DEF ExitingStaysOut
      <4>3. PICK k \in Keys : is_effectively_active(reg[k], h + 1)
        BY <3>1 DEF active_sorted
      <4>4. k # Owner(o)
        BY <4>2, <4>3 DEF is_effectively_active
      <4>5. reg'[k] = reg[k]
        BY <2>8, <3>3, <4>4, <2>r, <2>o DEF Withdraw
      <4> QED
        BY <4>3, <4>5, <2>3, <3>1
    <3> QED
      BY <3>2, <3>3
  <2>9. ASSUME NEW o \in OutPoints, Join(o)
        PROVE  Eligible' # {}
    <3>1. Eligible = active_sorted(reg, h + 1) /\ Eligible' = active_sorted(reg', h + 1)
      BY <2>2, <2>9 DEF Join
    <3>2. reg' = reg \/ (Registrable(o) /\ Register(o))
      BY <2>9 DEF Join, WaitWhenFull
    <3> QED
      BY <3>1, <3>2, <2>4
  <2>10. ASSUME NEW k \in Keys, NEW b \in BlsKeys, Onboard(k, b)
        PROVE  Eligible' # {}
    <3>1. Eligible = active_sorted(reg, h + 1) /\ Eligible' = active_sorted(reg', h + 1)
      BY <2>2, <2>10 DEF Onboard
    <3>2. PICK j \in Keys : is_effectively_active(reg[j], h + 1)
      BY <3>1 DEF active_sorted
    <3>3. reg'[j] = reg[j]
      BY <2>10, <2>r, <3>2 DEF Onboard, register_onboarding, is_effectively_active
    <3> QED
      BY <3>1, <3>2, <3>3, <2>3
  <2>11. CASE EndBlock
    <3>1. Eligible = active_sorted(reg, h + 1) /\ Eligible' = active_sorted(reg', h + 1)
      BY <2>11, <2>h DEF EndBlock, Eligible, Target, active_sorted
    <3>2. PICK k \in Keys :
              is_effectively_active(Matured(advance_height(Departures(reg)[k], h + 1)), h + 1)
      BY <3>1, EndFloor
    <3>3. reg'[k] = Matured(advance_height(Departures(reg)[k], h + 1))
      BY <2>11, Zenon DEF EndBlock
    <3> QED
      BY <3>1, <3>2, <3>3, <2>3
  <2> QED
    BY <2>1, <2>5, <2>6, <2>7, <2>8, <2>9, <2>10, <2>11 DEF Next
<1> QED
  BY <1>1, TypeInvariant, ExitInvariant, PTL DEF Spec, ActiveSetFloor

-----------------------------------------------------------------------------
(* The join queue *)

\* What every step but a registration does to an entry: a registered key stays
\* registered with the key for time signatures it has, and no other bond takes the place
\* of the one it has.
Kept(v, w) ==
    /\ w.status = "NONE" => v.status = "NONE" /\ w.bls = v.bls
    /\ v.bls # NoBls => w.bls = v.bls
    /\ w.bond \in {v.bond, Zero}

LEMMA KeptByRolled ==
    ASSUME height \in Nat, NEW r \in [Keys -> Entries], NEW k \in Keys
    PROVE  Kept(r[k], Rolled(r)[k])
<1> DEFINE judged == {j \in Keys : MissesToExit(r[j]) \/ MissesToSuspend(r[j])}
           w == IF k \in Spared(r, judged, h + 1) THEN r[k] ELSE Judged(r[k])
<1>1. r[k] \in Entries /\ Judged(r[k]) \in Entries
  BY JudgedEntry
<1>2. Rolled(r)[k] = [w EXCEPT !.eligible = 0, !.seen = 0]
  BY Zenon DEF Rolled
<1>3. /\ Judged(r[k]).bond = r[k].bond /\ Judged(r[k]).bls = r[k].bls
      /\ Judged(r[k]).status \in {r[k].status, "EXITING", "SUSPENDED"}
  BY <1>1 DEF Judged, Entries, MissesToSuspend
<1>4. /\ w \in Entries /\ w.bond = r[k].bond /\ w.bls = r[k].bls
      /\ w.status \in {r[k].status, "EXITING", "SUSPENDED"}
  BY <1>1, <1>3
<1> HIDE DEF w
<1> QED
  BY <1>2, <1>4 DEF Kept, Entries

LEMMA KeptByEnd ==
    ASSUME TypeOK, NEW k \in Keys
    PROVE  Kept(reg[k], Matured(advance_height(Departures(reg)[k], h + 1)))
<1>1. reg[k] \in Entries /\ Departures(reg)[k] \in Entries /\ h + 1 \in Nat
  BY DeparturesType DEF TypeOK, h
<1>2. Departures(reg)[k] \in {reg[k], [reg[k] EXCEPT !.status = "EXITING"]}
  BY DEF Departures
<1>3. Kept(reg[k], Departures(reg)[k])
  BY <1>1, <1>2 DEF Kept, Entries
<1> DEFINE v == Departures(reg)[k]
           w == advance_height(v, h + 1)
<1>4. w \in Entries /\ w.bond = v.bond /\ w.bls = v.bls /\ w.status \in {v.status, "ACTIVE"}
  <2>1. v \in Entries
    BY <1>1
  <2> HIDE DEF v
  <2> QED
    BY <1>1, <2>1 DEF advance_height, Entries, Statuses
<1>5. Matured(w) \in {w, finalize_withdrawal(w)}
  BY DEF Matured
<1>6. Kept(w, finalize_withdrawal(w))
  <2> HIDE DEF w
  <2> QED
    BY <1>4 DEF Kept, finalize_withdrawal, Entries
<1>7. Kept(v, w) /\ Kept(w, w)
  BY <1>4 DEF Kept
<1> HIDE DEF v, w
<1>8. Kept(w, Matured(w))
  BY <1>5, <1>6, <1>7
<1>9. Kept(reg[k], v)
  BY <1>3 DEF v
<1> QED
  BY <1>7, <1>8, <1>9 DEF Kept, v, w

\* The steps that register no bond
LEMMA KeptByOthers ==
    ASSUME TypeOK, NEW k \in Keys,
           \/ \E signers \in SUBSET parent : BeginBlock(signers)
           \/ QueueDone
           \/ \E o \in OutPoints : Unbond(o) \/ Withdraw(o) \/ Slash(o)
           \/ \E j \in Keys, b \in BlsKeys : Onboard(j, b)
           \/ EndBlock
           \/ UNCHANGED vars
    PROVE  Kept(reg[k], reg'[k])
<1>r. reg \in [Keys -> Entries] /\ reg[k] \in Entries /\ height \in Nat
  BY DEF TypeOK
<1>s. Kept(reg[k], reg[k])
  BY DEF Kept
<1>1. ASSUME NEW signers \in SUBSET parent, BeginBlock(signers)
      PROVE  Kept(reg[k], reg'[k])
  <2> DEFINE c == [reg[k] EXCEPT !.eligible = @ + 1, !.seen = IF k \in signers THEN @ + 1 ELSE @]
  <2>1. Counted(signers)[k] \in {c, reg[k]}
    BY DEF Counted
  <2>2. Kept(reg[k], Counted(signers)[k])
    BY <2>1, <1>r DEF Kept, Entries
  <2>3. Kept(Counted(signers)[k], Rolled(Counted(signers))[k])
    BY <1>r, CountedType, KeptByRolled
  <2> QED
    BY <1>1, <2>2, <2>3 DEF BeginBlock, Kept
<1>2. CASE QueueDone
  BY <1>2, <1>s DEF QueueDone
<1>3. ASSUME NEW o \in OutPoints, Unbond(o) \/ Withdraw(o) \/ Slash(o)
      PROVE  Kept(reg[k], reg'[k])
  <2>1. Owner(o) \in Keys
    BY DEF OutPoints, Owner
  <2>2. reg'[k] \in {reg[k], Leave(reg, k), finalize_withdrawal(reg[k]),
                     finalize_withdrawal(ban(reg[k], h))}
    BY <1>3, <2>1, <1>r DEF Unbond, Withdraw, Slash
  <2>3. Kept(reg[k], Leave(reg, k))
    <3>1. Kept(reg[k], request_unbond(reg[k], h))
      BY <1>r DEF Kept, request_unbond, Entries
    <3>2. Kept(reg[k], [reg[k] EXCEPT !.unbond = IF @ = 0 THEN h ELSE @, !.exit = Latest(@, h)])
      BY <1>r DEF Kept, Entries
    <3> QED
      BY <1>s, <3>1, <3>2 DEF Leave
  <2>4. Kept(reg[k], finalize_withdrawal(reg[k]))
    BY <1>r DEF Kept, finalize_withdrawal, Entries
  <2>5. Kept(reg[k], finalize_withdrawal(ban(reg[k], h)))
    BY <1>r DEF Kept, finalize_withdrawal, ban, Entries
  <2> QED
    BY <1>s, <2>2, <2>3, <2>4, <2>5
<1>4. ASSUME NEW j \in Keys, NEW b \in BlsKeys, Onboard(j, b)
      PROVE  Kept(reg[k], reg'[k])
  <2>1. CASE j = k /\ bls_key_assignable(reg, k, b)
    <3>1. Kept(reg[k], register_onboarding(reg[k], b, h))
      BY <1>r, <2>1 DEF Kept, register_onboarding, Entries, bls_key_assignable
    <3>2. reg'[k] = register_onboarding(reg[k], b, h)
      BY <1>4, <1>r, <2>1 DEF Onboard
    <3> QED
      BY <3>1, <3>2
  <2>2. CASE ~(j = k /\ bls_key_assignable(reg, k, b))
    BY <1>4, <1>r, <1>s, <2>2 DEF Onboard
  <2> QED
    BY <2>1, <2>2
<1>5. CASE EndBlock
  <2>1. reg'[k] = Matured(advance_height(Departures(reg)[k], h + 1))
    BY <1>5, Zenon DEF EndBlock
  <2> QED
    BY <2>1, KeptByEnd
<1>6. CASE UNCHANGED vars
  BY <1>6, <1>s DEF vars
<1> QED
  BY <1>1, <1>2, <1>3, <1>4, <1>5, <1>6

\* A registration gives one key the bond of the join and leaves the others.
LEMMA Registered ==
    ASSUME TypeOK, NEW o \in OutPoints, Registrable(o), Register(o), NEW k \in Keys
    PROVE  /\ k = Owner(o) => reg'[k].status = "PENDING" /\ reg'[k].bond = o
           /\ k # Owner(o) => reg'[k] = reg[k]
           /\ reg[k].bls # NoBls => reg'[k].bls = reg[k].bls
<1>1. Owner(o) \in Keys /\ reg \in [Keys -> Entries] /\ reg[k] \in Entries
  BY DEF OutPoints, Owner, TypeOK
<1>2. reg'[k] = IF k = Owner(o) THEN register_bond(reg[k], o, BlsOf[o], h) ELSE reg[k]
  BY <1>1 DEF Register
<1>3. /\ register_bond(reg[k], o, BlsOf[o], h).status = "PENDING"
      /\ register_bond(reg[k], o, BlsOf[o], h).bond = o
      /\ register_bond(reg[k], o, BlsOf[o], h).bls = BlsOf[o]
  BY <1>1 DEF register_bond, Entries
<1>4. k = Owner(o) /\ reg[k].bls # NoBls => reg[k].bls = BlsOf[o]
  BY DEF Registrable, bls_key_assignable
<1> QED
  BY <1>2, <1>3, <1>4

\* What no step takes from an entry: a registered key stays registered with its key for
\* time signatures, and an entry that is not registered has none that it had not.
EntryHeld(v, w) ==
    /\ w.status = "NONE" => v.status = "NONE" /\ w.bls = v.bls
    /\ v.bls # NoBls => w.bls = v.bls

HeldByAll == \A k \in Keys : EntryHeld(reg[k], reg'[k])

\* Once the queue has been served, a new key that could register waits only because the
\* window is full.
NewWaitsOnlyWhenFull ==
    phase \in {"spends", "outputs"} => (NewReady # {} => WindowFull)

\* A key that is not registered has no key for time signatures.
NewHasNoBls == \A k \in Keys : reg[k].status = "NONE" => reg[k].bls = NoBls

\* The minimum of the block is at most the one its transactions are validated with: the
\* liveness penalties that come first only take validators out of the active set.
MinimumMet ==
    phase # "idle" => height < MaxHeight /\ minBond <= MinBond(h, active_sorted(prev, h))

JoinInv == JoinsNotStranded /\ NewWaitsOnlyWhenFull /\ NewHasNoBls /\ MinimumMet

\* A key for time signatures that somebody else has stays somebody else's.
LEMMA TakenStays ==
    ASSUME HeldByAll, NEW k \in Keys, NEW b \in BlsKeys, TakenBls(reg, k, b)
    PROVE  TakenBls(reg, k, b)'
<1>1. PICK j \in Keys \ {k} : reg[j].bls = b
  BY DEF TakenBls
<1>2. reg'[j].bls = b
  BY <1>1, RegistryAssumption DEF HeldByAll, EntryHeld
<1> QED
  BY <1>1, <1>2 DEF TakenBls

\* Within a block, no queued join of a new key becomes ready.
LEMMA ReadyShrinks ==
    ASSUME TypeOK, HeldByAll, NEW q \in queue, q \in NewReady', minBond' = minBond
    PROVE  q \in NewReady
<1>1. q.out \in OutPoints /\ Owner(q.out) \in Keys /\ BlsOf[q.out] \in BlsKeys
  BY LifecycleAssumption DEF TypeOK, OutPoints, Owner
<1>2. /\ reg'[Owner(q.out)].status = "NONE"
      /\ Amount[q.out] >= minBond
      /\ ~TakenBls(reg, Owner(q.out), BlsOf[q.out])'
      /\ reg'[Owner(q.out)].bls \in {NoBls, BlsOf[q.out]}
  BY DEF NewReady, Ready, Registrable, can_register_bond, bls_key_assignable
<1>3. /\ reg[Owner(q.out)].status = "NONE"
      /\ reg[Owner(q.out)].bls \in {NoBls, BlsOf[q.out]}
  BY <1>1, <1>2 DEF HeldByAll, EntryHeld
<1>4. ~TakenBls(reg, Owner(q.out), BlsOf[q.out])
  BY <1>1, <1>2, TakenStays
<1>5. can_register_bond(reg[Owner(q.out)], Amount[q.out], minBond, h)
  BY <1>2, <1>3 DEF can_register_bond
<1>6. bls_key_assignable(reg, Owner(q.out), BlsOf[q.out])
  BY <1>3, <1>4 DEF bls_key_assignable
<1> QED
  BY <1>3, <1>5, <1>6 DEF NewReady, Ready, Registrable

\* What a step does to the conjuncts that are not about the queue
LEMMA HeldKeeps ==
    ASSUME TypeOK, JoinInv, HeldByAll
    PROVE  /\ NewHasNoBls'
           /\ \A o \in OutPoints :
                 TakenBls(reg, Owner(o), BlsOf[o]) => TakenBls(reg, Owner(o), BlsOf[o])'
<1>1. NewHasNoBls'
  BY DEF JoinInv, NewHasNoBls, HeldByAll, EntryHeld
<1>2. \A o \in OutPoints : Owner(o) \in Keys /\ BlsOf[o] \in BlsKeys
  BY LifecycleAssumption DEF OutPoints, Owner
<1> QED
  BY <1>1, <1>2, TakenStays

LEMMA KeptIsHeld ==
    ASSUME \A k \in Keys : Kept(reg[k], reg'[k])
    PROVE  HeldByAll
  BY DEF HeldByAll, EntryHeld, Kept

\* The steps that leave the queue and the outputs of joins alone keep the invariant
LEMMA JoinInvKept ==
    ASSUME TypeOK, JoinInv,
           \A k \in Keys : Kept(reg[k], reg'[k]),
           queue' = queue,
           \A o \in OutPoints : outs'[o] = "reg" => outs[o] = "reg",
           phase' \in {"spends", "outputs"} =>
               joins' = joins /\ minBond' = minBond /\ phase \in {"spends", "outputs"},
           MinimumMet'
    PROVE  JoinInv'
<1>0. HeldByAll
  BY KeptIsHeld
<1>1. \A o \in OutPoints : Owner(o) \in Keys
  BY DEF OutPoints, Owner
<1>2. JoinsNotStranded'
  <2> SUFFICES ASSUME NEW o \in OutPoints, outs'[o] = "reg", reg'[Owner(o)].status = "NONE"
               PROVE  (\E q \in queue' : q.out = o) \/ TakenBls(reg, Owner(o), BlsOf[o])'
    BY DEF JoinsNotStranded
  <2>1. outs[o] = "reg" /\ reg[Owner(o)].status = "NONE"
    BY <1>0, <1>1 DEF HeldByAll, EntryHeld
  <2>2. (\E q \in queue : q.out = o) \/ TakenBls(reg, Owner(o), BlsOf[o])
    BY <2>1 DEF JoinInv, JoinsNotStranded
  <2> QED
    BY <1>0, <2>2, HeldKeeps
<1>3. NewWaitsOnlyWhenFull'
  <2> SUFFICES ASSUME phase' \in {"spends", "outputs"}, NEW q \in NewReady'
               PROVE  WindowFull'
    BY DEF NewWaitsOnlyWhenFull
  <2>1. q \in queue
    BY DEF NewReady, Ready
  <2>2. q \in NewReady
    BY <1>0, <2>1, ReadyShrinks
  <2>3. WindowFull
    BY <2>2 DEF JoinInv, NewWaitsOnlyWhenFull
  <2> QED
    BY <2>3 DEF WindowFull
<1> QED
  BY <1>0, <1>2, <1>3, HeldKeeps DEF JoinInv

\* The liveness penalties make nobody active.
LEMMA PenaltiesOnly ==
    ASSUME TypeOK, NEW signers, BeginBlock(signers)
    PROVE  active_sorted(reg', h) \subseteq active_sorted(reg, h)
<1> SUFFICES ASSUME NEW k \in Keys, is_effectively_active(reg'[k], h)
             PROVE  is_effectively_active(reg[k], h)
  BY DEF active_sorted
<1>1. reg[k] \in Entries /\ height \in Nat
  BY DEF TypeOK
<1> DEFINE c == [reg[k] EXCEPT !.eligible = @ + 1, !.seen = IF k \in signers THEN @ + 1 ELSE @]
           r == Counted(signers)
<1>2. r[k] \in {c, reg[k]}
  BY DEF Counted
<1>3. r[k] \in Entries
  BY CountedType
<1>4. is_effectively_active(r[k], h) => is_effectively_active(reg[k], h)
  <2>1. is_effectively_active(c, h) => is_effectively_active(reg[k], h)
    BY <1>1 DEF is_effectively_active, Entries
  <2> HIDE DEF c, r
  <2> QED
    BY <1>2, <2>1
<1>5. CASE reg' = r
  BY <1>4, <1>5
<1>6. CASE reg' = Rolled(r)
  <2> DEFINE judged == {j \in Keys : MissesToExit(r[j]) \/ MissesToSuspend(r[j])}
             v == r[k]
             w == IF k \in Spared(r, judged, h + 1) THEN v ELSE Judged(v)
  <2>1. reg'[k] = [w EXCEPT !.eligible = 0, !.seen = 0]
    BY <1>6, Zenon DEF Rolled
  <2>2. v \in Entries /\ Judged(v) \in Entries
    BY <1>1, <1>3, JudgedEntry
  <2>3. w \in {v, Judged(v)} /\ w \in Entries
    BY <2>2
  <2> HIDE DEF w
  <2>4. is_effectively_active(w, h)
    BY <2>1, <2>3 DEF is_effectively_active, Entries
  <2> HIDE DEF v, r
  <2>5. is_effectively_active(Judged(v), h) => is_effectively_active(v, h)
    BY <2>2 DEF is_effectively_active, Judged, Entries, MissesToSuspend
  <2>6. is_effectively_active(v, h)
    BY <2>3, <2>4, <2>5
  <2> QED
    BY <1>4, <2>6 DEF v
<1> QED
  BY <1>5, <1>6 DEF BeginBlock

\* JoinInv is an invariant: what a full window does to joins (JoinsNotStranded), with the
\* facts that the queue is served before the block's own joins and that these meet the
\* minimum of the block.
THEOREM JoinInvariant == Spec => []JoinInv
<1>1. Init => JoinInv
  <2> SUFFICES ASSUME Init
               PROVE  JoinInv
    OBVIOUS
  <2>1. ASSUME NEW o \in OutPoints, outs[o] = "reg"
        PROVE  reg[Owner(o)].status # "NONE"
    <3>1. o \in Settled \X {1}
      BY <2>1 DEF Init
    <3>2. Owner(o) \in Settled /\ Owner(o) \in Keys /\ Owner(o) \notin Genesis
      BY <3>1, LifecycleAssumption DEF Owner
    <3>3. reg[Owner(o)] = SettledEntry(Owner(o))
      BY <3>2 DEF Init
    <3> QED
      BY <3>3 DEF SettledEntry, GenesisEntry, Unregistered
  <2>2. NewHasNoBls
    <3> SUFFICES ASSUME NEW k \in Keys, reg[k].status = "NONE"
                 PROVE  reg[k].bls = NoBls
      BY DEF NewHasNoBls
    <3>1. reg[k] \in {GenesisEntry, SettledEntry(k), Unregistered}
      BY DEF Init
    <3>2. GenesisEntry.status = "ACTIVE" /\ SettledEntry(k).status = "ACTIVE"
      BY DEF SettledEntry, GenesisEntry, Unregistered
    <3>3. Unregistered.bls = NoBls
      BY DEF Unregistered
    <3> QED
      BY <3>1, <3>2, <3>3
  <2> QED
    BY <2>1, <2>2 DEF Init, JoinInv, JoinsNotStranded, NewWaitsOnlyWhenFull, MinimumMet
<1>2. TypeOK /\ ExitingStaysOut /\ JoinInv /\ [Next]_vars => JoinInv'
  <2> SUFFICES ASSUME TypeOK, ExitingStaysOut, JoinInv, [Next]_vars
               PROVE  JoinInv'
    OBVIOUS
  <2>o. \A o \in OutPoints : Owner(o) \in Keys /\ BlsOf[o] \in BlsKeys
    BY LifecycleAssumption DEF OutPoints, Owner
  <2>q. \A q \in queue : q.out \in OutPoints
    BY DEF TypeOK
  <2>m. ASSUME phase # "idle", height' = height, prev' = prev, minBond' = minBond
        PROVE  MinimumMet'
    BY <2>m DEF JoinInv, MinimumMet, h, active_sorted
  <2>1. ASSUME NEW signers \in SUBSET parent, BeginBlock(signers)
        PROVE  JoinInv'
    <3>1. \A k \in Keys : Kept(reg[k], reg'[k])
      BY <2>1, KeptByOthers
    <3>2. MinimumMet'
      <4>1. prev' = prev /\ prev = reg /\ height' = height /\ height < MaxHeight
        BY <2>1 DEF BeginBlock, ExitingStaysOut
      <4>2. h \in 0..MaxHeight
        BY <4>1, LifecycleAssumption DEF TypeOK, h
      <4>3. active_sorted(reg', h) \in SUBSET active_sorted(prev, h)
        BY <2>1, <4>1, PenaltiesOnly
      <4>4. active_sorted(prev, h) \in SUBSET Keys
        BY DEF active_sorted
      <4>5. MinBond(h, active_sorted(reg', h)) <= MinBond(h, active_sorted(prev, h))
        BY <4>2, <4>3, <4>4, MinBondAssumption
      <4>6. minBond' = MinBond(h, active_sorted(reg', h))
        BY <2>1 DEF BeginBlock
      <4>7. MinBond(h, active_sorted(prev, h))' = MinBond(h, active_sorted(prev, h))
        BY <4>1 DEF h, active_sorted
      <4> QED
        BY <4>1, <4>5, <4>6, <4>7 DEF MinimumMet
    <3> QED
      BY <2>1, <3>1, <3>2, JoinInvKept DEF BeginBlock
  <2>2. CASE AdmitQueued
    <3>1. PICK q \in Ready : Register(q.out) /\ queue' = queue \ {q}
      BY <2>2 DEF AdmitQueued
    <3>2. q.out \in OutPoints /\ q \in queue /\ Registrable(q.out)
      BY <2>q DEF Ready
    <3>h. HeldByAll
      BY <3>1, <3>2, Registered DEF HeldByAll, EntryHeld
    <3>3. JoinsNotStranded'
      <4> SUFFICES ASSUME NEW o \in OutPoints, outs[o] = "reg", reg'[Owner(o)].status = "NONE"
                   PROVE  (\E p \in queue' : p.out = o) \/ TakenBls(reg, Owner(o), BlsOf[o])'
        BY <2>2 DEF AdmitQueued, JoinsNotStranded
      <4>1. Owner(o) # Owner(q.out) /\ reg[Owner(o)].status = "NONE"
        BY <2>o, <3>1, <3>2, Registered
      <4>2. (\E p \in queue : p.out = o) \/ TakenBls(reg, Owner(o), BlsOf[o])
        BY <4>1 DEF JoinInv, JoinsNotStranded
      <4> QED
        BY <3>1, <3>h, <4>1, <4>2, HeldKeeps
    <3>4. MinimumMet'
      BY <2>2, <2>m DEF AdmitQueued
    <3> QED
      BY <2>2, <3>h, <3>3, <3>4, HeldKeeps DEF AdmitQueued, JoinInv, NewWaitsOnlyWhenFull
  <2>3. CASE QueueDone
    <3>1. JoinsNotStranded'
      BY <2>3 DEF QueueDone, JoinInv, JoinsNotStranded, TakenBls
    <3>2. NewReady # {} => WindowFull
      BY <2>3 DEF QueueDone, NewReady
    <3>3. NewReady' = NewReady /\ WindowFull' = WindowFull
      BY <2>3 DEF QueueDone, NewReady, Ready, Registrable, can_register_bond, bls_key_assignable,
                  TakenBls, WindowFull, h
    <3>4. NewWaitsOnlyWhenFull'
      BY <3>2, <3>3 DEF NewWaitsOnlyWhenFull
    <3>5. MinimumMet' /\ NewHasNoBls'
      BY <2>3, <2>m DEF QueueDone, JoinInv, NewHasNoBls
    <3> QED
      BY <3>1, <3>4, <3>5 DEF JoinInv
  <2>4. ASSUME NEW o \in OutPoints, Unbond(o) \/ Withdraw(o) \/ Slash(o)
        PROVE  JoinInv'
    <3>1. \A k \in Keys : Kept(reg[k], reg'[k])
      BY <2>4, KeptByOthers
    <3>2. \A p \in OutPoints : outs'[p] = "reg" => outs[p] = "reg"
      BY <2>4 DEF Unbond, Withdraw, Slash, Spend, TypeOK
    <3>3. MinimumMet'
      BY <2>4, <2>m DEF Unbond, Withdraw, Slash, Spend
    <3> QED
      BY <2>4, <3>1, <3>2, <3>3, JoinInvKept DEF Unbond, Withdraw, Slash, Spend
  <2>5. ASSUME NEW o \in OutPoints, Join(o)
        PROVE  JoinInv'
    <3>0. /\ phase \in {"spends", "outputs"}
          /\ \A p \in OutPoints : p # o /\ outs'[p] = "reg" => outs[p] = "reg"
      BY <2>5 DEF Join, TypeOK
    <3>m. MinimumMet'
      BY <2>5, <2>m, <3>0 DEF Join
    <3>1. CASE WindowFull
      <4>1. queue' = queue \cup {[out |-> o, at |-> h]} /\ reg' = reg /\ joins' = joins
        BY <2>5, <3>1 DEF Join, WaitWhenFull
      <4>h. HeldByAll
        BY <4>1 DEF HeldByAll, EntryHeld
      <4>2. JoinsNotStranded'
        <5> SUFFICES ASSUME NEW p \in OutPoints, outs'[p] = "reg", reg[Owner(p)].status = "NONE"
                     PROVE  (\E q \in queue' : q.out = p) \/ TakenBls(reg, Owner(p), BlsOf[p])'
          BY <4>1 DEF JoinsNotStranded
        <5>1. CASE p = o
          <6>1. [out |-> o, at |-> h] \in queue' /\ [out |-> o, at |-> h].out = o
            BY <4>1
          <6> QED
            BY <5>1, <6>1
        <5>2. CASE p # o
          <6>1. (\E q \in queue : q.out = p) \/ TakenBls(reg, Owner(p), BlsOf[p])
            BY <3>0, <5>2 DEF JoinInv, JoinsNotStranded
          <6> QED
            BY <4>1, <4>h, <6>1, HeldKeeps
        <5> QED
          BY <5>1, <5>2
      <4>3. NewWaitsOnlyWhenFull'
        BY <3>1, <4>1 DEF NewWaitsOnlyWhenFull, WindowFull
      <4> QED
        BY <3>m, <4>2, <4>3, <4>h, HeldKeeps DEF JoinInv
    <3>2. CASE ~WindowFull
      <4>1. queue' = queue
        BY <2>5, <3>2 DEF Join
      <4>2. reg[Owner(o)].status = "NONE" /\ ~TakenBls(reg, Owner(o), BlsOf[o]) => Registrable(o)
        <5>1. Amount[o] >= MinBond(h, active_sorted(prev, h))
          BY <2>5 DEF Join
        <5>2. minBond <= MinBond(h, active_sorted(prev, h)) /\ height < MaxHeight
          BY <3>0 DEF JoinInv, MinimumMet
        <5>3. MinBond(h, active_sorted(prev, h)) \in Nat
          <6>1. h \in 0..MaxHeight /\ active_sorted(prev, h) \in SUBSET Keys
            BY <5>2, LifecycleAssumption DEF TypeOK, h, active_sorted
          <6> QED
            BY <6>1, MinBondAssumption
        <5>4. Amount[o] >= minBond
          <6>1. Amount[o] \in Nat /\ minBond \in Nat
            BY LifecycleAssumption DEF TypeOK
          <6> QED
            BY <5>1, <5>2, <5>3, <6>1
        <5> QED
          BY <2>o, <5>4 DEF Registrable, can_register_bond, bls_key_assignable, JoinInv, NewHasNoBls
      <4>3. (reg' = reg /\ ~Registrable(o)) \/ (Register(o) /\ Registrable(o))
        BY <2>5, <3>2 DEF Join
      <4>h. HeldByAll
        <5>1. CASE reg' = reg
          BY <5>1 DEF HeldByAll, EntryHeld
        <5>2. CASE Register(o) /\ Registrable(o)
          BY <5>2, Registered DEF HeldByAll, EntryHeld
        <5> QED
          BY <4>3, <5>1, <5>2
      <4>4. ASSUME NEW k \in Keys, reg'[k].status = "NONE"
            PROVE  reg[k].status = "NONE" /\ (k = Owner(o) => TakenBls(reg, k, BlsOf[o]))
        <5>1. reg[k].status = "NONE"
          BY <4>4, <4>h DEF HeldByAll, EntryHeld
        <5>2. CASE Register(o) /\ Registrable(o)
          BY <4>4, <5>1, <5>2, Registered
        <5>3. CASE ~Registrable(o)
          BY <5>1, <5>3, <4>2
        <5> QED
          BY <4>3, <5>1, <5>2, <5>3
      <4>5. JoinsNotStranded'
        <5> SUFFICES ASSUME NEW p \in OutPoints, outs'[p] = "reg", reg'[Owner(p)].status = "NONE"
                     PROVE  (\E q \in queue : q.out = p) \/ TakenBls(reg, Owner(p), BlsOf[p])'
          BY <4>1 DEF JoinsNotStranded
        <5>1. CASE p = o
          BY <2>o, <4>4, <4>h, <5>1, HeldKeeps
        <5>2. CASE p # o
          <6>1. outs[p] = "reg" /\ reg[Owner(p)].status = "NONE"
            BY <2>o, <3>0, <4>4, <5>2
          <6> QED
            BY <4>h, <6>1, HeldKeeps DEF JoinInv, JoinsNotStranded
        <5> QED
          BY <5>1, <5>2
      <4>6. NewWaitsOnlyWhenFull'
        <5>1. NewReady = {}
          BY <3>0, <3>2 DEF JoinInv, NewWaitsOnlyWhenFull
        <5>2. minBond' = minBond
          BY <2>5 DEF Join
        <5>3. NewReady' = {}
          <6> SUFFICES ASSUME NEW q \in NewReady'
                       PROVE  FALSE
            OBVIOUS
          <6>1. q \in queue
            BY <4>1 DEF NewReady, Ready
          <6>2. q \in NewReady
            BY <4>h, <5>2, <6>1, ReadyShrinks
          <6> QED
            BY <5>1, <6>2
        <5> QED
          BY <5>3 DEF NewWaitsOnlyWhenFull
      <4> QED
        BY <3>m, <4>5, <4>6, <4>h, HeldKeeps DEF JoinInv
    <3> QED
      BY <3>1, <3>2
  <2>6. ASSUME NEW k \in Keys, NEW b \in BlsKeys, Onboard(k, b)
        PROVE  JoinInv'
    <3>1. \A j \in Keys : Kept(reg[j], reg'[j])
      BY <2>6, KeptByOthers
    <3>2. MinimumMet'
      BY <2>6, <2>m DEF Onboard
    <3> QED
      BY <2>6, <3>1, <3>2, JoinInvKept DEF Onboard
  <2>7. CASE EndBlock
    <3>1. \A j \in Keys : Kept(reg[j], reg'[j])
      BY <2>7, KeptByOthers
    <3>2. MinimumMet'
      BY <2>7 DEF EndBlock, MinimumMet
    <3> QED
      BY <2>7, <3>1, <3>2, JoinInvKept DEF EndBlock
  <2>8. CASE UNCHANGED vars
    <3>1. \A j \in Keys : Kept(reg[j], reg'[j])
      BY <2>8, KeptByOthers
    <3>2. MinimumMet'
      BY <2>8 DEF vars, JoinInv, MinimumMet, h, active_sorted
    <3> QED
      BY <2>8, <3>1, <3>2, JoinInvKept DEF vars
  <2> QED
    BY <2>1, <2>2, <2>3, <2>4, <2>5, <2>6, <2>7, <2>8 DEF Next
<1> QED
  BY <1>1, <1>2, TypeInvariant, ExitInvariant, PTL DEF Spec

\* Neither a full join window nor the minimum strands a bond: only a key for time signatures
\* that another validator registered in the meantime does.
THEOREM QueuedNotStranded == Spec => []JoinsNotStranded
  BY JoinInvariant, PTL DEF JoinInv

\* Joins of new keys that can register do so in the order in which the chain took them: a
\* request is overtaken only while it is below the minimum, or once its key for time
\* signatures is another's.
THEOREM QueueInOrder == Spec => NoQueueJumping
<1> DEFINE A == \A q \in NewReady \cap queue', k \in Keys :
                   reg'[k].bond \notin {reg[k].bond, Zero}
                   => \E older \in queue : older.out = reg'[k].bond /\ older.at <= q.at
<1>1. TypeOK /\ JoinInv /\ [Next]_vars => [A]_vars
  <2> SUFFICES ASSUME TypeOK, JoinInv, Next, NEW q \in NewReady \cap queue', NEW k \in Keys,
                      reg'[k].bond \notin {reg[k].bond, Zero}
               PROVE  \E older \in queue : older.out = reg'[k].bond /\ older.at <= q.at
    OBVIOUS
  <2>1. CASE AdmitQueued
    <3>1. PICK p \in Ready : (\A q2 \in Ready : p.at <= q2.at) /\ Register(p.out)
      BY <2>1 DEF AdmitQueued
    <3>2. p \in queue /\ p.out \in OutPoints /\ Registrable(p.out)
      BY DEF Ready, TypeOK
    <3>3. q \in Ready
      BY DEF NewReady
    <3>4. reg'[k].bond = p.out
      BY <3>1, <3>2, Registered
    <3> QED
      BY <3>1, <3>2, <3>3, <3>4
  <2>2. ASSUME NEW o \in OutPoints, Join(o)
        PROVE  FALSE
    <3>1. WindowFull
      BY <2>2 DEF Join, JoinInv, NewWaitsOnlyWhenFull
    <3> QED
      BY <2>2, <3>1 DEF Join, WaitWhenFull
  <2>3. CASE ~AdmitQueued /\ ~\E o \in OutPoints : Join(o)
    <3>1. Kept(reg[k], reg'[k])
      BY <2>3, KeptByOthers DEF Next
    <3> QED
      BY <3>1 DEF Kept
  <2> QED
    BY <2>1, <2>2, <2>3
<1> QED
  BY <1>1, TypeInvariant, JoinInvariant, PTL DEF Spec, NoQueueJumping

-------------------------------------------------------------------------------
(* The onboarding: what a record and the running call may be.                   *)

Outputs == FirstOutputs \cup DOMAIN Values
JoinTxs == [inputs : SUBSET Outputs, epoch : Nat]

\* Nothing has been chosen yet.
Early == {"WAITING_FOR_SYNC", "WAITING_FOR_FUNDS", "CHECKING_PREREQS", "SELECTING_UTXOS"}

\* A call advances the record through these states, in this order, and persists none of them.
Passing == {"CHECKING_PREREQS", "SELECTING_UTXOS", "BUILDING_JOIN_TX", "BROADCASTING_JOIN_TX"}

Durable == {"absent", "WAITING_FOR_SYNC", "WAITING_FOR_FUNDS", "WAITING_FOR_FINALIZATION", "PENDING_ACTIVATION",
            "ACTIVE", "FAILED", "CANCELLED"}
Errors == {"none", "node_not_ready", "selection_failed", "reserved_input_unavailable", "build_failed", "tx_rejected",
           "tx_finalization_timeout"}

OnRecords ==
    [state : Durable \cup Passing, inputs : SUBSET Outputs, tx : JoinTxs, attempted : BOOLEAN,
     outcome : {"NONE", "SENT", "REJECTED", "AMBIGUOUS"}, error : Errors]

OnTypeOK ==
    /\ record \in OnRecords /\ call \in [record : OnRecords, steps : Nat]
    /\ wallet_outputs \in SUBSET Outputs /\ tip \in Nat
    /\ join \in {"none", "QUEUED", "PENDING", "ACTIVE"}
    /\ pooled \subseteq JoinTxs /\ accepted \subseteq JoinTxs /\ crashes \in Nat

\* How many iterations it takes at most to come to a state.
MostSteps(state) ==
    CASE state = "CHECKING_PREREQS" -> 1
      [] state = "SELECTING_UTXOS" -> 2
      [] state = "BUILDING_JOIN_TX" -> 3
      [] state = "BROADCASTING_JOIN_TX" -> 4
      [] OTHER -> 0

\* Nothing was broadcast before a transaction is there, and its outcome is known after.
Bookkept(r) ==
    /\ r.state \in Early \cup {"BUILDING_JOIN_TX"} => ~r.attempted
    /\ r.state = "BROADCASTING_JOIN_TX" =>
          /\ r.inputs # {} /\ r.tx = [inputs |-> r.inputs, epoch |-> Epoch(tip)]
          /\ r.attempted => r.outcome # "NONE"

\* The accepted transactions all spend the inputs of this record, which is not given up.
Covers(r) ==
    accepted # {} =>
        /\ r.state \notin Early \cup {"absent", "CANCELLED"}
        /\ r.inputs # {} /\ \A t \in accepted : t.inputs = r.inputs

OnInv ==
    /\ OnTypeOK
    /\ record.state \in Durable
    /\ record.state \in Early => ~record.attempted
    /\ record.state = "absent" => record = NoRecord
    /\ call.steps <= MostSteps(call.record.state) /\ Bookkept(call.record)
    /\ Calling => call.record.state # "absent"
    /\ Calling /\ record.state = "CANCELLED" => call.record.state = "CANCELLED"
    /\ crashes = 0 => /\ Covers(IF Calling THEN call.record ELSE record)
                      /\ join # "none" => accepted # {}
                      /\ pooled \subseteq accepted
                      /\ record.state = "CANCELLED" => accepted = {}
\* An iteration that ends the call leaves a record that may be kept.
LEMMA ReturnKeeps ==
    ASSUME OnInv, Calling, NEW r \in OnRecords, Return(r),
           r.state \in Durable \ {"absent"}, r.state \in Early => ~r.attempted, crashes = 0 => Covers(r),
           UNCHANGED <<finalizedVars, pooled, accepted, crashes>>
    PROVE  OnInv'
<1> USE DEF finalizedVars
<1>1. record' = r /\ call' = NoCall /\ ~Calling'
  BY DEF Return, Calling
<1>2. OnTypeOK' /\ call'.steps = 0 /\ call'.record = NoRecord
  <2>1. NoRecord \in OnRecords
    BY DEF NoRecord, NewRecord, NoTx, OnRecords, JoinTxs, Durable, Errors
  <2> QED
    BY <1>1, <2>1 DEF OnInv, OnTypeOK, NoCall
<1>3. NoRecord.state = "absent"
  BY DEF NoRecord, NewRecord
<1>4. (call.steps <= MostSteps(call.record.state))' /\ Bookkept(call.record)'
  BY <1>2, <1>3 DEF MostSteps, Bookkept, Early
<1>5. (crashes = 0 => Covers(IF Calling THEN call.record ELSE record))'
  BY <1>1 DEF Covers
<1>6. (crashes = 0 /\ join # "none" => accepted # {})' /\ (crashes = 0 => pooled \subseteq accepted)'
  BY DEF OnInv
<1>7. (crashes = 0 /\ record.state = "CANCELLED" => accepted = {})'
  BY <1>1 DEF Covers
<1> QED
  BY <1>1, <1>2, <1>4, <1>5, <1>6, <1>7 DEF OnInv, Early

\* An iteration that goes on comes to its next state within the limit.
LEMMA ContinueKeeps ==
    ASSUME OnInv, Calling, NEW r \in OnRecords, Continue(r),
           call.record.state # "CANCELLED", r.state \in Passing, Bookkept(r), crashes = 0 => Covers(r),
           call.steps + 1 <= MostSteps(r.state), UNCHANGED <<finalizedVars, pooled, accepted, crashes>>
    PROVE  OnInv'
<1> USE DEF finalizedVars
<1>1. call.steps \in Nat /\ MostSteps(r.state) <= 4
  BY DEF OnInv, OnTypeOK, MostSteps
<1>2. call.steps + 1 < StepLimit
  BY <1>1, OnboardingAssumption, r.state \in Passing DEF MostSteps, Passing
<1>3. record' = record /\ call' = [record |-> r, steps |-> call.steps + 1]
  BY <1>2 DEF Continue
<1>4. call'.record = r /\ call'.steps = call.steps + 1
  BY <1>3
<1>5. NoRecord.state = "absent" /\ r.state # "absent"
  BY DEF NoRecord, NewRecord, Passing
<1>6. Calling'
  BY <1>4, <1>5 DEF Calling, NoCall
<1>7. OnTypeOK'
  BY <1>1, <1>3 DEF OnInv, OnTypeOK
<1>8. (call.steps <= MostSteps(call.record.state))' /\ Bookkept(call.record)'
  BY <1>4 DEF Bookkept, Epoch
<1>9. (crashes = 0 => Covers(IF Calling THEN call.record ELSE record))'
  BY <1>4, <1>6 DEF Covers
<1>10. record.state # "CANCELLED"
  BY DEF OnInv
<1> QED
  BY <1>3, <1>4, <1>5, <1>6, <1>7, <1>8, <1>9, <1>10 DEF OnInv

\* A field of a record that is set, and the fields that are not.
LEMMA SetState ==
    ASSUME NEW r \in OnRecords, NEW s \in Durable \cup Passing
    PROVE  /\ [r EXCEPT !.state = s] \in OnRecords
           /\ [r EXCEPT !.state = s].state = s
           /\ [r EXCEPT !.state = s].inputs = r.inputs
           /\ [r EXCEPT !.state = s].tx = r.tx
           /\ [r EXCEPT !.state = s].attempted = r.attempted
           /\ [r EXCEPT !.state = s].outcome = r.outcome
  BY DEF OnRecords

LEMMA SetRebuild ==
    ASSUME NEW r \in OnRecords
    PROVE  LET n == reset_join_tx_for_pow_rebuild(r)
           IN  n \in OnRecords /\ n.state = "BUILDING_JOIN_TX" /\ n.inputs = r.inputs /\ n.attempted = FALSE
<1>1. NoTx \in JoinTxs
  BY DEF NoTx, JoinTxs
<1> QED
  BY <1>1 DEF OnRecords, reset_join_tx_for_pow_rebuild, Errors, Passing

\* What holds of the record of a call that the finalized state does not decide.
LEMMA CallFacts ==
    ASSUME OnInv, Calling
    PROVE  /\ call.record \in OnRecords /\ call.steps \in Nat
           /\ call.steps <= MostSteps(call.record.state) /\ Bookkept(call.record)
           /\ crashes = 0 => Covers(call.record)
           /\ call.record.state # "absent"
  BY DEF OnInv, OnTypeOK

\* A call that fails in one of these ways keeps its inputs.
LEMMA FailKeeps ==
    ASSUME OnInv, Calling, NEW e \in Errors, Fail(call.record, e),
           call.record.state # "CANCELLED", UNCHANGED <<finalizedVars, pooled, accepted, crashes>>
    PROVE  OnInv'
<1> DEFINE r == [call.record EXCEPT !.state = "FAILED", !.error = e]
<1>1. r \in OnRecords /\ r.state = "FAILED" /\ r.inputs = call.record.inputs
  BY CallFacts DEF OnRecords, Durable
<1>2. crashes = 0 => Covers(r)
  BY <1>1, CallFacts DEF Covers, Early
<1>3. Return(r)
  BY DEF Fail
<1> QED
  BY <1>1, <1>2, <1>3, ReturnKeeps DEF Durable, Early
LEMMA RegistryKeeps ==
    ASSUME OnInv, FollowRegistry
    PROVE  OnInv'
<1> DEFINE a == [call.record EXCEPT !.state = "ACTIVE", !.error = "none"]
           b == [call.record EXCEPT !.state = "PENDING_ACTIVATION"]
<1>1. Calling /\ join \in {"PENDING", "ACTIVE"} /\ UNCHANGED <<finalizedVars, pooled, accepted, crashes>>
  BY DEF FollowRegistry
<1>2. a \in OnRecords /\ a.state = "ACTIVE" /\ a.inputs = call.record.inputs
  BY <1>1, CallFacts DEF OnRecords, Durable, Errors
<1>3. b \in OnRecords /\ b.state = "PENDING_ACTIVATION" /\ b.inputs = call.record.inputs
  BY <1>1, CallFacts DEF OnRecords, Durable
<1>4. (crashes = 0 => Covers(a)) /\ (crashes = 0 => Covers(b))
  BY <1>1, <1>2, <1>3, CallFacts DEF Covers, Early
<1>5. CASE join = "ACTIVE"
  <2>1. Return(a)
    BY <1>5 DEF FollowRegistry
  <2> QED
    BY <1>1, <1>2, <1>4, <2>1, ReturnKeeps DEF Durable, Early
<1>6. CASE join # "ACTIVE"
  <2>1. Return(b)
    BY <1>6 DEF FollowRegistry
  <2> QED
    BY <1>1, <1>3, <1>4, <2>1, ReturnKeeps DEF Durable, Early
<1> QED
  BY <1>5, <1>6

LEMMA PrereqsKeep ==
    ASSUME OnInv, NEW b \in BOOLEAN, CheckingPrereqs(b)
    PROVE  OnInv'
<1> DEFINE s == [call.record EXCEPT !.state = "WAITING_FOR_SYNC", !.error = "none"]
           f == [call.record EXCEPT !.state = "WAITING_FOR_FUNDS", !.error = "none"]
           u == [call.record EXCEPT !.state = "SELECTING_UTXOS"]
<1>1. /\ Calling /\ call.record.state = "CHECKING_PREREQS"
      /\ UNCHANGED <<finalizedVars, pooled, accepted, crashes>>
  BY DEF CheckingPrereqs, At
<1>2. ~call.record.attempted /\ (crashes = 0 => accepted = {}) /\ call.steps <= 1 /\ call.steps \in Nat
  BY <1>1, CallFacts DEF Bookkept, Covers, Early, MostSteps
<1>3. s \in OnRecords /\ s.state = "WAITING_FOR_SYNC" /\ s.attempted = call.record.attempted
  BY <1>1, CallFacts DEF OnRecords, Durable, Errors
<1>4. f \in OnRecords /\ f.state = "WAITING_FOR_FUNDS" /\ f.attempted = call.record.attempted
  BY <1>1, CallFacts DEF OnRecords, Durable, Errors
<1>5. u \in OnRecords /\ u.state = "SELECTING_UTXOS" /\ u.attempted = call.record.attempted
  BY <1>1, CallFacts DEF OnRecords, Passing
<1>6. CASE Return(s)
  BY <1>1, <1>2, <1>3, <1>6, ReturnKeeps DEF Durable, Covers
<1>7. CASE Fail(call.record, "node_not_ready")
  BY <1>1, <1>7, FailKeeps DEF Errors
<1>8. CASE Return(f)
  BY <1>1, <1>2, <1>4, <1>8, ReturnKeeps DEF Durable, Covers
<1>9. CASE Continue(u)
  <2>1. Bookkept(u) /\ (crashes = 0 => Covers(u)) /\ u.state \in Passing /\ call.steps + 1 <= MostSteps(u.state)
    BY <1>2, <1>5 DEF Bookkept, Covers, Passing, MostSteps
  <2> QED
    BY <1>1, <1>5, <1>9, <2>1, ContinueKeeps
<1> QED
  BY <1>6, <1>7, <1>8, <1>9 DEF CheckingPrereqs

LEMMA WaitingKeeps ==
    ASSUME OnInv, WaitingForSync \/ WaitingForFunds
    PROVE  OnInv'
<1> DEFINE u == [call.record EXCEPT !.state = "CHECKING_PREREQS"]
<1>1. /\ Calling /\ call.record.state \in {"WAITING_FOR_SYNC", "WAITING_FOR_FUNDS"}
      /\ UNCHANGED <<finalizedVars, pooled, accepted, crashes>>
  BY DEF WaitingForSync, WaitingForFunds, At
<1>2. ~call.record.attempted /\ (crashes = 0 => accepted = {}) /\ call.steps = 0
  BY <1>1, CallFacts DEF Bookkept, Covers, Early, MostSteps
<1>3. u \in OnRecords /\ u.state = "CHECKING_PREREQS" /\ u.attempted = call.record.attempted
  BY <1>1, CallFacts DEF OnRecords, Passing
<1>4. CASE Return(call.record)
  BY <1>1, <1>2, <1>4, CallFacts, ReturnKeeps DEF Durable
<1>5. CASE Continue(u)
  <2>1. Bookkept(u) /\ (crashes = 0 => Covers(u)) /\ u.state \in Passing /\ call.steps + 1 <= MostSteps(u.state)
    BY <1>2, <1>3 DEF Bookkept, Covers, Passing, MostSteps
  <2> QED
    BY <1>1, <1>3, <1>5, <2>1, ContinueKeeps
<1> QED
  BY <1>4, <1>5 DEF WaitingForSync, WaitingForFunds

LEMMA SelectingKeeps ==
    ASSUME OnInv, SelectingUtxos
    PROVE  OnInv'
<1> DEFINE u == [call.record EXCEPT !.inputs = select_deterministic_utxos, !.state = "BUILDING_JOIN_TX"]
<1>1. /\ Calling /\ call.record.state = "SELECTING_UTXOS"
      /\ UNCHANGED <<finalizedVars, pooled, accepted, crashes>>
  BY DEF SelectingUtxos, At
<1>2. ~call.record.attempted /\ (crashes = 0 => accepted = {}) /\ call.steps <= 2 /\ call.steps \in Nat
  BY <1>1, CallFacts DEF Bookkept, Covers, Early, MostSteps
<1>3. select_deterministic_utxos \in SUBSET Outputs
  BY Zenon DEF select_deterministic_utxos, OnInv, OnTypeOK
<1>4. u \in OnRecords /\ u.state = "BUILDING_JOIN_TX" /\ u.attempted = call.record.attempted
  BY <1>1, <1>3, CallFacts DEF OnRecords, Passing
<1>5. CASE Fail(call.record, "selection_failed")
  BY <1>1, <1>5, FailKeeps DEF Errors
<1>6. CASE Continue(u)
  <2>1. Bookkept(u) /\ (crashes = 0 => Covers(u)) /\ u.state \in Passing /\ call.steps + 1 <= MostSteps(u.state)
    BY <1>2, <1>4 DEF Bookkept, Covers, Passing, MostSteps
  <2> QED
    BY <1>1, <1>4, <1>6, <2>1, ContinueKeeps
<1> QED
  BY <1>5, <1>6 DEF SelectingUtxos

LEMMA BuildingKeeps ==
    ASSUME OnInv, BuildingJoinTx
    PROVE  OnInv'
<1> DEFINE tx == [inputs |-> call.record.inputs, epoch |-> Epoch(tip)]
           u == [call.record EXCEPT !.tx = tx, !.outcome = "NONE", !.state = "BROADCASTING_JOIN_TX"]
<1>1. /\ Calling /\ call.record.state = "BUILDING_JOIN_TX"
      /\ UNCHANGED <<finalizedVars, pooled, accepted, crashes>>
  BY DEF BuildingJoinTx, At
<1>2. ~call.record.attempted /\ call.steps <= 3 /\ call.steps \in Nat
  BY <1>1, CallFacts DEF Bookkept, Early, MostSteps
<1>3. Epoch(tip) \in Nat
  BY OnboardingAssumption DEF Epoch, OnInv, OnTypeOK
<1>4. /\ u \in OnRecords /\ u.state = "BROADCASTING_JOIN_TX" /\ u.attempted = call.record.attempted
      /\ u.inputs = call.record.inputs /\ u.tx = tx
  BY <1>1, <1>3, CallFacts DEF OnRecords, JoinTxs, Passing
<1>5. CASE Fail(call.record, "selection_failed")
  BY <1>1, <1>5, FailKeeps DEF Errors
<1>6. CASE Fail(call.record, "reserved_input_unavailable")
  BY <1>1, <1>6, FailKeeps DEF Errors
<1>7. CASE call.record.inputs # {} /\ Continue(u)
  <2>1. u.state \in Passing /\ call.steps + 1 <= MostSteps(u.state)
    BY <1>2, <1>4 DEF Passing, MostSteps
  <2>2. crashes = 0 => Covers(u)
    BY <1>1, <1>4, CallFacts DEF Covers, Early
  <2>3. Bookkept(u)
    BY <1>2, <1>4, <1>7 DEF Bookkept, Early
  <2> QED
    BY <1>1, <1>4, <1>7, <2>1, <2>2, <2>3, ContinueKeeps
<1>8. CASE Fail(call.record, "build_failed")
  BY <1>1, <1>8, FailKeeps DEF Errors
<1> QED
  BY <1>5, <1>6, <1>7, <1>8 DEF BuildingJoinTx
\* The proof of work of a transaction is of the epoch it is broadcast in, so it is not expired.
LEMMA BroadcastingKeeps ==
    ASSUME OnInv, NEW outcome \in {"SENT", "REJECTED", "AMBIGUOUS"}, NEW taken \in BOOLEAN,
           BroadcastingJoinTx(outcome, taken)
    PROVE  OnInv'
<1> DEFINE r == call.record
           n == [r EXCEPT !.attempted = TRUE, !.outcome = outcome]
<1> USE DEF finalizedVars
<1>1. Calling /\ r.state = "BROADCASTING_JOIN_TX" /\ UNCHANGED <<finalizedVars, crashes>>
  BY DEF BroadcastingJoinTx, At
<1>2. r \in OnRecords /\ r.inputs # {} /\ r.tx = [inputs |-> r.inputs, epoch |-> Epoch(tip)]
  BY <1>1, CallFacts DEF Bookkept
<1>3. r.tx # NoTx /\ r.tx.inputs = r.inputs /\ r.tx \in JoinTxs
  BY <1>2 DEF NoTx, OnRecords
<1>4. Epoch(tip) \in Nat
  BY OnboardingAssumption DEF Epoch, OnInv, OnTypeOK
<1>5. ~join_tx_admission_pow_expired(r.tx)
  BY <1>2, <1>4 DEF join_tx_admission_pow_expired
<1>6. /\ call' = [call EXCEPT !.record.attempted = TRUE, !.record.outcome = outcome]
      /\ pooled' = IF taken THEN pooled \cup {r.tx} ELSE pooled
      /\ accepted' = IF taken THEN accepted \cup {r.tx} ELSE accepted
      /\ UNCHANGED record
  BY <1>3, <1>5 DEF BroadcastingJoinTx
<1>7. call'.record = n /\ call'.steps = call.steps
  BY <1>6 DEF OnInv, OnTypeOK, OnRecords
<1>8. /\ n \in OnRecords /\ n.state = r.state /\ n.inputs = r.inputs /\ n.tx = r.tx
      /\ n.outcome = outcome /\ n.attempted = TRUE
  BY <1>2 DEF OnRecords
<1>9. OnTypeOK'
  <2>1. pooled' \subseteq JoinTxs /\ accepted' \subseteq JoinTxs
    BY <1>3, <1>6 DEF OnInv, OnTypeOK
  <2>2. call' \in [record : OnRecords, steps : Nat]
    BY <1>6, <1>7, <1>8 DEF OnInv, OnTypeOK
  <2> QED
    BY <1>1, <1>6, <2>1, <2>2 DEF OnInv, OnTypeOK
<1>10. Bookkept(call.record)'
  BY <1>1, <1>2, <1>7, <1>8 DEF Bookkept, Early, Epoch
<1>11. Calling'
  <2>1. NoRecord.state = "absent"
    BY DEF NoRecord, NewRecord
  <2>2. call'.record.state = "BROADCASTING_JOIN_TX"
    BY <1>1, <1>7, <1>8
  <2> QED
    BY <2>1, <2>2 DEF Calling, NoCall
<1>12. ASSUME crashes = 0
       PROVE  Covers(call.record)'
  <2>1. \A t \in accepted : t.inputs = r.inputs
    BY <1>1, <1>12, CallFacts DEF Covers
  <2>2. \A t \in accepted' : t.inputs = r.inputs
    BY <1>3, <1>6, <2>1
  <2> QED
    BY <1>1, <1>2, <1>7, <1>8, <2>2 DEF Covers, Early
<1>13. record.state # "CANCELLED"
  BY <1>1 DEF OnInv
<1>14. crashes = 0 => pooled' \subseteq accepted' /\ (join' # "none" => accepted' # {})
  BY <1>1, <1>6 DEF OnInv
<1>15. (call.steps <= MostSteps(call.record.state))'
  BY <1>7, <1>8 DEF OnInv
<1>16. (record.state \in Durable /\ (record.state \in Early => ~record.attempted) /\ (record.state = "absent" => record = NoRecord))'
  BY <1>6 DEF OnInv
<1> QED
  BY <1>1, <1>6, <1>7, <1>8, <1>9, <1>10, <1>11, <1>12, <1>13, <1>14, <1>15, <1>16 DEF OnInv

LEMMA AfterBroadcastKeeps ==
    ASSUME OnInv, AfterBroadcast
    PROVE  OnInv'
<1> DEFINE u == [call.record EXCEPT !.state = "WAITING_FOR_FINALIZATION"]
<1>1. /\ Calling /\ call.record.state = "BROADCASTING_JOIN_TX" /\ call.record.attempted
      /\ UNCHANGED <<finalizedVars, pooled, accepted, crashes>>
  BY DEF AfterBroadcast, At
<1>2. call.record.outcome # "NONE"
  BY <1>1, CallFacts DEF Bookkept
<1>3. u \in OnRecords /\ u.state = "WAITING_FOR_FINALIZATION" /\ u.inputs = call.record.inputs
  BY <1>1, CallFacts DEF OnRecords, Durable
<1>4. CASE Fail(call.record, "tx_rejected")
  BY <1>1, <1>4, FailKeeps DEF Errors
<1>5. CASE Return(u)
  <2>1. crashes = 0 => Covers(u)
    BY <1>1, <1>3, CallFacts DEF Covers, Early
  <2> QED
    BY <1>1, <1>3, <1>5, <2>1, ReturnKeeps DEF Durable, Early
<1> QED
  BY <1>2, <1>4, <1>5 DEF AfterBroadcast

LEMMA FinalizationKeeps ==
    ASSUME OnInv, NEW late \in BOOLEAN, WaitingForFinalization(late)
    PROVE  OnInv'
<1> DEFINE b == [call.record EXCEPT !.state = "PENDING_ACTIVATION"]
           n == reset_join_tx_for_pow_rebuild(call.record)
<1>1. /\ Calling /\ call.record.state = "WAITING_FOR_FINALIZATION"
      /\ UNCHANGED <<finalizedVars, pooled, accepted, crashes>>
  BY DEF WaitingForFinalization, At
<1>2. call.record \in OnRecords /\ call.steps = 0
  BY <1>1, CallFacts DEF MostSteps
<1>3. n \in OnRecords /\ n.state = "BUILDING_JOIN_TX" /\ n.inputs = call.record.inputs /\ n.attempted = FALSE
  BY <1>2, SetRebuild
<1>4. b \in OnRecords /\ b.state = "PENDING_ACTIVATION" /\ b.inputs = call.record.inputs
  BY <1>2 DEF OnRecords, Durable
<1>5. CASE Continue(n)
  <2> HIDE DEF n
  <2>1. Bookkept(n) /\ n.state \in Passing /\ call.steps + 1 <= MostSteps(n.state)
    BY <1>2, <1>3 DEF Bookkept, Passing, MostSteps
  <2>2. crashes = 0 => Covers(n)
    BY <1>1, <1>3, CallFacts DEF Covers, Early
  <2> QED
    BY <1>1, <1>3, <1>5, <2>1, <2>2, ContinueKeeps
<1>6. CASE Fail(call.record, "tx_finalization_timeout")
  BY <1>1, <1>6, FailKeeps DEF Errors
<1>7. CASE Return(b)
  <2>1. crashes = 0 => Covers(b)
    BY <1>1, <1>4, CallFacts DEF Covers, Early
  <2> QED
    BY <1>1, <1>4, <1>7, <2>1, ReturnKeeps DEF Durable, Early
<1>8. CASE Return(call.record)
  BY <1>1, <1>2, <1>8, CallFacts, ReturnKeeps DEF Durable, Early
<1> QED
  BY <1>5, <1>6, <1>7, <1>8 DEF WaitingForFinalization

LEMMA SettledKeeps ==
    ASSUME OnInv, RecordSettled
    PROVE  OnInv'
<1>1. /\ Calling /\ call.record.state \in {"PENDING_ACTIVATION", "ACTIVE", "FAILED", "CANCELLED"}
      /\ UNCHANGED <<finalizedVars, pooled, accepted, crashes>> /\ Return(call.record)
  BY DEF RecordSettled, At
<1> QED
  BY <1>1, CallFacts, ReturnKeeps DEF Durable, Early

LEMMA StartKeeps ==
    ASSUME OnInv, start_or_resume
    PROVE  OnInv'
<1> DEFINE r == IF record = NoRecord THEN NewRecord ELSE record
<1>1. ~Calling /\ UNCHANGED <<record, finalizedVars, pooled, accepted, crashes>> /\ call' = [record |-> r, steps |-> 0]
  BY DEF start_or_resume
<1>2. NewRecord \in OnRecords /\ NewRecord.state = "CHECKING_PREREQS" /\ ~NewRecord.attempted
  BY DEF NewRecord, NoTx, OnRecords, JoinTxs, Passing, Errors
<1>3. NoRecord.state = "absent"
  BY DEF NoRecord, NewRecord
<1>4. r \in OnRecords /\ r.state \in (Durable \ {"absent"}) \cup {"CHECKING_PREREQS"} /\ (r.state \in Early => ~r.attempted)
  BY <1>2 DEF OnInv, OnTypeOK
<1>5. crashes = 0 => Covers(r)
  <2>1. crashes = 0 => Covers(record)
    BY <1>1 DEF OnInv
  <2> QED
    BY <1>2, <1>3, <2>1 DEF Covers
<1>6. record.state = "CANCELLED" => r.state = "CANCELLED"
  BY <1>3
<1> HIDE DEF r
<1>7. call'.record = r /\ call'.steps = 0
  BY <1>1
<1>8. Calling'
  BY <1>3, <1>4, <1>7 DEF Calling, NoCall, Durable
<1>9. Bookkept(call.record)' /\ (call.steps <= MostSteps(call.record.state))'
  BY <1>4, <1>7 DEF Bookkept, MostSteps, Durable, Early
<1>10. OnTypeOK'
  BY <1>1, <1>4 DEF OnInv, OnTypeOK, finalizedVars
<1>11. (crashes = 0 => Covers(call.record))'
  BY <1>1, <1>5, <1>7 DEF Covers
<1> QED
  BY <1>1, <1>4, <1>6, <1>7, <1>8, <1>9, <1>10, <1>11 DEF OnInv, finalizedVars, Durable

\* A record that can be cancelled has no transaction out, while no call has crashed.
LEMMA CancelKeeps ==
    ASSUME OnInv, cancel
    PROVE  OnInv'
<1> DEFINE n == [record EXCEPT !.state = "CANCELLED", !.inputs = {}, !.tx = NoTx]
<1>1. ~Calling /\ Cancellable(record) /\ record' = n /\ UNCHANGED <<call, finalizedVars, pooled, accepted, crashes>>
  BY DEF cancel
<1>2. record.state \in Early
  BY <1>1 DEF OnInv, Cancellable, Durable, Early
<1>3. crashes = 0 => accepted = {}
  BY <1>1, <1>2 DEF OnInv, Covers
<1>4. NoTx \in JoinTxs
  BY DEF NoTx, JoinTxs
<1>5. n \in OnRecords /\ n.state = "CANCELLED"
  BY <1>4 DEF OnInv, OnTypeOK, OnRecords, Durable
<1>6. OnTypeOK'
  BY <1>1, <1>5 DEF OnInv, OnTypeOK, finalizedVars
<1>7. Bookkept(call.record)'
  BY <1>1 DEF OnInv, Bookkept, Epoch, finalizedVars
<1>8. ~Calling'
  BY <1>1 DEF Calling
<1> QED
  BY <1>1, <1>3, <1>5, <1>6, <1>7, <1>8 DEF OnInv, Covers, finalizedVars, Durable, Early

LEMMA CrashKeeps ==
    ASSUME OnInv, CrashCall
    PROVE  OnInv'
<1>1. call' = NoCall /\ UNCHANGED <<record, finalizedVars, pooled, accepted>> /\ crashes' = crashes + 1
  BY DEF CrashCall
<1>2. NoRecord \in OnRecords /\ NoRecord.state = "absent"
  BY DEF NoRecord, NewRecord, NoTx, OnRecords, JoinTxs, Durable, Errors
<1>3. call'.record = NoRecord /\ call'.steps = 0 /\ ~Calling'
  BY <1>1 DEF NoCall, Calling
<1>4. OnTypeOK' /\ crashes' # 0
  BY <1>1, <1>2 DEF OnInv, OnTypeOK, finalizedVars, NoCall
<1>5. Bookkept(call.record)' /\ (call.steps <= MostSteps(call.record.state))'
  BY <1>2, <1>3 DEF Bookkept, MostSteps, Early
<1> QED
  BY <1>1, <1>3, <1>4, <1>5 DEF OnInv

\* Between two calls the chain moves; the record does not.
LEMMA ChainKeeps ==
    ASSUME OnInv, FinalizeOther \/ LoseTx \/ Snapshot \/ (\E tx \in pooled : FinalizeJoin(tx))
                    \/ (\E o \in DOMAIN Values : Payment(o) \/ SpendElsewhere(o))
    PROVE  OnInv'
<1> USE DEF finalizedVars
<1>1. ~Calling /\ UNCHANGED <<record, call, accepted, crashes>>
  BY DEF FinalizeOther, LoseTx, Snapshot, FinalizeJoin, Payment, SpendElsewhere
<1>2. pooled' \subseteq pooled /\ tip' \in Nat /\ wallet_outputs' \in SUBSET Outputs
  BY DEF FinalizeOther, LoseTx, Snapshot, FinalizeJoin, Payment, SpendElsewhere, OnInv, OnTypeOK, Outputs
<1>3. join' \in {"none", "QUEUED", "PENDING", "ACTIVE"} /\ (join' = "none" \/ join # "none" \/ pooled # {})
  BY DEF FinalizeOther, LoseTx, Snapshot, FinalizeJoin, Payment, SpendElsewhere, OnInv, OnTypeOK
<1>4. OnTypeOK'
  BY <1>1, <1>2, <1>3 DEF OnInv, OnTypeOK
<1>5. call.record.state = "absent"
  BY <1>1 DEF Calling, NoCall, NoRecord, NewRecord
<1>6. Bookkept(call.record)'
  BY <1>1, <1>5 DEF Bookkept, Early
<1>7. ~Calling'
  BY <1>1 DEF Calling
<1> QED
  BY <1>1, <1>2, <1>3, <1>4, <1>6, <1>7 DEF OnInv, Covers

\* The onboarding of a key has one bond at stake, whatever the chain, the network and the
\* owner do between its calls.
THEOREM OnboardingBonds == OnSpec => []OneBondAtStake
<1>1. OnInit => OnInv
  <2> SUFFICES ASSUME OnInit PROVE OnInv
    OBVIOUS
  <2>1. NoRecord \in OnRecords /\ NoRecord.state = "absent"
    BY DEF NoRecord, NewRecord, NoTx, OnRecords, JoinTxs, Durable, Errors
  <2>2. call.record = NoRecord /\ call.steps = 0 /\ ~Calling
    BY DEF OnInit, NoCall, Calling
  <2>3. OnTypeOK
    BY <2>1 DEF OnInit, OnTypeOK, NoCall, Outputs
  <2>4. Bookkept(call.record) /\ call.steps <= MostSteps(call.record.state)
    BY <2>1, <2>2 DEF Bookkept, MostSteps, Early
  <2> QED
    BY <2>1, <2>2, <2>3, <2>4 DEF OnInit, OnInv, Covers, Durable, Early
<1>2. OnInv /\ [OnNext]_onVars => OnInv'
  <2> SUFFICES ASSUME OnInv, [OnNext]_onVars PROVE OnInv'
    OBVIOUS
  <2>1. CASE UNCHANGED onVars
    <3>1. UNCHANGED <<record, call, wallet_outputs, tip, join, pooled, accepted, crashes>>
      BY <2>1 DEF onVars
    <3>2. Bookkept(call.record)' /\ OnTypeOK' /\ (Calling' <=> Calling)
      BY <3>1 DEF OnInv, OnTypeOK, Bookkept, Epoch, Calling
    <3> QED
      BY <3>1, <3>2 DEF OnInv, Covers
  <2>2. CASE OnNext
    BY <2>2, RegistryKeeps, PrereqsKeep, WaitingKeeps, SelectingKeeps, BuildingKeeps, BroadcastingKeeps,
       AfterBroadcastKeeps, FinalizationKeeps, SettledKeeps, StartKeeps, CancelKeeps, CrashKeeps, ChainKeeps DEF OnNext
  <2> QED
    BY <2>1, <2>2
<1>3. OnInv => OneBondAtStake
  <2> SUFFICES ASSUME OnInv PROVE OneBondAtStake
    OBVIOUS
  <2>1. record.error \notin {"internal_error", "broadcast_failed"}
    BY DEF OnInv, OnTypeOK, OnRecords, Errors
  <2>2. ASSUME crashes = 0
        PROVE  \A s, t \in accepted : s.inputs \cap t.inputs # {}
    BY <2>2 DEF OnInv, Covers
  <2> QED
    BY <2>1, <2>2 DEF OneBondAtStake, OnInv
<1> QED
  BY <1>1, <1>2, <1>3, PTL DEF OnSpec
-------------------------------------------------------------------------------
(* The partner API: every copy of a withdrawal, in memory, in the file, in the  *)
(* snapshot that is being written and in the hands of a request, agrees with    *)
(* the chain when it says finalized.                                            *)

Withdrawals == [tx : PayTxs \cup {0}, state : {"none", "submitted", "accepted_for_relay", "rejected", "finalized"}]

\* A withdrawal that says no more than the chain.
Honoured(w, paid) ==
    /\ w \in Withdrawals
    /\ w.state # "none" => w.tx \in PayTxs
    /\ w.state = "finalized" => paid[w.tx] = "finalized"

HonestState(m, paid) ==
    /\ "withdrawals" \in DOMAIN m /\ DOMAIN m.withdrawals = Clients
    /\ \A c \in Clients : Honoured(m.withdrawals[c], paid)

\* What a thread goes on to when the state has been saved.
Resumes(step) == step.at \in {"idle", "post", "broadcast"} /\ (step.at = "broadcast" => step.body \in Bodies)

HonestStep(step, paid) ==
    /\ step.at \in {"idle", "post", "broadcast", "copy", "write", "bind", "upsert", "fetch"}
    /\ step.at \in {"broadcast", "bind"} => step.body \in Bodies
    /\ step.at = "bind" => step.state \in {"submitted", "accepted_for_relay", "rejected"}
    /\ step.at \in {"upsert", "fetch"} => step.client \in Clients /\ Honoured(step.w, paid) /\ step.w.tx \in PayTxs
    /\ step.at \in {"copy", "write"} => Resumes(step.then)
    /\ step.at = "write" => HonestState(step.copy, paid)

PaInv ==
    /\ pay \in [PayTxs -> {"unknown", "relayed", "finalized", "rejected"}]
    /\ HonestState(api, pay) /\ (saved = <<>> \/ HonestState(saved, pay))
    /\ DOMAIN pc = Processes /\ \A p \in Processes : HonestStep(pc[p], pay)
\* Pruning leaves the withdrawals alone.
LEMMA PruneKeeps ==
    ASSUME NEW m, NEW t, NEW paid, HonestState(m, paid)
    PROVE  HonestState(prune_partner_state(m, t), paid)
<1>1. /\ prune_partner_state(m, t).withdrawals = m.withdrawals
      /\ DOMAIN prune_partner_state(m, t) = DOMAIN m
  BY DEF prune_partner_state, HonestState
<1> QED
  BY <1>1 DEF HonestState

\* An update puts one withdrawal in its place.
LEMMA UpsertKeeps ==
    ASSUME NEW m, NEW paid, HonestState(m, paid), NEW client \in Clients, NEW w, Honoured(w, paid)
    PROVE  HonestState(upsert_partner_withdrawal(m, client, w), paid)
<1>1. /\ upsert_partner_withdrawal(m, client, w).withdrawals = [m.withdrawals EXCEPT ![client] = w]
      /\ DOMAIN upsert_partner_withdrawal(m, client, w) = DOMAIN m
  BY DEF upsert_partner_withdrawal, HonestState
<1> QED
  BY <1>1 DEF HonestState
\* A payment that is final stays final, and so does what was said of it.
LEMMA StaysHonest ==
    ASSUME NEW a, NEW b, \A tx \in PayTxs : a[tx] = "finalized" => b[tx] = "finalized"
    PROVE  /\ \A w : Honoured(w, a) => Honoured(w, b)
           /\ \A m : HonestState(m, a) => HonestState(m, b)
           /\ \A step : HonestStep(step, a) => HonestStep(step, b)
<1>1. \A w : Honoured(w, a) => Honoured(w, b)
  BY DEF Honoured
<1>2. \A m : HonestState(m, a) => HonestState(m, b)
  BY <1>1 DEF HonestState
<1> QED
  BY <1>1, <1>2 DEF HonestStep

\* A thread takes its next step; the other threads hold what they held.
LEMMA ThreadMoves ==
    ASSUME PaInv, NEW p \in Processes, NEW step, Goes(p, step), HonestStep(step, pay)
    PROVE  DOMAIN pc' = Processes /\ \A q \in Processes : HonestStep(pc'[q], pay)
  BY DEF PaInv, Goes

LEMMA IdleIsHonest == HonestStep(Idle, pay) /\ HonestStep(Persisting(Idle), pay)
  BY DEF HonestStep, Idle, Persisting, Resumes

\* A section under the mutex, with the file and the chain as they were.
LEMMA SectionKeeps ==
    ASSUME PaInv, NEW p \in Processes, NEW step, Goes(p, step), HonestStep(step, pay), HonestState(api', pay),
           UNCHANGED <<saved, pay>>
    PROVE  PaInv'
<1>1. DOMAIN pc' = Processes /\ \A q \in Processes : HonestStep(pc'[q], pay)
  BY ThreadMoves
<1> QED
  BY <1>1 DEF PaInv

LEMMA SavingKeeps ==
    ASSUME PaInv, NEW p \in Processes, CopyState(p) \/ WriteState(p)
    PROVE  PaInv'
<1>1. CASE CopyState(p)
  <2>1. HonestState(api', pay) /\ UNCHANGED <<saved, pay>>
    BY <1>1, PruneKeeps DEF CopyState, PaInv
  <2> DEFINE step == [at |-> "write", copy |-> api', then |-> pc[p].then]
  <2>2. Goes(p, step) /\ Resumes(pc[p].then)
    BY <1>1 DEF CopyState, PaInv, HonestStep
  <2>3. HonestStep(step, pay)
    BY <2>1, <2>2 DEF HonestStep
  <2> QED
    BY <2>1, <2>2, <2>3, ThreadMoves DEF PaInv
<1>2. CASE WriteState(p)
  <2>1. HonestStep(pc[p], pay) /\ pc[p].at = "write" /\ saved' = pc[p].copy /\ UNCHANGED <<api, pay>> /\ Goes(p, pc[p].then)
    BY <1>2 DEF WriteState, PaInv
  <2>2. HonestState(saved', pay) /\ HonestStep(pc[p].then, pay)
    BY <2>1 DEF HonestStep, Resumes
  <2>3. DOMAIN pc' = Processes /\ \A q \in Processes : HonestStep(pc'[q], pay)
    BY <2>1, <2>2, ThreadMoves
  <2> QED
    BY <2>1, <2>2, <2>3 DEF PaInv
<1> QED
  BY <1>1, <1>2

LEMMA RequestKeeps ==
    ASSUME PaInv, NEW p \in Processes, BindKey(p) \/ Upsert(p) \/ refresh_partner_withdrawal_state(p)
    PROVE  PaInv'
<1>1. HonestStep(pc[p], pay) /\ HonestState(api, pay) /\ UNCHANGED <<saved, pay>>
  BY DEF PaInv, BindKey, Upsert, refresh_partner_withdrawal_state
<1>2. CASE BindKey(p)
  <2> DEFINE w == [tx |-> pc[p].body.tx, state |-> pc[p].state]
             step == [at |-> "upsert", client |-> pc[p].body.client, w |-> w]
  <2>1. pc[p].body \in Bodies /\ pc[p].state \in {"submitted", "accepted_for_relay", "rejected"}
    BY <1>1, <1>2 DEF BindKey, HonestStep
  <2>2. Honoured(w, pay) /\ w.tx \in PayTxs /\ pc[p].body.client \in Clients
    BY <2>1 DEF Honoured, Withdrawals, PayTxs, Clients
  <2>3. HonestStep(step, pay)
    BY <2>2 DEF HonestStep
  <2>4. Goes(p, step)
    BY <1>2 DEF BindKey
  <2>5. HonestState(api', pay)
    BY <1>1, <1>2 DEF BindKey, HonestState
  <2> QED
    BY <1>1, <2>3, <2>4, <2>5, SectionKeeps
<1>3. CASE Upsert(p)
  <2>1. pc[p].client \in Clients /\ Honoured(pc[p].w, pay)
    BY <1>1, <1>3 DEF Upsert, HonestStep
  <2>2. HonestState(api', pay)
    BY <1>1, <1>3, <2>1, UpsertKeeps DEF Upsert
  <2> QED
    BY <1>1, <1>3, <2>2, IdleIsHonest, SectionKeeps DEF Upsert
<1>4. CASE refresh_partner_withdrawal_state(p)
  <2>1. pc[p].client \in Clients /\ Honoured(pc[p].w, pay) /\ pc[p].w.tx \in PayTxs
    BY <1>1, <1>4 DEF refresh_partner_withdrawal_state, HonestStep
  <2>2. CASE pay[pc[p].w.tx] \in {"finalized", "rejected"}
    <3>1. Honoured(Refreshed(p), pay)
      BY <2>1, <2>2 DEF Refreshed, Honoured, Withdrawals
    <3>2. HonestState(api', pay) /\ Goes(p, Persisting(Idle))
      BY <1>1, <1>4, <2>1, <2>2, <3>1, UpsertKeeps DEF refresh_partner_withdrawal_state
    <3> QED
      BY <1>1, <3>2, IdleIsHonest, SectionKeeps
  <2>3. CASE pay[pc[p].w.tx] \notin {"finalized", "rejected"}
    <3>1. HonestState(api', pay) /\ Goes(p, Idle)
      BY <1>1, <1>4, <2>3 DEF refresh_partner_withdrawal_state
    <3> QED
      BY <1>1, <3>1, IdleIsHonest, SectionKeeps
  <2> QED
    BY <2>2, <2>3
<1> QED
  BY <1>2, <1>3, <1>4

LEMMA PostKeeps ==
    ASSUME PaInv, NEW p \in Threads, NEW key \in IdemKeys, NEW body \in Bodies, PostWithdrawal(p, key, body)
    PROVE  PaInv'
<1> DEFINE m == prune_partner_state(api, now)
           send == [at |-> "broadcast", key |-> key, body |-> body, ts |-> now]
<1>1. HonestState(m, pay) /\ p \in Processes /\ UNCHANGED <<saved, pay>>
  BY PruneKeeps, SMTT(20) DEF PaInv, PostWithdrawal, Processes
<1>2. HonestState(api', pay)
  <2> DEFINE entry == [body |-> body, ts |-> IF m.idem[key] # NoKey THEN m.idem[key].ts ELSE now]
  <2>1. api' = m \/ api' = [m EXCEPT !.idem[key] = entry]
    BY Zenon DEF PostWithdrawal
  <2> HIDE DEF m, entry
  <2>2. CASE api' = [m EXCEPT !.idem[key] = entry]
    BY <1>1, <2>2 DEF HonestState
  <2> QED
    BY <1>1, <2>1, <2>2
<1>3. HonestStep(send, pay) /\ HonestStep(Persisting(send), pay)
  BY DEF HonestStep, Persisting, Resumes
<1>4. Goes(p, Idle) \/ Goes(p, Persisting(Idle)) \/ Goes(p, send) \/ Goes(p, Persisting(send))
  BY Zenon DEF PostWithdrawal
<1> QED
  BY <1>1, <1>2, <1>3, <1>4, IdleIsHonest, SectionKeeps
\* The answer of the node settles nothing, and undoes nothing.
LEMMA AnswerKeeps ==
    ASSUME PaInv, NEW p \in Threads, NEW answer, BroadcastWithdrawal(p, answer)
    PROVE  PaInv'
<1> DEFINE bind == [at |-> "bind", key |-> pc[p].key, body |-> pc[p].body, ts |-> pc[p].ts, state |-> answer]
           step == IF answer = "error" THEN Idle ELSE bind
<1>1. p \in Processes /\ HonestStep(pc[p], pay) /\ pc[p].at = "broadcast" /\ Goes(p, step) /\ UNCHANGED <<api, saved>>
  BY DEF BroadcastWithdrawal, PaInv, Processes
<1>2. pc[p].body \in Bodies /\ pc[p].body.tx \in PayTxs
  BY <1>1 DEF HonestStep, PayTxs
<1>3. answer \in {"accepted_for_relay", "error", "submitted", "rejected"}
  BY DEF BroadcastWithdrawal
<1>4. HonestStep(bind, pay) \/ answer = "error"
  BY <1>2, <1>3 DEF HonestStep
<1>5. HonestStep(step, pay)
  BY <1>4, IdleIsHonest
<1>6. DOMAIN pc' = Processes /\ \A q \in Processes : HonestStep(pc'[q], pay)
  <2> HIDE DEF step
  <2> QED
    BY <1>1, <1>5, ThreadMoves
<1>7. pay' = pay \/ pay' = [pay EXCEPT ![pc[p].body.tx] = IF @ = "unknown" THEN "relayed" ELSE @]
  BY DEF BroadcastWithdrawal
<1>8. /\ pay' \in [PayTxs -> {"unknown", "relayed", "finalized", "rejected"}]
      /\ \A tx \in PayTxs : pay[tx] = "finalized" => pay'[tx] = "finalized"
  BY <1>2, <1>7 DEF PaInv
<1>9. HonestState(api', pay') /\ (saved' = <<>> \/ HonestState(saved', pay'))
  BY <1>1, <1>8, StaysHonest DEF PaInv
<1>10. \A q \in Processes : HonestStep(pc'[q], pay')
  BY <1>6, <1>8, StaysHonest
<1> QED
  BY <1>6, <1>8, <1>9, <1>10 DEF PaInv

LEMMA SettleKeeps ==
    ASSUME PaInv, NEW tx \in PayTxs, NEW outcome \in {"finalized", "rejected"}, SettlePayment(tx, outcome)
    PROVE  PaInv'
<1>1. /\ pay' \in [PayTxs -> {"unknown", "relayed", "finalized", "rejected"}]
      /\ \A t \in PayTxs : pay[t] = "finalized" => pay'[t] = "finalized"
      /\ UNCHANGED <<api, saved, pc>>
  BY DEF SettlePayment, PaInv
<1>2. HonestState(api', pay') /\ (saved' = <<>> \/ HonestState(saved', pay'))
  BY <1>1, StaysHonest DEF PaInv
<1>3. \A q \in Processes : HonestStep(pc'[q], pay')
  BY <1>1, StaysHonest DEF PaInv
<1> QED
  BY <1>1, <1>2, <1>3 DEF PaInv

LEMMA ReadKeeps ==
    ASSUME PaInv, NEW p \in Threads, NEW client \in Clients, GetWithdrawal(p, client)
    PROVE  PaInv'
<1> DEFINE step == [at |-> "fetch", client |-> client, w |-> api.withdrawals[client]]
<1>1. p \in Processes /\ Goes(p, step) /\ UNCHANGED <<api, saved, pay>> /\ HonestState(api, pay)
  BY DEF GetWithdrawal, Processes, PaInv
<1>2. Honoured(api.withdrawals[client], pay) /\ api.withdrawals[client].tx \in PayTxs
  BY <1>1 DEF GetWithdrawal, HonestState, Honoured
<1>3. HonestStep(step, pay)
  BY <1>2 DEF HonestStep
<1> QED
  BY <1>1, <1>3, SectionKeeps

\* The worker and the replays change only the queues.
LEMMA ReplayKeeps ==
    ASSUME PaInv, NEW p \in Threads, NEW i, ReplayDeadLetter(p, i)
    PROVE  PaInv'
<1>1. p \in Processes /\ Goes(p, Persisting(Idle)) /\ UNCHANGED <<saved, pay>> /\ HonestState(api, pay)
  BY DEF ReplayDeadLetter, Processes, PaInv
<1>2. HonestState(api', pay)
  <2> DEFINE rest == RemoveAt(api.dlq, i)
             longer == Append(api.queue, NewJob(api.dlq[i].event, api.dlq[i].replays + 1, now))
  <2>1. api' = [api EXCEPT !.dlq[i].quarantined = TRUE] \/ api' = [api EXCEPT !.dlq = rest, !.queue = longer]
    BY Zenon DEF ReplayDeadLetter
  <2> HIDE DEF rest, longer
  <2>2. CASE api' = [api EXCEPT !.dlq[i].quarantined = TRUE]
    BY <1>1, <2>2 DEF HonestState
  <2>3. CASE api' = [api EXCEPT !.dlq = rest, !.queue = longer]
    BY <1>1, <2>3 DEF HonestState
  <2> QED
    BY <2>1, <2>2, <2>3
<1> QED
  BY <1>1, <1>2, IdleIsHonest, SectionKeeps

LEMMA WorkerKeeps ==
    ASSUME PaInv, TakeJob \/ (\E success \in BOOLEAN : PostWebhook(success))
    PROVE  PaInv'
<1>1. Hook \in Processes /\ HonestState(api, pay)
  BY DEF Processes, PaInv
<1>2. CASE TakeJob
  <2> DEFINE m == prune_partner_state(api, now)
  <2>1. HonestState(m, pay)
    BY <1>1, PruneKeeps
  <2>2. PICK post : /\ post = Idle \/ \E job : post = [at |-> "post", job |-> job]
                    /\ api' = m /\ UNCHANGED <<saved, pay>> /\ (Goes(Hook, Persisting(post)) \/ Goes(Hook, post))
    <3> DEFINE due == {i \in 1..Len(m.queue) : m.queue[i].next <= now}
               first == IF due = {} THEN Idle ELSE [at |-> "post", job |-> m.queue[Min(due)]]
    <3>1. api' = m /\ UNCHANGED <<saved, pay>> /\ (Goes(Hook, Persisting(first)) \/ Goes(Hook, first))
      BY <1>2 DEF TakeJob
    <3>2. first = Idle \/ \E job : first = [at |-> "post", job |-> job]
      OBVIOUS
    <3> HIDE DEF first, m
    <3> QED
      BY <3>1, <3>2
  <2>3. HonestStep(post, pay) /\ HonestStep(Persisting(post), pay)
    BY <2>2 DEF HonestStep, Idle, Persisting, Resumes
  <2> HIDE DEF m
  <2> QED
    BY <1>1, <2>1, <2>2, <2>3, SectionKeeps
<1>3. ASSUME NEW success \in BOOLEAN, PostWebhook(success)
      PROVE  PaInv'
  <2>1. UNCHANGED <<saved, pay>> /\ (Goes(Hook, Idle) \/ Goes(Hook, Persisting(Idle)))
    BY <1>3, Zenon DEF PostWebhook
  <2>2. HonestState(api', pay)
    <3> DEFINE i == Min({k \in 1..Len(api.queue) : SameJob(api.queue[k], pc[Hook].job)})
               q == api.queue[i]
               failed == [q EXCEPT !.attempt = @ + 1, !.next = now + backoff(q.attempt + 1)]
               rest == RemoveAt(api.queue, i)
               letters == DeadLetter(api.dlq, q)
    <3>1. \/ api' = api
          \/ api' = [api EXCEPT !.queue = rest]
          \/ api' = [api EXCEPT !.queue[i] = failed]
          \/ api' = [api EXCEPT !.queue = rest, !.dlq = letters]
      BY <1>3, Zenon DEF PostWebhook
    <3> HIDE DEF i, q, failed, rest, letters
    <3>2. CASE api' = [api EXCEPT !.queue = rest]
      BY <1>1, <3>2 DEF HonestState
    <3>3. CASE api' = [api EXCEPT !.queue[i] = failed]
      BY <1>1, <3>3 DEF HonestState
    <3>4. CASE api' = [api EXCEPT !.queue = rest, !.dlq = letters]
      BY <1>1, <3>4 DEF HonestState
    <3> QED
      BY <1>1, <3>1, <3>2, <3>3, <3>4
  <2> QED
    BY <1>1, <2>1, <2>2, IdleIsHonest, SectionKeeps
<1> QED
  BY <1>2, <1>3

LEMMA EmptyIsHonest ==
    ASSUME NEW paid
    PROVE  HonestState(EmptyApi, paid)
  BY DEF HonestState, EmptyApi, Honoured, NoWithdrawal, Withdrawals

LEMMA RestartKeeps ==
    ASSUME PaInv, NEW torn \in BOOLEAN, RestartExplorer(torn)
    PROVE  PaInv'
<1> DEFINE file == IF torn THEN <<>> ELSE saved
<1>1. file = <<>> \/ HonestState(file, pay)
  BY DEF PaInv
<1> HIDE DEF file
<1>2. /\ api' = IF file = <<>> THEN EmptyApi ELSE prune_partner_state(file, now)
      /\ saved' = IF file = <<>> \/ api' = file THEN file ELSE api'
      /\ pc' = [p \in Processes |-> Idle] /\ pay' = pay
  BY DEF RestartExplorer, file
<1>3. HonestState(api', pay)
  BY <1>1, <1>2, PruneKeeps, EmptyIsHonest
<1>4. saved' = <<>> \/ HonestState(saved', pay)
  BY <1>1, <1>2, <1>3
<1> QED
  BY <1>2, <1>3, <1>4, IdleIsHonest DEF PaInv

\* The partner API reports as finalized only what the chain has finalized, for any number of
\* threads, clients and keys, any limits and any restarts, also from a torn file.
THEOREM ReportsAreFinal == PaSpec => []ReportedIsFinal
<1>1. PaInit => PaInv
  BY EmptyIsHonest, IdleIsHonest DEF PaInit, PaInv
<1>2. PaInv /\ [PaNext]_paVars => PaInv'
  <2> SUFFICES ASSUME PaInv, [PaNext]_paVars PROVE PaInv'
    OBVIOUS
  <2>1. CASE TickClock \/ UNCHANGED paVars
    BY <2>1 DEF TickClock, paVars, PaInv
  <2>2. CASE PaNext /\ ~TickClock
    BY <2>2, SavingKeeps, RequestKeeps, PostKeeps, AnswerKeeps, ReadKeeps, ReplayKeeps, WorkerKeeps, RestartKeeps,
       SettleKeeps DEF PaNext
  <2> QED
    BY <2>1, <2>2
<1>3. PaInv => ReportedIsFinal
  BY DEF PaInv, ReportedIsFinal, HonestState, Honoured
<1> QED
  BY <1>1, <1>2, <1>3, PTL DEF PaSpec

-----------------------------------------------------------------------------
(* WalletSends: the coins of recorded sends and the finalized history.       *)

Coins == SUBSET SpendCoins
Txs == [id : Nat \ {0}, coins : Coins, body : Nat, sealed : Coins, unlock : Nat, long : BOOLEAN]
Finals == [id : Nat, height : Nat, coins : Coins]
Holds == [coins : Coins, created : Nat]

\* What the wallet store is, a request of a refresh and the window.
IsStore(st) ==
    /\ st \in [snap : Nat, hist : [DOMAIN st.hist -> Nat], seq : Nat, cursor : Nat, sent : SUBSET Nat,
               pend : [DOMAIN st.pend -> Holds], timed : SUBSET Txs]
    /\ DOMAIN st.hist \subseteq Nat /\ DOMAIN st.pend \subseteq Nat

IsRequest(r) ==
    r = [latest |-> r.latest, fresh |-> r.fresh, tip |-> r.tip, hist |-> r.hist, cursor |-> r.cursor, sent |-> r.sent, pend |-> r.pend]

\* A request that is applied was made from the store as it is.
UpToDate(r) == r.pend = disk.pend /\ r.sent = disk.sent /\ r.hist = finalized_history(disk) /\ r.cursor = disk.cursor

WindowOK(w) ==
    /\ w = [up |-> w.up, tip |-> w.tip, polled |-> w.polled, dialog |-> w.dialog, cancel |-> w.cancel, stage |-> w.stage]
    /\ w.tip \in Nat /\ (w.dialog = <<>> \/ \E tx \in Txs : w.dialog = <<tx>>)
    /\ w.cancel = <<>> \/ \E tx \in Txs : w.cancel = <<tx>>

WsTypeOK ==
    /\ chain \in [tip : Nat \ {0}, fin : Seq(Finals)]
    /\ pool \subseteq Txs /\ IsFiniteSet(pool)
    /\ IsStore(disk)
    /\ WindowOK(window)
    /\ \A r \in refreshes : IsRequest(r)
    /\ nextId \in Nat \ {0}
    /\ limits \in WalletLimits
    /\ kept \subseteq [id : Nat, coins : Coins, dated : Nat]

\* The transaction that the dialog shows has the next names, and its coins are free.
Planned(tx) ==
    /\ tx \in Txs /\ tx.id = nextId /\ tx.body \in {0, nextId + 1} /\ tx.id <= limits.ids /\ tx.body <= limits.ids
    /\ tx.coins \cap tx.sealed = {}
    /\ \A i \in DOMAIN disk.pend : (tx.coins \cup tx.sealed) \cap disk.pend[i].coins = {}

DialogInv ==
    /\ \A tx \in Txs : window.dialog = <<tx>> => Planned(tx)
    /\ \A tx \in Txs : window.cancel = <<tx>> => tx \in disk.timed /\ window.dialog = <<>>

\* Rows hold different coins, those of a cancelled transfer that was not held apart.
Apart(pend, i, j) == pend[i].coins \cap pend[j].coins = {} \/ {i, j} \cap unheld # {}

HoldsInv ==
    /\ \A i \in DOMAIN disk.pend : i < nextId
    /\ \A i \in unheld : i \in Nat /\ i < nextId
    /\ \A i, j \in DOMAIN disk.pend : i # j => Apart(disk.pend, i, j)
    /\ \A tx \in disk.timed :
          /\ tx.body # 0 /\ tx.body < nextId /\ tx.body \notin unheld
          /\ tx.body \in DOMAIN disk.pend => disk.pend[tx.body].coins = tx.sealed

\* A live send is held as it was recorded.
KeptInv ==
    \A k \in kept : k.id < nextId /\
        (k.id \notin FinalIds /\ chain.tip < k.dated + MinTipDelta =>
            k.id \in DOMAIN disk.pend /\ disk.pend[k.id] = [coins |-> k.coins, created |-> k.dated])

RequestsInv ==
    /\ finalized_history(disk) \subseteq FinalIds
    /\ \A r \in refreshes : r.fresh => UpToDate(r)

\* The names of transactions are different.
PoolInv ==
    /\ \A tx \in pool : tx.id < nextId /\ tx.body < nextId /\ tx.id <= limits.ids /\ tx.body <= limits.ids /\ tx.id # tx.body
    /\ \A tx, u \in pool : tx # u => tx.id # u.id /\ tx.id # u.body /\ (tx.body = 0 \/ tx.body # u.body)

\* So are those of the chain, which has its transactions in the order of their heights.
ChainInv ==
    /\ \A i, j \in 1..Len(chain.fin) : i < j => chain.fin[i].id # chain.fin[j].id /\ chain.fin[i].height <= chain.fin[j].height
    /\ \A i \in 1..Len(chain.fin) :
          /\ chain.fin[i].height <= chain.tip
          /\ \/ \E tx \in pool : chain.fin[i].id = tx.id
             \/ \E tx \in pool : tx.body # 0 /\ chain.fin[i].id = tx.body
             \/ chain.fin[i].id = limits.ids + chain.fin[i].height /\ chain.fin[i].height > 0

\* The history has what the chain has up to height top, and what lies beyond the counter is
\* the start of what follows.
CoversTo(st, top) ==
    /\ \A j \in 1..Len(chain.fin) : chain.fin[j].height <= top => chain.fin[j].id \in finalized_history(st)
    /\ (\E i \in DOMAIN st.hist : i > st.seq) =>
          \E j \in 1..Len(chain.fin) : /\ chain.fin[j].height > top
                                      /\ \A i \in 1..j : chain.fin[i].id \in finalized_history(st)

ExactStore(st) ==
    IsInjective(st.hist) /\ (st.cursor # 0 => CoversTo(st, chain.fin[st.cursor].height))

CursorInv == disk.cursor <= Len(chain.fin) /\ (tornRebuild \/ ExactStore(disk))

WalletInv ==
    WsTypeOK /\ DialogInv /\ HoldsInv /\ KeptInv /\ RequestsInv /\ PoolInv /\ ChainInv /\ CursorInv

-----------------------------------------------------------------------------
(* The chain's transactions as a server lists them.                           *)

UpTo(v) == {j \in DOMAIN chain.fin : chain.fin[j].height <= v}

LEMMA FinParts ==
    ASSUME chain.fin \in Seq(Finals)
    PROVE  /\ Len(chain.fin) \in Nat /\ DOMAIN chain.fin = 1..Len(chain.fin)
           /\ \A i \in 1..Len(chain.fin) : chain.fin[i] \in Finals /\ chain.fin[i].id \in Nat /\ chain.fin[i].height \in Nat
<1>1. Len(chain.fin) \in Nat /\ DOMAIN chain.fin = 1..Len(chain.fin)
  OBVIOUS
<1>2. \A i \in 1..Len(chain.fin) : chain.fin[i] \in Finals
  OBVIOUS
<1> QED
  BY <1>1, <1>2 DEF Finals

LEMMA UpToFinite ==
    ASSUME chain.fin \in Seq(Finals), NEW v
    PROVE  IsFiniteSet(UpTo(v)) /\ Cardinality(UpTo(v)) \in Nat /\ Cardinality(UpTo(v)) <= Len(chain.fin)
<1>1. Len(chain.fin) \in Nat /\ UpTo(v) \in SUBSET (1..Len(chain.fin))
  <2>1. Len(chain.fin) \in Nat /\ DOMAIN chain.fin = 1..Len(chain.fin)
    BY FinParts
  <2> QED
    BY <2>1 DEF UpTo
<1>2. IsFiniteSet(1..Len(chain.fin)) /\ Cardinality(1..Len(chain.fin)) = Len(chain.fin)
  <2>1. ASSUME NEW n \in Nat PROVE IsFiniteSet(1..n) /\ Cardinality(1..n) = n
    BY FS_Interval
  <2> QED
    BY <1>1, <2>1
<1>3. IsFiniteSet(UpTo(v)) /\ Cardinality(UpTo(v)) <= Cardinality(1..Len(chain.fin))
  BY <1>1, <1>2, FS_Subset
<1> QED
  BY <1>2, <1>3, FS_CardinalityType

LEMMA IdsAtFacts ==
    ASSUME chain.fin \in Seq(Finals), NEW v
    PROVE  /\ IdsAt(v) \in Seq(Nat) /\ Len(IdsAt(v)) = Cardinality(UpTo(v)) /\ Len(IdsAt(v)) <= Len(chain.fin)
           /\ \A i \in 1..Len(IdsAt(v)) : IdsAt(v)[i] = chain.fin[i].id
           /\ Range(IdsAt(v)) \subseteq FinalIds
<1> DEFINE n == Cardinality(UpTo(v))
<1>1. n \in Nat /\ n <= Len(chain.fin)
  BY UpToFinite
<1>2. IdsAt(v) = [i \in 1..n |-> chain.fin[i].id]
  BY DEF IdsAt, UpTo
<1>3. \A i \in 1..n : i \in DOMAIN chain.fin /\ chain.fin[i].id \in Nat
  BY <1>1, FinParts
<1> HIDE DEF n
<1>4. IdsAt(v) \in Seq(Nat) /\ Len(IdsAt(v)) = n /\ DOMAIN IdsAt(v) = 1..n
  BY <1>1, <1>2, <1>3, SMTT(20)
<1>5. \A i \in 1..n : IdsAt(v)[i] = chain.fin[i].id
  BY <1>2
<1>6. Range(IdsAt(v)) \subseteq FinalIds
  BY <1>3, <1>4, <1>5 DEF Range, FinalIds
<1> QED
  BY <1>1, <1>4, <1>5, <1>6 DEF n

\* The transactions up to a height are the first ones.
LEMMA UpToIsPrefix ==
    ASSUME chain.fin \in Seq(Finals), NEW v \in Int,
           \A i, j \in 1..Len(chain.fin) : i < j => chain.fin[i].height <= chain.fin[j].height
    PROVE  UpTo(v) = 1..Cardinality(UpTo(v))
<1> DEFINE L == Len(chain.fin)
           Rest == {j \in 1..L : ~(chain.fin[j].height <= v)}
<1>1. L \in Nat /\ DOMAIN chain.fin = 1..L /\ \A j \in 1..L : chain.fin[j].height \in Nat
  BY FinParts
<1>2. CASE Rest = {}
  <2>1. UpTo(v) = 1..L
    BY <1>1, <1>2 DEF UpTo
  <2> QED
    <3>1. Cardinality(1..L) = L
      BY <1>1, FS_Interval
    <3> QED
      BY <2>1, <3>1
<1>3. CASE Rest # {}
  <2>1. PICK m \in Rest : \A x \in Rest : ~(<<x, m>> \in OpToRel(<, Nat))
    <3>1. Rest \in SUBSET Nat
      BY <1>1
    <3> HIDE DEF Rest
    <3> QED
      BY <3>1, <1>3, NatLessThanWellFounded, WFMin, ZenonT(20)
  <2>2. m \in 1..L /\ \A x \in Rest : ~(x < m)
    <3>1. \A x \in Rest : x \in Nat /\ m \in Nat
      BY <1>1
    <3> QED
      BY <2>1, <3>1, <1>1 DEF OpToRel
  <2>3. UpTo(v) = 1..(m - 1)
    <3>1. ASSUME NEW j \in 1..L PROVE j \in UpTo(v) <=> j < m
      <4>1. j \in UpTo(v) <=> chain.fin[j].height <= v
        BY <1>1 DEF UpTo
      <4>2. ~(chain.fin[m].height <= v)
        BY <2>1, ZenonT(20)
      <4>3. j < m => j \notin Rest
        BY <2>2
      <4>4. m < j => chain.fin[m].height <= chain.fin[j].height
        BY <2>2
      <4>5. chain.fin[m].height \in Nat /\ chain.fin[j].height \in Nat /\ m \in Nat /\ j \in Nat
        BY <1>1, <2>2
      <4> QED
        BY <4>1, <4>2, <4>3, <4>4, <4>5
    <3>2. UpTo(v) \subseteq 1..L
      BY <1>1 DEF UpTo
    <3>3. L \in Nat /\ m \in 1..L
      BY <2>2, <1>1
    <3>4. \A x \in 1..(m - 1) : x \in 1..L /\ x < m
      BY <3>3
    <3>5. \A x \in 1..L : x < m => x \in 1..(m - 1)
      BY <3>3
    <3> QED
      BY <3>1, <3>2, <3>4, <3>5, Zenon
  <2>4. Cardinality(1..(m - 1)) = m - 1
    BY <2>2, <1>1, FS_Interval
  <2> QED
    BY <2>3, <2>4
<1> QED
  BY <1>2, <1>3
-----------------------------------------------------------------------------
(* The writes of the store.                                                   *)

Books(st) == <<st.sent, st.pend, st.timed>>
IsRecord(st) ==
    st = [snap |-> st.snap, hist |-> st.hist, seq |-> st.seq, cursor |-> st.cursor, sent |-> st.sent, pend |-> st.pend, timed |-> st.timed]

LEMMA StoreFields ==
    ASSUME NEW st, IsStore(st)
    PROVE  IsRecord(st) /\ st.seq \in Nat /\ st.cursor \in Nat /\ st.snap \in Nat /\ DOMAIN st.hist \subseteq Nat
           /\ \A i \in DOMAIN st.hist : st.hist[i] \in Nat
  BY DEF IsStore, IsRecord

\* A store with another history, another counter and another cursor.
LEMMA HistoryWrite ==
    ASSUME NEW st, IsStore(st), NEW u, IsRecord(u), u.seq \in Nat, u.cursor \in Nat, u.snap \in Nat,
           u.hist \in [DOMAIN u.hist -> Nat], DOMAIN u.hist \subseteq Nat,
           u.sent = st.sent, u.pend = st.pend, u.timed = st.timed
    PROVE  IsStore(u) /\ Books(u) = Books(st)
<1>1. st.sent \in SUBSET Nat /\ st.timed \in SUBSET Txs /\ st.pend \in [DOMAIN st.pend -> Holds] /\ DOMAIN st.pend \subseteq Nat
  BY DEF IsStore
<1>2. IsStore(u)
  BY <1>1 DEF IsStore, IsRecord
<1> QED
  BY <1>2 DEF Books

LEMMA PutFacts ==
    ASSUME NEW st, IsStore(st), NEW records \in Seq(Nat), NEW n \in 0..Len(records),
           NEW u, u = PutRecords(st, records, n)
    PROVE  /\ IsStore(u) /\ Books(u) = Books(st) /\ u.cursor = st.cursor /\ u.seq = st.seq /\ u.snap = st.snap
           /\ DOMAIN u.hist = DOMAIN st.hist \cup (st.seq + 1)..(st.seq + n)
           /\ \A i \in (st.seq + 1)..(st.seq + n) : u.hist[i] = records[i - st.seq] /\ i - st.seq \in 1..n
           /\ \A i \in DOMAIN st.hist : i \notin (st.seq + 1)..(st.seq + n) => u.hist[i] = st.hist[i]
           /\ finalized_history(u) \subseteq finalized_history(st) \cup Range(records)
<1>1. st.seq \in Nat /\ st.cursor \in Nat /\ st.snap \in Nat /\ DOMAIN st.hist \subseteq Nat
      /\ \A i \in DOMAIN st.hist : st.hist[i] \in Nat
  BY DEF IsStore
<1> DEFINE D == (st.seq + 1)..(st.seq + n)
           hist == [i \in DOMAIN st.hist \cup D |-> IF i \in D THEN records[i - st.seq] ELSE st.hist[i]]
<1>2. \A i \in D : i \in Nat /\ i - st.seq \in 1..n
  BY <1>1, SMTT(20)
<1>3. \A i \in 1..n : records[i] \in Nat /\ i \in DOMAIN records
  OBVIOUS
<1> HIDE DEF D
<1>4. DOMAIN hist = DOMAIN st.hist \cup D
  OBVIOUS
<1>5. \A i \in D : hist[i] = records[i - st.seq]
  OBVIOUS
<1>6. \A i \in DOMAIN st.hist : i \notin D => hist[i] = st.hist[i]
  OBVIOUS
<1>7. hist \in [DOMAIN hist -> Nat] /\ DOMAIN hist \subseteq Nat
  BY <1>1, <1>2, <1>3
<1>8. u = [st EXCEPT !.hist = hist]
  BY DEF PutRecords, D
<1> HIDE DEF hist
<1>10. IsRecord(u) /\ u.hist = hist /\ u.seq = st.seq /\ u.cursor = st.cursor /\ u.snap = st.snap
       /\ u.sent = st.sent /\ u.pend = st.pend /\ u.timed = st.timed
  <2>1. IsRecord(st)
    BY StoreFields
  <2> QED
    BY <1>8, <2>1 DEF IsRecord
<1>9. IsStore(u) /\ u.hist = hist /\ u.seq = st.seq /\ u.cursor = st.cursor /\ Books(u) = Books(st)
  BY <1>1, <1>7, <1>10, HistoryWrite
<1>11. finalized_history(u) \subseteq finalized_history(st) \cup Range(records)
  <2> SUFFICES ASSUME NEW i \in DOMAIN hist PROVE hist[i] \in finalized_history(st) \cup Range(records)
    BY <1>9 DEF finalized_history, Range
  <2>1. CASE i \in D
    BY <2>1, <1>5, <1>2, <1>3 DEF Range
  <2>2. CASE i \notin D
    BY <2>2, <1>4, <1>6 DEF finalized_history, Range
  <2> QED
    BY <2>1, <2>2
<1>12. DOMAIN u.hist = DOMAIN st.hist \cup D
  BY <1>9, <1>4
<1>13. \A i \in D : u.hist[i] = records[i - st.seq] /\ i - st.seq \in 1..n
  BY <1>9, <1>5, <1>2
<1>14. \A i \in DOMAIN st.hist : i \notin D => u.hist[i] = st.hist[i]
  BY <1>9, <1>6
<1> QED
  BY <1>9, <1>10, <1>11, <1>12, <1>13, <1>14 DEF D

\* The records that PutRecords has put.
Recorded(u, st, records, n) ==
    /\ DOMAIN u.hist = DOMAIN st.hist \cup (st.seq + 1)..(st.seq + n)
    /\ \A i \in (st.seq + 1)..(st.seq + n) : u.hist[i] = records[i - st.seq] /\ i - st.seq \in 1..n

LEMMA PutRows ==
    ASSUME NEW st, IsStore(st), NEW records \in Seq(Nat), NEW n \in 0..Len(records),
           NEW u, u = PutRecords(st, records, n)
    PROVE  Recorded(u, st, records, n)
  BY PutFacts DEF Recorded

LEMMA AppendFacts ==
    ASSUME NEW st, IsStore(st), NEW records \in Seq(Nat), NEW u, u = append_finalized_history(st, records)
    PROVE  /\ IsStore(u) /\ Books(u) = Books(st) /\ u.cursor = st.cursor /\ u.seq = st.seq + Len(records)
           /\ u.hist = PutRecords(st, records, Len(records)).hist
           /\ finalized_history(u) \subseteq finalized_history(st) \cup Range(records)
<1> DEFINE w == PutRecords(st, records, Len(records))
<1>1. Len(records) \in 0..Len(records) /\ st.seq \in Nat /\ st.cursor \in Nat /\ st.snap \in Nat
  BY DEF IsStore
<1>2. IsStore(w) /\ Books(w) = Books(st) /\ w.cursor = st.cursor /\ w.seq = st.seq /\ w.snap = st.snap
      /\ finalized_history(w) \subseteq finalized_history(st) \cup Range(records)
  BY <1>1, PutFacts
<1>3. u = [w EXCEPT !.seq = st.seq + Len(records)]
  BY DEF append_finalized_history
<1> HIDE DEF w
<1>4. w.snap \in Nat /\ w.cursor \in Nat /\ w.hist \in [DOMAIN w.hist -> Nat] /\ DOMAIN w.hist \subseteq Nat
  BY <1>2 DEF IsStore
<1>5. IsRecord(u) /\ u.hist = w.hist /\ u.seq = st.seq + Len(records) /\ u.cursor = w.cursor /\ u.snap = w.snap
      /\ u.sent = w.sent /\ u.pend = w.pend /\ u.timed = w.timed
  <2>1. IsRecord(w)
    BY <1>2, StoreFields
  <2> QED
    BY <1>3, <2>1 DEF IsRecord
<1>6. st.seq + Len(records) \in Nat
  BY <1>1
<1>7. IsStore(u) /\ u.hist = w.hist /\ u.seq = st.seq + Len(records) /\ u.cursor = w.cursor /\ Books(u) = Books(w)
  BY <1>2, <1>4, <1>5, <1>6, HistoryWrite
<1>8. finalized_history(u) = finalized_history(w)
  BY <1>7 DEF finalized_history
<1> QED
  BY <1>2, <1>7, <1>8 DEF w

LEMMA EmptiedFacts ==
    ASSUME NEW st, IsStore(st), NEW u, u = Emptied(st)
    PROVE  /\ IsStore(u) /\ Books(u) = Books(st) /\ u.cursor = st.cursor /\ u.seq = 0
           /\ DOMAIN u.hist = {} /\ finalized_history(u) = {}
<1>1. st.snap \in Nat /\ st.cursor \in Nat
  BY DEF IsStore
<1>2. IsRecord(u) /\ u.hist = <<>> /\ u.seq = 0 /\ u.cursor = st.cursor /\ u.snap = st.snap
      /\ u.sent = st.sent /\ u.pend = st.pend /\ u.timed = st.timed
  <2>1. IsRecord(st)
    BY StoreFields
  <2> QED
    BY <2>1 DEF IsRecord, Emptied
<1>3. <<>> \in [DOMAIN <<>> -> Nat] /\ DOMAIN <<>> = {}
  OBVIOUS
<1>4. IsStore(u) /\ Books(u) = Books(st)
  <2>1. u.hist \in [DOMAIN u.hist -> Nat] /\ DOMAIN u.hist \subseteq Nat
    BY <1>2, <1>3
  <2>2. u.seq \in Nat /\ u.cursor \in Nat /\ u.snap \in Nat
    BY <1>1, <1>2
  <2> QED
    BY <1>2, <2>1, <2>2, HistoryWrite
<1> QED
  BY <1>2, <1>3, <1>4 DEF finalized_history, Range

LEMMA WithoutFacts ==
    ASSUME NEW f, NEW ids, NEW g, g = Without(f, ids)
    PROVE  DOMAIN g = DOMAIN f \ ids /\ \A i \in DOMAIN g : g[i] = f[i]
  BY DEF Without, Restrict

LEMMA ErasedFacts ==
    ASSUME NEW st, IsStore(st), NEW n, NEW u, u = [st EXCEPT !.hist = Without(@, 1..n)]
    PROVE  /\ IsStore(u) /\ Books(u) = Books(st) /\ u.cursor = st.cursor /\ u.hist = Without(st.hist, 1..n)
           /\ finalized_history(u) \subseteq finalized_history(st)
<1> DEFINE rest == Without(st.hist, 1..n)
<1>1. DOMAIN rest = DOMAIN st.hist \ (1..n) /\ \A i \in DOMAIN rest : rest[i] = st.hist[i]
  BY DEF Without, Restrict
<1>2. rest = [i \in DOMAIN rest |-> rest[i]]
  BY DEF Without, Restrict
<1>3. IsRecord(u) /\ u.hist = rest /\ u.seq = st.seq /\ u.cursor = st.cursor /\ u.snap = st.snap
      /\ u.sent = st.sent /\ u.pend = st.pend /\ u.timed = st.timed
  <2>1. IsRecord(st)
    BY StoreFields
  <2> HIDE DEF rest
  <2>2. u = [st EXCEPT !.hist = rest]
    BY DEF rest
  <2> QED
    BY <2>1, <2>2 DEF IsRecord
<1> HIDE DEF rest
<1>4. st.snap \in Nat /\ st.cursor \in Nat /\ st.seq \in Nat /\ DOMAIN st.hist \subseteq Nat /\ \A i \in DOMAIN st.hist : st.hist[i] \in Nat
  BY DEF IsStore
<1>5. rest \in [DOMAIN rest -> Nat] /\ DOMAIN rest \subseteq Nat
  BY <1>1, <1>2, <1>4
<1>6. IsStore(u) /\ u.hist = rest /\ u.cursor = st.cursor /\ Books(u) = Books(st)
  BY <1>3, <1>4, <1>5, HistoryWrite
<1>7. finalized_history(u) \subseteq finalized_history(st)
  BY <1>1, <1>6 DEF finalized_history, Range
<1> QED
  BY <1>6, <1>7 DEF rest
-----------------------------------------------------------------------------
(* What a result holds.                                                       *)

\* The first n transactions are those of whole blocks.
Whole(n) ==
    n = 0 \/ \A j \in 1..Len(chain.fin) : chain.fin[j].height <= chain.fin[n].height => j <= n

LEMMA UpToIsWhole ==
    ASSUME WsTypeOK, ChainInv, NEW v \in Nat
    PROVE  Whole(Len(IdsAt(v)))
<1>1. chain.fin \in Seq(Finals)
  BY DEF WsTypeOK
<1> DEFINE n == Len(IdsAt(v))
<1>2. n \in Nat /\ n <= Len(chain.fin) /\ n = Cardinality(UpTo(v))
  BY <1>1, IdsAtFacts
<1>3. UpTo(v) = 1..n
  <2>1. \A i, j \in 1..Len(chain.fin) : i < j => chain.fin[i].height <= chain.fin[j].height
    BY DEF ChainInv
  <2>2. v \in Int
    OBVIOUS
  <2>3. UpTo(v) = 1..Cardinality(UpTo(v))
    BY <1>1, <2>1, <2>2, UpToIsPrefix
  <2> QED
    BY <2>3, <1>2
<1> HIDE DEF n
<1> SUFFICES ASSUME n # 0, NEW j \in 1..Len(chain.fin), chain.fin[j].height <= chain.fin[n].height
             PROVE  j <= n
  BY DEF Whole, n
<1>4. n \in UpTo(v) /\ chain.fin[n].height <= v
  <2>1. n \in 1..n
    BY <1>2
  <2>2. n \in UpTo(v)
    BY <2>1, <1>3
  <2> QED
    BY <2>2 DEF UpTo
<1>5. chain.fin[j].height <= v
  <2>1. n \in 1..Len(chain.fin) /\ Len(chain.fin) \in Nat
    BY <1>1, <1>2, FinParts
  <2>2. chain.fin[j].height \in Nat /\ chain.fin[n].height \in Nat
    BY <1>1, <2>1, FinParts
  <2> QED
    BY <2>2, <1>4
<1>6. j \in UpTo(v)
  <2>1. j \in DOMAIN chain.fin
    BY <1>1
  <2> QED
    BY <2>1, <1>5 DEF UpTo
<1>7. j \in 1..n
  BY <1>3, <1>6, Zenon
<1> QED
  BY <1>2, <1>7

IsHistory(part) ==
    /\ part.records \in Seq(Nat) /\ part.cursor \in 0..Len(chain.fin)
    /\ part.seen \subseteq FinalIds /\ Range(part.records) \subseteq FinalIds
    /\ part.mode \in {"replace", "append", "none"}
    /\ part.mode = "replace" =>
          /\ Len(part.records) = part.cursor /\ Whole(part.cursor)
          /\ \A i \in 1..part.cursor : part.records[i] = chain.fin[i].id
    /\ part.mode = "append" =>
          /\ disk.cursor # 0 /\ part.cursor = disk.cursor + Len(part.records)
          /\ Len(part.records) # 0 => Whole(part.cursor)
          /\ \A i \in 1..Len(part.records) :
                part.records[i] = chain.fin[disk.cursor + i].id /\ part.records[i] \notin finalized_history(disk)

Rebuilt(v) == [mode |-> "replace", records |-> IdsAt(v), cursor |-> Len(IdsAt(v)), seen |-> Range(IdsAt(v))]
More(r, v) == SubSeq(IdsAt(v), r.cursor + 1, Len(IdsAt(v)))
Continued(r, v) ==
    [mode |-> "append", records |-> More(r, v), cursor |-> r.cursor + Len(More(r, v)), seen |-> r.hist \cup Range(More(r, v))]
Unmoved(r) == [mode |-> "none", records |-> <<>>, cursor |-> r.cursor, seen |-> r.hist]

LEMMA HistoryResults ==
    ASSUME NEW r, NEW t, NEW v, NEW part \in history_result(r, t, v)
    PROVE  \/ part = Rebuilt(v)
           \/ part = Unmoved(r)
           \/ part = Continued(r, v) /\ r.cursor # 0 /\ Range(More(r, v)) \cap r.hist = {}
<1>1. CASE r.hist = {} \/ (r.cursor = 0 /\ t # r.tip)
  BY <1>1 DEF history_result, Rebuilt
<1>2. CASE ~(r.hist = {} \/ (r.cursor = 0 /\ t # r.tip)) /\ t = r.tip
  BY <1>2 DEF history_result, Unmoved
<1>3. CASE ~(r.hist = {} \/ (r.cursor = 0 /\ t # r.tip)) /\ t # r.tip
  <2>1. \/ part = Rebuilt(v)
        \/ part = Continued(r, v) /\ Range(More(r, v)) \cap r.hist = {}
    BY <1>3 DEF history_result, Rebuilt, Continued, More
  <2> QED
    BY <1>3, <2>1
<1> QED
  BY <1>1, <1>2, <1>3

LEMMA MoreFacts ==
    ASSUME chain.fin \in Seq(Finals), NEW r, r.cursor \in Nat, NEW v
    PROVE  /\ More(r, v) \in Seq(Nat) /\ Len(More(r, v)) \in Nat
           /\ Len(More(r, v)) # 0 => r.cursor + Len(More(r, v)) = Len(IdsAt(v))
           /\ \A i \in 1..Len(More(r, v)) :
                 r.cursor + i \in 1..Len(chain.fin) /\ More(r, v)[i] = chain.fin[r.cursor + i].id
           /\ Range(More(r, v)) \subseteq FinalIds
<1> DEFINE s == IdsAt(v)
           c == r.cursor
           m == More(r, v)
<1>1. s \in Seq(Nat) /\ Len(s) \in Nat /\ Len(s) <= Len(chain.fin) /\ Len(chain.fin) \in Nat /\ \A i \in 1..Len(s) : s[i] = chain.fin[i].id
  BY IdsAtFacts
<1>2. m = SubSeq(s, c + 1, Len(s))
  BY DEF More
<1>3. c \in Nat
  OBVIOUS
<1> HIDE DEF s, c, m
<1>4. m \in Seq(Nat) /\ Len(m) = (IF c + 1 <= Len(s) THEN Len(s) - c ELSE 0) /\ \A i \in 1..Len(m) : m[i] = s[c + i]
  BY <1>1, <1>2, <1>3
<1>5. Len(m) \in Nat /\ (Len(m) # 0 => c + Len(m) = Len(s))
  BY <1>1, <1>3, <1>4
<1>6. \A i \in 1..Len(m) : c + i \in 1..Len(s) /\ c + i \in 1..Len(chain.fin)
  BY <1>1, <1>3, <1>5, SMTT(20)
<1>7. \A i \in 1..Len(m) : c + i \in 1..Len(chain.fin) /\ m[i] = chain.fin[c + i].id
  BY <1>1, <1>4, <1>6
<1>8. Range(m) \subseteq FinalIds
  <2>1. DOMAIN m = 1..Len(m)
    BY <1>4
  <2>2. DOMAIN chain.fin = 1..Len(chain.fin)
    OBVIOUS
  <2> QED
    BY <2>1, <2>2, <1>7 DEF Range, FinalIds
<1> QED
  BY <1>4, <1>5, <1>7, <1>8 DEF s, c, m

LEMMA HistoryFacts ==
    ASSUME WsTypeOK, ChainInv, RequestsInv, disk.cursor <= Len(chain.fin),
           NEW r \in refreshes, r.fresh, NEW t, NEW v \in Nat, NEW part \in history_result(r, t, v)
    PROVE  IsHistory(part)
<1>1. chain.fin \in Seq(Finals) /\ disk.cursor \in Nat
  BY DEF WsTypeOK, IsStore
<1>2. r.hist = finalized_history(disk) /\ r.hist \subseteq FinalIds /\ r.cursor = disk.cursor
  BY DEF RequestsInv, UpToDate
<1>3. CASE part = Rebuilt(v)
  <2>1. part.mode = "replace" /\ part.records = IdsAt(v) /\ part.cursor = Len(IdsAt(v)) /\ part.seen = Range(IdsAt(v))
    BY <1>3 DEF Rebuilt
  <2>2. Whole(part.cursor)
    BY <2>1, UpToIsWhole
  <2>3. part.cursor \in 0..Len(chain.fin) /\ Len(part.records) = part.cursor /\ part.records \in Seq(Nat)
    BY <2>1, <1>1, IdsAtFacts
  <2>4. \A i \in 1..part.cursor : part.records[i] = chain.fin[i].id
    BY <2>1, <1>1, IdsAtFacts
  <2>5. Range(IdsAt(v)) \subseteq FinalIds
    BY <1>1, IdsAtFacts
  <2> QED
    BY <2>1, <2>2, <2>3, <2>4, <2>5 DEF IsHistory
<1>4. CASE part = Unmoved(r)
  <2>1. part.mode = "none" /\ part.records = <<>> /\ part.cursor = r.cursor /\ part.seen = r.hist
    BY <1>4 DEF Unmoved
  <2>2. part.records \in Seq(Nat) /\ Range(part.records) = {}
    BY <2>1 DEF Range
  <2>3. part.cursor \in 0..Len(chain.fin)
    BY <2>1, <1>1, <1>2
  <2> QED
    BY <2>1, <2>2, <2>3, <1>2 DEF IsHistory
<1>5. CASE part = Continued(r, v) /\ r.cursor # 0 /\ Range(More(r, v)) \cap r.hist = {}
  <2> DEFINE m == More(r, v)
  <2>1. part.mode = "append" /\ part.records = m /\ part.cursor = r.cursor + Len(m) /\ part.seen = r.hist \cup Range(m)
    BY <1>5 DEF Continued
  <2>2. r.cursor \in Nat
    BY <1>1, <1>2
  <2>3. m \in Seq(Nat) /\ Len(m) \in Nat /\ (Len(m) # 0 => r.cursor + Len(m) = Len(IdsAt(v))) /\ Range(m) \subseteq FinalIds
    BY <1>1, <2>2, MoreFacts
  <2>4. \A i \in 1..Len(m) : r.cursor + i \in 1..Len(chain.fin) /\ m[i] = chain.fin[r.cursor + i].id
    BY <1>1, <2>2, MoreFacts
  <2> HIDE DEF m
  <2>5. \A i \in 1..Len(m) : m[i] \notin finalized_history(disk)
    <3>1. \A i \in 1..Len(m) : m[i] \in Range(m)
      BY <2>3 DEF Range
    <3>2. Range(m) \cap r.hist = {}
      BY <1>5 DEF m
    <3> QED
      BY <3>1, <3>2, <1>2
  <2>6. Len(m) # 0 => Whole(part.cursor)
    BY <2>1, <2>3, UpToIsWhole
  <2>7. part.cursor \in 0..Len(chain.fin)
    <3>1. CASE Len(m) = 0
      BY <3>1, <2>1, <1>2, <1>1
    <3>2. CASE Len(m) # 0
      <4>1. Len(m) \in 1..Len(m)
        BY <3>2, <2>3
      <4> QED
        BY <4>1, <2>1, <2>4
    <3> QED
      BY <3>1, <3>2
  <2>8. part.seen \subseteq FinalIds
    BY <2>1, <2>3, <1>2
  <2> QED
    BY <2>1, <2>3, <2>4, <2>5, <2>6, <2>7, <2>8, <1>2, <1>5 DEF IsHistory
<1> QED
  BY <1>3, <1>4, <1>5, HistoryResults

\* Nothing leaves the books that is not final and may still become so.
MayLeave(id) == id \in FinalIds \/ (id \in DOMAIN disk.pend => chain.tip >= disk.pend[id].created + MinTipDelta)

IsResult(res) ==
    /\ res.tip \in Nat /\ IsHistory(res.history)
    /\ \A id \in res.gone \cup res.settled : MayLeave(id)

LEMMA ResultFacts ==
    ASSUME WsTypeOK, ChainInv, RequestsInv, disk.cursor <= Len(chain.fin),
           NEW r \in refreshes, r.fresh, NEW res \in Results(r)
    PROVE  IsResult(res)
<1>1. chain.fin \in Seq(Finals) /\ chain.tip \in Nat
  BY DEF WsTypeOK
<1> DEFINE final(part, w) == (r.sent \ part.seen) \cap Range(IdsAt(w))
           mayDrop(a, part, w) == {id \in (r.sent \ part.seen) \ final(part, w) : dropped_from_runtime(r, a, id)}
<1>a. PICK a \in Heights, v \in Heights, w \in Heights : \E part \in history_result(r, a, v) :
           \E f \in SUBSET final(part, w) : \E g \in SUBSET mayDrop(a, part, w) : res = build_refresh_result(r, a, part, f, g)
  BY DEF Results
<1>b. PICK part \in history_result(r, a, v) :
           \E f \in SUBSET final(part, w) : \E g \in SUBSET mayDrop(a, part, w) : res = build_refresh_result(r, a, part, f, g)
  BY <1>a
<1>2. PICK f \in SUBSET final(part, w) : \E g \in SUBSET mayDrop(a, part, w) : res = build_refresh_result(r, a, part, f, g)
  BY <1>b
<1>c. PICK g \in SUBSET mayDrop(a, part, w) : res = build_refresh_result(r, a, part, f, g)
  BY <1>2
<1>3. a \in Nat /\ a <= chain.tip /\ v \in Nat /\ w \in Nat
  BY <1>1 DEF Heights
<1>4. IsHistory(part)
  BY <1>3, HistoryFacts
<1>5. res.tip = a /\ res.history = part /\ res.gone = (r.sent \cap part.seen) \cup f \cup g /\ res.settled = DOMAIN r.pend \cap part.seen
  BY <1>c DEF build_refresh_result
<1>6. part.seen \subseteq FinalIds
  BY <1>4 DEF IsHistory
<1>7. f \subseteq FinalIds
  BY <1>1, IdsAtFacts
<1>8. \A id \in g : MayLeave(id)
  <2> SUFFICES ASSUME NEW id \in g, id \in DOMAIN disk.pend PROVE chain.tip >= disk.pend[id].created + MinTipDelta
    BY DEF MayLeave
  <2>1. dropped_from_runtime(r, a, id)
    OBVIOUS
  <2>2. r.pend = disk.pend
    BY DEF RequestsInv, UpToDate
  <2>3. a >= disk.pend[id].created + MinTipDelta
    BY <2>1, <2>2 DEF dropped_from_runtime
  <2>4. disk.pend[id].created \in Nat
    BY DEF WsTypeOK, IsStore, Holds
  <2> QED
    BY <2>3, <2>4, <1>1, <1>3, WalletSendsAssumption
<1>9. \A id \in res.gone \cup res.settled : MayLeave(id)
  BY <1>5, <1>6, <1>7, <1>8 DEF MayLeave
<1> QED
  BY <1>3, <1>4, <1>5, <1>9 DEF IsResult
-----------------------------------------------------------------------------
(* A result is applied, whole or cut short by a kill: the books.              *)

\* The books of the store with a history of final transactions.
SameBooks(st) == IsStore(st) /\ Books(st) = Books(disk) /\ finalized_history(st) \subseteq FinalIds

\* The books of the store, less what may leave them.
Shrunk(st) ==
    /\ IsStore(st) /\ st.timed = disk.timed /\ finalized_history(st) \subseteq FinalIds
    /\ DOMAIN st.pend \subseteq DOMAIN disk.pend /\ \A i \in DOMAIN st.pend : st.pend[i] = disk.pend[i]
    /\ \A i \in DOMAIN disk.pend : i \in DOMAIN st.pend \/ MayLeave(i)

LEMMA SameIsShrunk ==
    ASSUME NEW st, SameBooks(st)
    PROVE  Shrunk(st)
  BY DEF SameBooks, Shrunk, Books

LEMMA RemovalsFacts ==
    ASSUME NEW st, SameBooks(st), NEW p, NEW q, \A id \in p : MayLeave(id), NEW u, u = ApplyRemovals(st, p, q)
    PROVE  Shrunk(u) /\ u.hist = st.hist /\ u.seq = st.seq /\ u.cursor = st.cursor
<1>1. IsRecord(st)
  BY StoreFields DEF SameBooks
<1> DEFINE g == Without(st.pend, p)
<1>2. DOMAIN g = DOMAIN st.pend \ p /\ (\A i \in DOMAIN g : g[i] = st.pend[i]) /\ g = [i \in DOMAIN g |-> g[i]]
  BY DEF Without, Restrict
<1> HIDE DEF g
<1>3. u = [st EXCEPT !.pend = g, !.sent = st.sent \ q]
  BY <1>1 DEF ApplyRemovals, g, IsRecord
<1>4. IsRecord(u) /\ u.hist = st.hist /\ u.seq = st.seq /\ u.cursor = st.cursor /\ u.snap = st.snap
      /\ u.sent = st.sent \ q /\ u.pend = g /\ u.timed = st.timed
  BY <1>1, <1>3 DEF IsRecord
<1>5. /\ st.pend \in [DOMAIN st.pend -> Holds] /\ DOMAIN st.pend \subseteq Nat /\ st.sent \in SUBSET Nat
      /\ st.snap \in Nat /\ st.seq \in Nat /\ st.cursor \in Nat /\ st.timed \in SUBSET Txs
      /\ st.hist \in [DOMAIN st.hist -> Nat] /\ DOMAIN st.hist \subseteq Nat
  BY DEF SameBooks, IsStore
<1>6. g \in [DOMAIN g -> Holds] /\ DOMAIN g \subseteq Nat
  BY <1>2, <1>5
<1>7. IsStore(u)
  BY <1>4, <1>5, <1>6 DEF IsStore, IsRecord
<1>8. st.pend = disk.pend /\ st.timed = disk.timed /\ finalized_history(st) \subseteq FinalIds
  BY DEF SameBooks, Books
<1>9. finalized_history(u) = finalized_history(st)
  BY <1>4 DEF finalized_history
<1> QED
  BY <1>2, <1>4, <1>7, <1>8, <1>9 DEF Shrunk

LEMMA SnapshotFacts ==
    ASSUME WsTypeOK, RequestsInv, NEW res, IsResult(res), NEW u, u = ApplySnapshot(disk, res)
    PROVE  SameBooks(u) /\ u.hist = disk.hist /\ u.seq = disk.seq /\ u.cursor = disk.cursor
<1>1. IsStore(disk)
  BY DEF WsTypeOK
<1>2. IsRecord(disk) /\ disk.seq \in Nat /\ disk.cursor \in Nat
  BY <1>1, StoreFields
<1>3. IsRecord(u) /\ u.hist = disk.hist /\ u.seq = disk.seq /\ u.cursor = disk.cursor /\ u.snap = res.tip
      /\ u.sent = disk.sent /\ u.pend = disk.pend /\ u.timed = disk.timed
  BY <1>2 DEF ApplySnapshot, IsRecord
<1>4. u.hist \in [DOMAIN u.hist -> Nat] /\ DOMAIN u.hist \subseteq Nat
  BY <1>1, <1>3 DEF IsStore
<1>5. u.seq \in Nat /\ u.cursor \in Nat /\ u.snap \in Nat
  BY <1>2, <1>3 DEF IsResult
<1>6. IsStore(u) /\ Books(u) = Books(disk)
  BY <1>1, <1>3, <1>4, <1>5, HistoryWrite
<1> QED
  BY <1>3, <1>6 DEF SameBooks, RequestsInv, finalized_history

LEMMA ApplyHistoryFacts ==
    ASSUME NEW st, SameBooks(st), NEW res, IsResult(res), NEW u, u = ApplyHistory(st, res)
    PROVE  SameBooks(u) /\ u.cursor = st.cursor
<1> DEFINE rec == res.history.records
<1>1. rec \in Seq(Nat) /\ Range(rec) \subseteq FinalIds /\ res.history.mode \in {"replace", "append", "none"}
  BY DEF IsResult, IsHistory
<1>2. IsStore(st) /\ Books(st) = Books(disk) /\ finalized_history(st) \subseteq FinalIds
  BY DEF SameBooks
<1> HIDE DEF rec
<1>3. CASE res.history.mode = "replace"
  <2> DEFINE w == Emptied(st)
  <2>1. u = append_finalized_history(w, rec)
    BY <1>3 DEF ApplyHistory, replace_finalized_history, rec
  <2>2. IsStore(w) /\ Books(w) = Books(st) /\ w.cursor = st.cursor /\ finalized_history(w) = {}
    BY <1>2, EmptiedFacts
  <2> HIDE DEF w
  <2>3. IsStore(u) /\ Books(u) = Books(w) /\ u.cursor = w.cursor /\ finalized_history(u) \subseteq finalized_history(w) \cup Range(rec)
    BY <1>1, <2>1, <2>2, AppendFacts
  <2> QED
    BY <1>1, <1>2, <2>2, <2>3 DEF SameBooks
<1>4. CASE res.history.mode = "append" /\ rec # <<>>
  <2>1. u = append_finalized_history(st, rec)
    BY <1>4 DEF ApplyHistory, rec
  <2>2. IsStore(u) /\ Books(u) = Books(st) /\ u.cursor = st.cursor /\ finalized_history(u) \subseteq finalized_history(st) \cup Range(rec)
    BY <1>1, <1>2, <2>1, AppendFacts
  <2> QED
    BY <1>1, <1>2, <2>2 DEF SameBooks
<1>5. CASE res.history.mode # "replace" /\ ~(res.history.mode = "append" /\ rec # <<>>)
  <2>1. u = st
    BY <1>5 DEF ApplyHistory, rec
  <2> QED
    BY <2>1
<1> QED
  BY <1>3, <1>4, <1>5

LEMMA CursorWrite ==
    ASSUME NEW st, SameBooks(st), NEW c \in Nat, NEW u, u = [st EXCEPT !.cursor = c]
    PROVE  SameBooks(u) /\ u.hist = st.hist /\ u.seq = st.seq /\ u.cursor = c
<1>1. IsStore(st) /\ Books(st) = Books(disk) /\ finalized_history(st) \subseteq FinalIds
  BY DEF SameBooks
<1>2. IsRecord(st) /\ st.seq \in Nat /\ st.snap \in Nat
  BY <1>1, StoreFields
<1>3. IsRecord(u) /\ u.hist = st.hist /\ u.seq = st.seq /\ u.cursor = c /\ u.snap = st.snap
      /\ u.sent = st.sent /\ u.pend = st.pend /\ u.timed = st.timed
  BY <1>2 DEF IsRecord
<1>4. u.hist \in [DOMAIN u.hist -> Nat] /\ DOMAIN u.hist \subseteq Nat
  BY <1>1, <1>3 DEF IsStore
<1>5. IsStore(u) /\ Books(u) = Books(st)
  BY <1>1, <1>2, <1>3, <1>4, HistoryWrite
<1>6. finalized_history(u) = finalized_history(st)
  BY <1>3 DEF finalized_history
<1> QED
  BY <1>1, <1>3, <1>5, <1>6 DEF SameBooks

LEMMA ApplyCursorFacts ==
    ASSUME NEW st, SameBooks(st), NEW res, IsResult(res), NEW u, u = ApplyCursor(st, res)
    PROVE  /\ SameBooks(u) /\ u.hist = st.hist /\ u.seq = st.seq
           /\ u.cursor = IF res.history.mode = "none" THEN st.cursor ELSE res.history.cursor
<1>1. res.history.cursor \in Nat
  BY DEF IsResult, IsHistory
<1> QED
  BY <1>1, CursorWrite DEF ApplyCursor

LEMMA CursorCutFacts ==
    ASSUME chain.fin \in Seq(Finals), NEW st, SameBooks(st), NEW res, NEW u \in CursorCut(st, res)
    PROVE  /\ SameBooks(u) /\ u.hist = st.hist /\ u.seq = st.seq
           /\ \/ u.cursor = 0
              \/ /\ st.cursor # 0 /\ res.history.mode # "none" /\ res.history.cursor # 0
                 /\ u.cursor \in 0..Cardinality(UpTo(chain.fin[res.history.cursor].height))
<1> DEFINE at == res.history.cursor
           top == chain.fin[at].height
<1>1. PICK c : /\ u = [st EXCEPT !.cursor = c] /\ res.history.mode # "none"
               /\ \/ c = 0
                  \/ st.cursor # 0 /\ at # 0 /\ c \in Cardinality(UpTo(top - 1))..Cardinality(UpTo(top))
  BY DEF CursorCut, UpTo
<1> HIDE DEF top, at
<1>2. Cardinality(UpTo(top - 1)) \in Nat /\ Cardinality(UpTo(top)) \in Nat
  BY UpToFinite
<1>3. c \in Nat /\ (c = 0 \/ (st.cursor # 0 /\ at # 0 /\ c \in 0..Cardinality(UpTo(top))))
  BY <1>1, <1>2
<1>4. SameBooks(u) /\ u.hist = st.hist /\ u.seq = st.seq /\ u.cursor = c
  BY <1>1, <1>3, CursorWrite
<1> QED
  BY <1>1, <1>3, <1>4 DEF top, at

LEMMA AppendCutFacts ==
    ASSUME NEW st, IsStore(st), NEW records \in Seq(Nat), NEW u \in AppendCut(st, records)
    PROVE  \E n \in 0..Len(records) : u = PutRecords(st, records, n)
  BY DEF AppendCut

LEMMA HistoryCutFacts ==
    ASSUME NEW st, SameBooks(st), NEW res, IsResult(res), NEW u \in HistoryCut(st, res)
    PROVE  SameBooks(u) /\ u.cursor = st.cursor
<1> DEFINE rec == res.history.records
<1>1. rec \in Seq(Nat) /\ Range(rec) \subseteq FinalIds
  BY DEF IsResult, IsHistory
<1>2. IsStore(st) /\ Books(st) = Books(disk) /\ finalized_history(st) \subseteq FinalIds
  BY DEF SameBooks
<1>3. \/ u = st
      \/ \E n : u = [st EXCEPT !.hist = Without(@, 1..n)]
      \/ u \in AppendCut(st, rec)
      \/ u \in AppendCut(Emptied(st), rec)
  BY DEF HistoryCut, ReplaceCut
<1> HIDE DEF rec
<1>4. ASSUME NEW w, IsStore(w), Books(w) = Books(st), w.cursor = st.cursor, finalized_history(w) \subseteq FinalIds, u \in AppendCut(w, rec)
      PROVE  SameBooks(u) /\ u.cursor = st.cursor
  <2>1. PICK n \in 0..Len(rec) : u = PutRecords(w, rec, n)
    BY <1>1, <1>4, AppendCutFacts
  <2>2. IsStore(u) /\ Books(u) = Books(w) /\ u.cursor = w.cursor /\ finalized_history(u) \subseteq finalized_history(w) \cup Range(rec)
    BY <1>1, <1>4, <2>1, PutFacts
  <2> QED
    BY <1>1, <1>2, <1>4, <2>2 DEF SameBooks
<1>5. CASE \E n : u = [st EXCEPT !.hist = Without(@, 1..n)]
  <2>1. PICK n : u = [st EXCEPT !.hist = Without(@, 1..n)]
    BY <1>5
  <2>2. IsStore(u) /\ Books(u) = Books(st) /\ u.cursor = st.cursor /\ finalized_history(u) \subseteq finalized_history(st)
    BY <1>2, <2>1, ErasedFacts
  <2> QED
    BY <1>2, <2>2 DEF SameBooks
<1>6. CASE u \in AppendCut(Emptied(st), rec)
  <2> DEFINE w == Emptied(st)
  <2>2. IsStore(w) /\ Books(w) = Books(st) /\ w.cursor = st.cursor /\ finalized_history(w) = {}
    BY <1>2, EmptiedFacts
  <2> HIDE DEF w
  <2>3. u \in AppendCut(w, rec)
    BY <1>6 DEF w
  <2> QED
    BY <1>4, <2>2, <2>3
<1> QED
  BY <1>2, <1>3, <1>4, <1>5, <1>6

LEMMA AppliedShrunk ==
    ASSUME WsTypeOK, RequestsInv, NEW res, IsResult(res), NEW u, u = Applied(disk, res)
    PROVE  Shrunk(u)
<1> DEFINE s1 == ApplySnapshot(disk, res)
           s2 == ApplyHistory(s1, res)
           s3 == ApplyCursor(s2, res)
<1>1. SameBooks(s1)
  BY SnapshotFacts
<1>2. u = ApplyRemovals(s3, res.gone \cup res.settled, res.gone)
  BY DEF Applied
<1> HIDE DEF s1
<1>3. SameBooks(s2)
  BY <1>1, ApplyHistoryFacts
<1> HIDE DEF s2
<1>4. SameBooks(s3)
  BY <1>3, ApplyCursorFacts
<1> HIDE DEF s3
<1>5. \A id \in res.gone \cup res.settled : MayLeave(id)
  BY DEF IsResult
<1> QED
  BY <1>2, <1>4, <1>5, RemovalsFacts

LEMMA CutShrunk ==
    ASSUME WsTypeOK, RequestsInv, NEW res, IsResult(res), NEW u \in ApplyCut(disk, res)
    PROVE  Shrunk(u)
<1> DEFINE s1 == ApplySnapshot(disk, res)
           s2 == ApplyHistory(s1, res)
           s3 == ApplyCursor(s2, res)
           lost == res.gone \cup res.settled
<1>1. SameBooks(s1)
  BY SnapshotFacts
<1>2. \/ u = disk \/ u \in HistoryCut(s1, res) \/ u = s2 \/ u \in CursorCut(s2, res)
      \/ \E p \in SUBSET lost : \E q : u = ApplyRemovals(s3, p, q)
  BY DEF ApplyCut
<1> HIDE DEF s1
<1>3. SameBooks(s2)
  BY <1>1, ApplyHistoryFacts
<1> HIDE DEF s2
<1>4. SameBooks(s3)
  BY <1>3, ApplyCursorFacts
<1> HIDE DEF s3
<1>5. \A id \in lost : MayLeave(id)
  BY DEF IsResult
<1>6. CASE u = disk
  <2>1. SameBooks(disk)
    BY DEF SameBooks, WsTypeOK, RequestsInv
  <2> QED
    BY <1>6, <2>1, SameIsShrunk
<1>7. CASE u \in HistoryCut(s1, res)
  BY <1>7, <1>1, HistoryCutFacts, SameIsShrunk
<1>8. CASE u = s2
  BY <1>8, <1>3, SameIsShrunk
<1>9. CASE u \in CursorCut(s2, res)
  <2>1. chain.fin \in Seq(Finals)
    BY DEF WsTypeOK
  <2> QED
    BY <2>1, <1>9, <1>3, CursorCutFacts, SameIsShrunk
<1>10. CASE \E p \in SUBSET lost : \E q : u = ApplyRemovals(s3, p, q)
  <2>0. PICK p \in SUBSET lost : \E q : u = ApplyRemovals(s3, p, q)
    BY <1>10
  <2>1. PICK q : u = ApplyRemovals(s3, p, q)
    BY <2>0
  <2>2. \A id \in p : MayLeave(id)
    BY <1>5
  <2> QED
    BY <2>1, <2>2, <1>4, RemovalsFacts
<1> QED
  BY <1>2, <1>6, <1>7, <1>8, <1>9, <1>10
-----------------------------------------------------------------------------
(* The requests.                                                              *)

LEMMA RequestFacts ==
    ASSUME NEW st, NEW known, NEW r, r = Request(st, known)
    PROVE  IsRequest(r) /\ r.pend = st.pend /\ r.sent = st.sent /\ r.hist = finalized_history(st) /\ r.cursor = st.cursor
  BY DEF Request, IsRequest

LEMMA Superseded ==
    ASSUME NEW q, IsRequest(q), NEW r, r = [q EXCEPT !.latest = FALSE]
    PROVE  IsRequest(r) /\ r.fresh = q.fresh /\ r.pend = q.pend /\ r.sent = q.sent /\ r.hist = q.hist /\ r.cursor = q.cursor
  BY DEF IsRequest

LEMMA Outdated ==
    ASSUME NEW q, IsRequest(q), NEW r, r = [q EXCEPT !.fresh = FALSE]
    PROVE  IsRequest(r) /\ r.fresh = FALSE
  BY DEF IsRequest

LEMMA MarkedFacts ==
    ASSUME NEW rs, \A q \in rs : IsRequest(q), NEW r \in mark_refresh_state_changed(rs)
    PROVE  IsRequest(r) /\ r.fresh = FALSE
<1>1. PICK q \in rs : r = [q EXCEPT !.fresh = FALSE]
  BY DEF mark_refresh_state_changed
<1> QED
  BY <1>1, Outdated

LEMMA RequestedFacts ==
    ASSUME NEW rs, \A q \in rs : IsRequest(q), NEW st, NEW known, NEW r \in refresh_chain_state(rs, st, known)
    PROVE  /\ IsRequest(r)
           /\ \/ r.pend = st.pend /\ r.sent = st.sent /\ r.hist = finalized_history(st) /\ r.cursor = st.cursor
              \/ \E q \in rs : r.fresh = q.fresh /\ r.pend = q.pend /\ r.sent = q.sent /\ r.hist = q.hist /\ r.cursor = q.cursor
<1>1. CASE r = Request(st, known)
  BY <1>1, RequestFacts
<1>2. CASE r # Request(st, known)
  <2>1. PICK q \in rs : r = [q EXCEPT !.latest = FALSE]
    BY <1>2 DEF refresh_chain_state
  <2>2. IsRequest(q)
    OBVIOUS
  <2> QED
    BY <2>1, <2>2, Superseded
<1> QED
  BY <1>1, <1>2

\* The requests after a step: each is up to date if nothing else made it out of date.
RequestsFollow == \A r \in refreshes' : IsRequest(r) /\ (r.fresh => UpToDate(r)')

LEMMA NewRequestFollows ==
    ASSUME WsTypeOK, RequestsInv, NEW rs, NEW known, refreshes' = refresh_chain_state(rs, disk', known),
           \A q \in rs : IsRequest(q),
           \A q \in rs : q.fresh => q \in refreshes /\ disk' = disk
    PROVE  RequestsFollow
<1> SUFFICES ASSUME NEW r \in refreshes' PROVE IsRequest(r) /\ (r.fresh => UpToDate(r)')
  BY DEF RequestsFollow
<1>1. r \in refresh_chain_state(rs, disk', known)
  OBVIOUS
<1>2. IsRequest(r)
  BY <1>1, RequestedFacts
<1>3. \/ r.pend = disk'.pend /\ r.sent = disk'.sent /\ r.hist = finalized_history(disk') /\ r.cursor = disk'.cursor
      \/ \E q \in rs : r.fresh = q.fresh /\ r.pend = q.pend /\ r.sent = q.sent /\ r.hist = q.hist /\ r.cursor = q.cursor
  BY <1>1, RequestedFacts
<1>4. CASE r.pend = disk'.pend /\ r.sent = disk'.sent /\ r.hist = finalized_history(disk') /\ r.cursor = disk'.cursor
  BY <1>2, <1>4 DEF UpToDate, finalized_history
<1>5. CASE \E q \in rs : r.fresh = q.fresh /\ r.pend = q.pend /\ r.sent = q.sent /\ r.hist = q.hist /\ r.cursor = q.cursor
  <2>1. PICK q \in rs : r.fresh = q.fresh /\ r.pend = q.pend /\ r.sent = q.sent /\ r.hist = q.hist /\ r.cursor = q.cursor
    BY <1>5
  <2>2. ASSUME r.fresh PROVE UpToDate(r)'
    <3>1. q \in refreshes /\ q.fresh /\ disk' = disk
      BY <2>1, <2>2
    <3>2. UpToDate(q)
      BY <3>1 DEF RequestsInv
    <3> QED
      BY <2>1, <3>1, <3>2 DEF UpToDate, finalized_history
  <2> QED
    BY <1>2, <2>2
<1> QED
  BY <1>3, <1>4, <1>5

LEMMA MarkedFollow ==
    ASSUME WsTypeOK, NEW rs, rs \subseteq refreshes, refreshes' = mark_refresh_state_changed(rs)
    PROVE  RequestsFollow
<1>1. \A q \in rs : IsRequest(q)
  BY DEF WsTypeOK
<1>2. \A r \in refreshes' : IsRequest(r) /\ r.fresh = FALSE
  BY <1>1, MarkedFacts
<1> QED
  BY <1>2 DEF RequestsFollow

\* After a change of the local state.
LEMMA MarkedRequestFollows ==
    ASSUME WsTypeOK, RequestsInv, NEW known, refreshes' = refresh_chain_state(mark_refresh_state_changed(refreshes), disk', known)
    PROVE  RequestsFollow
<1> DEFINE rs == mark_refresh_state_changed(refreshes)
<1>1. \A q \in refreshes : IsRequest(q)
  BY DEF WsTypeOK
<1>2. \A q \in rs : IsRequest(q) /\ q.fresh = FALSE
  BY <1>1, MarkedFacts
<1>3. refreshes' = refresh_chain_state(rs, disk', known)
  OBVIOUS
<1> HIDE DEF rs
<1> QED
  BY <1>2, <1>3, NewRequestFollows

LEMMA SameRequests ==
    ASSUME WsTypeOK, RequestsInv, refreshes' \subseteq refreshes, disk' = disk
    PROVE  RequestsFollow
<1> SUFFICES ASSUME NEW r \in refreshes PROVE IsRequest(r) /\ (r.fresh => UpToDate(r)')
  BY DEF RequestsFollow
<1>1. IsRequest(r)
  BY DEF WsTypeOK
<1>2. ASSUME r.fresh PROVE UpToDate(r)'
  BY <1>2 DEF RequestsInv, UpToDate, finalized_history
<1> QED
  BY <1>1, <1>2
-----------------------------------------------------------------------------
(* The books, step by step.                                                   *)

BooksInv == WsTypeOK /\ DialogInv /\ HoldsInv /\ KeptInv /\ RequestsInv

LEMMA SameShrunk ==
    ASSUME BooksInv
    PROVE  Shrunk(disk)
  BY SameIsShrunk DEF SameBooks, BooksInv, WsTypeOK, RequestsInv

LEMMA ShrunkKeeps ==
    ASSUME BooksInv, NEW u, Shrunk(u), disk' = u, UNCHANGED <<chain, pool, nextId, kept, unheld, limits>>,
           WindowOK(window'), DialogInv', RequestsFollow
    PROVE  BooksInv'
<1>1. WsTypeOK'
  <2>1. IsStore(disk')
    BY DEF Shrunk
  <2>2. \A r \in refreshes' : IsRequest(r)
    BY DEF RequestsFollow
  <2> QED
    BY <2>1, <2>2 DEF BooksInv, WsTypeOK
<1>2. HoldsInv'
  <2>1. \A i \in DOMAIN u.pend : i \in DOMAIN disk.pend /\ u.pend[i] = disk.pend[i]
    BY DEF Shrunk
  <2>2. u.timed = disk.timed
    BY DEF Shrunk
  <2>3. \A i, j \in DOMAIN u.pend : i # j => Apart(u.pend, i, j)'
    BY <2>1 DEF BooksInv, HoldsInv, Apart
  <2>4. (\A i \in DOMAIN u.pend : i < nextId) /\ \A i \in unheld : i \in Nat /\ i < nextId
    BY <2>1 DEF BooksInv, HoldsInv
  <2>5. \A tx \in u.timed :
          /\ tx.body # 0 /\ tx.body < nextId /\ tx.body \notin unheld
          /\ tx.body \in DOMAIN u.pend => u.pend[tx.body].coins = tx.sealed
    BY <2>1, <2>2 DEF BooksInv, HoldsInv
  <2> QED
    BY <2>3, <2>4, <2>5 DEF HoldsInv
<1>3. KeptInv'
  <2> SUFFICES ASSUME NEW k \in kept, k.id \notin FinalIds, chain.tip < k.dated + MinTipDelta
               PROVE  k.id \in DOMAIN u.pend /\ u.pend[k.id] = [coins |-> k.coins, created |-> k.dated]
    BY ZenonT(20) DEF BooksInv, KeptInv, FinalIds
  <2>1. k.id \in DOMAIN disk.pend /\ disk.pend[k.id] = [coins |-> k.coins, created |-> k.dated]
    BY DEF BooksInv, KeptInv
  <2>2. disk.pend[k.id].created = k.dated
    BY <2>1
  <2>3. chain.tip \in Nat /\ k.dated \in Nat
    BY DEF BooksInv, WsTypeOK
  <2>4. ~MayLeave(k.id)
    BY <2>1, <2>2, <2>3, WalletSendsAssumption DEF MayLeave
  <2> QED
    BY <2>1, <2>4 DEF Shrunk
<1>4. RequestsInv'
  <2>1. finalized_history(disk') \subseteq FinalIds'
    BY DEF Shrunk, FinalIds
  <2> QED
    BY <2>1 DEF RequestsInv, RequestsFollow, finalized_history
<1> QED
  BY <1>1, <1>2, <1>3, <1>4 DEF BooksInv

\* The dialog stays open, or closes, and fewer coins are held.
LEMMA DialogStays ==
    ASSUME BooksInv, NEW u, Shrunk(u), disk' = u, UNCHANGED <<nextId, limits>>,
           window'.dialog = window.dialog \/ window'.dialog = <<>>,
           window'.cancel = window.cancel \/ window'.cancel = <<>>
    PROVE  DialogInv'
<1>1. ASSUME NEW tx \in Txs, window'.dialog = <<tx>> PROVE Planned(tx)'
  <2>1. window'.dialog # <<>>
    BY <1>1
  <2>2. Planned(tx)
    BY <1>1, <2>1 DEF BooksInv, DialogInv
  <2>3. \A i \in DOMAIN u.pend : i \in DOMAIN disk.pend /\ u.pend[i] = disk.pend[i]
    BY DEF Shrunk
  <2> QED
    BY <2>2, <2>3 DEF Planned
<1>2. ASSUME NEW tx \in Txs, window'.cancel = <<tx>> PROVE tx \in disk'.timed /\ window'.dialog = <<>>
  <2>1. window'.cancel # <<>>
    BY <1>2
  <2>2. tx \in disk.timed /\ window.dialog = <<>>
    BY <1>2, <2>1 DEF BooksInv, DialogInv
  <2> QED
    BY <2>2 DEF Shrunk
<1> QED
  BY <1>1, <1>2 DEF DialogInv

LEMMA WindowParts ==
    ASSUME BooksInv
    PROVE  window = [up |-> window.up, tip |-> window.tip, polled |-> window.polled, dialog |-> window.dialog,
                     cancel |-> window.cancel, stage |-> window.stage] /\ window.tip \in Nat
           /\ (window.dialog = <<>> \/ \E tx \in Txs : window.dialog = <<tx>>) /\ chain.tip \in Nat /\ chain.fin \in Seq(Finals)
           /\ (window.cancel = <<>> \/ \E tx \in Txs : window.cancel = <<tx>>)
  BY DEF BooksInv, WsTypeOK, WindowOK

LEMMA PollBooks ==
    ASSUME BooksInv, poll_finalized_tip_status, UNCHANGED limits
    PROVE  BooksInv'
<1>1. PICK v \in Heights : /\ window' = [window EXCEPT !.tip = v, !.polled = v]
                           /\ refreshes' = IF v = window.polled THEN refreshes ELSE refresh_chain_state(refreshes, disk, v)
  BY ZenonT(20) DEF poll_finalized_tip_status
<1>2. UNCHANGED <<chain, pool, disk, nextId, kept, unheld>>
  BY DEF poll_finalized_tip_status
<1>3. v \in Nat
  BY WindowParts DEF Heights
<1>4. WindowOK(window') /\ window'.dialog = window.dialog /\ window'.cancel = window.cancel
  BY <1>1, <1>3, WindowParts DEF WindowOK
<1>5. RequestsFollow
  <2>0. WsTypeOK /\ RequestsInv /\ disk' = disk
    BY <1>2 DEF BooksInv
  <2>1. CASE refreshes' = refreshes
    BY <2>0, <2>1, SameRequests
  <2>2. CASE refreshes' = refresh_chain_state(refreshes, disk, v)
    <3>1. refreshes' = refresh_chain_state(refreshes, disk', v) /\ \A q \in refreshes : IsRequest(q)
      BY <2>0, <2>2 DEF WsTypeOK
    <3> QED
      BY <2>0, <3>1, NewRequestFollows
  <2> QED
    BY <1>1, <2>1, <2>2
<1>6. Shrunk(disk)
  BY SameShrunk
<1>7. DialogInv'
  BY <1>2, <1>4, <1>6, DialogStays
<1> QED
  BY <1>2, <1>4, <1>5, <1>6, <1>7, ShrunkKeeps

LEMMA RefreshBooks ==
    ASSUME BooksInv, Refresh \/ DropResult, UNCHANGED limits
    PROVE  BooksInv'
<1>2. UNCHANGED <<chain, pool, disk, window, nextId, kept, unheld>>
  BY DEF Refresh, DropResult
<1>4. WindowOK(window') /\ window'.dialog = window.dialog /\ window'.cancel = window.cancel
  BY <1>2 DEF BooksInv, WsTypeOK
<1>5. RequestsFollow
  <2>0. WsTypeOK /\ RequestsInv /\ disk' = disk
    BY <1>2 DEF BooksInv
  <2>1. CASE DropResult
    BY <2>0, <2>1, SameRequests DEF DropResult
  <2>2. CASE Refresh
    <3>1. refreshes' = refresh_chain_state(refreshes, disk', window.tip) /\ \A q \in refreshes : IsRequest(q)
      BY <2>0, <2>2 DEF WsTypeOK, Refresh
    <3> QED
      BY <2>0, <3>1, NewRequestFollows
  <2> QED
    BY <2>1, <2>2
<1>6. Shrunk(disk)
  BY SameShrunk
<1>7. DialogInv'
  BY <1>2, <1>4, <1>6, DialogStays
<1> QED
  BY <1>2, <1>4, <1>5, <1>6, <1>7, ShrunkKeeps

LEMMA StartBooks ==
    ASSUME BooksInv, StartWallet, UNCHANGED limits
    PROVE  BooksInv'
<1>1. PICK known \in Heights \cup {disk.snap} : window' = Opened(known)
  BY DEF StartWallet
<1>2. UNCHANGED <<chain, pool, disk, nextId, kept, unheld>> /\ refreshes' = {Request(disk, window'.tip)}
  BY DEF StartWallet
<1>3. known \in Nat
  BY WindowParts DEF Heights, BooksInv, WsTypeOK, IsStore
<1>4. WindowOK(window') /\ window'.dialog = <<>> /\ window'.cancel = <<>>
  BY <1>1, <1>3 DEF WindowOK, Opened
<1>5. RequestsFollow
  BY <1>2, RequestFacts DEF RequestsFollow, UpToDate, finalized_history
<1>6. Shrunk(disk)
  BY SameShrunk
<1>7. DialogInv'
  BY <1>2, <1>4, <1>6, DialogStays
<1> QED
  BY <1>2, <1>4, <1>5, <1>6, <1>7, ShrunkKeeps

LEMMA ApplyBooks ==
    ASSUME BooksInv, ChainInv, disk.cursor <= Len(chain.fin), apply_refresh_result, UNCHANGED limits
    PROVE  BooksInv'
<1>0. UNCHANGED <<chain, pool, nextId, kept, unheld>> /\ WsTypeOK /\ RequestsInv
  BY DEF apply_refresh_result, BooksInv
<1>1. PICK r \in refreshes : /\ should_apply_refresh_result(r)
                             /\ \E res \in Results(r) :
                                  \/ /\ disk' = Applied(disk, res)
                                     /\ window' = [window EXCEPT !.tip = res.tip]
                                     /\ refreshes' = mark_refresh_state_changed(refreshes \ {r})
                                  \/ disk' \in ApplyCut(disk, res) /\ window' = Closed /\ refreshes' = {}
  BY DEF apply_refresh_result
<1>2. PICK res \in Results(r) :
          \/ /\ disk' = Applied(disk, res)
             /\ window' = [window EXCEPT !.tip = res.tip]
             /\ refreshes' = mark_refresh_state_changed(refreshes \ {r})
          \/ disk' \in ApplyCut(disk, res) /\ window' = Closed /\ refreshes' = {}
  BY <1>1
<1>3. IsResult(res)
  <2>1. r.fresh
    BY <1>1 DEF should_apply_refresh_result
  <2> QED
    BY <1>0, <2>1, ResultFacts
<1>4. CASE disk' = Applied(disk, res) /\ window' = [window EXCEPT !.tip = res.tip] /\ refreshes' = mark_refresh_state_changed(refreshes \ {r})
  <2>1. Shrunk(disk')
    BY <1>0, <1>3, <1>4, AppliedShrunk
  <2>2. WindowOK(window') /\ window'.dialog = window.dialog /\ window'.cancel = window.cancel
    BY <1>3, <1>4, WindowParts DEF WindowOK, IsResult
  <2>3. RequestsFollow
    <3>1. (refreshes \ {r}) \subseteq refreshes
      OBVIOUS
    <3> QED
      BY <1>0, <1>4, <3>1, MarkedFollow
  <2>4. DialogInv'
    BY <1>0, <2>1, <2>2, DialogStays
  <2> QED
    BY <1>0, <2>1, <2>2, <2>3, <2>4, ShrunkKeeps
<1>5. CASE disk' \in ApplyCut(disk, res) /\ window' = Closed /\ refreshes' = {}
  <2>1. Shrunk(disk')
    BY <1>0, <1>3, <1>5, CutShrunk
  <2>2. WindowOK(window') /\ window'.dialog = <<>> /\ window'.cancel = <<>>
    BY <1>5 DEF WindowOK, Closed, Opened
  <2>3. RequestsFollow
    BY <1>5 DEF RequestsFollow
  <2>4. DialogInv'
    BY <1>0, <2>1, <2>2, DialogStays
  <2> QED
    BY <1>0, <2>1, <2>2, <2>3, <2>4, ShrunkKeeps
<1> QED
  BY <1>2, <1>4, <1>5
-----------------------------------------------------------------------------
(* Sends.                                                                     *)

LEMMA PlanFacts ==
    ASSUME BooksInv, nextId <= limits.ids, NEW v, NEW tx \in PlainPlans(v) \cup SealedPlans(v)
    PROVE  Planned(tx)
<1>1. nextId \in Nat \ {0} /\ limits.ids \in Nat /\ window.tip + 1 + UnlockDelay \in Nat
  BY WindowParts, WalletSendsAssumption, SMTT(20) DEF BooksInv, WsTypeOK
<1>2. \A c \in send_available_prevs(disk, v) : c \in SpendCoins /\ \A i \in DOMAIN disk.pend : c \notin disk.pend[i].coins
  BY DEF send_available_prevs, pending_wallet_reserved_outpoints
<1>3. CASE tx \in PlainPlans(v)
  <2>1. PICK c \in send_available_prevs(disk, v) : tx = Plain(nextId, {c})
    BY <1>3 DEF PlainPlans
  <2>2. tx = [id |-> nextId, coins |-> {c}, body |-> 0, sealed |-> {}, unlock |-> 0, long |-> FALSE]
    BY <2>1 DEF Plain
  <2>3. tx \in Txs
    BY <1>1, <1>2, <2>2 DEF Txs, Coins
  <2> QED
    BY <1>1, <1>2, <2>2, <2>3 DEF Planned
<1>4. CASE tx \in SealedPlans(v)
  <2>1. PICK a \in send_available_prevs(disk, v), c \in send_available_prevs(disk, v), late \in BOOLEAN :
            a # c /\ nextId < limits.ids /\ tx = Sealed(nextId, a, c, window.tip + 1 + UnlockDelay, late)
    BY <1>4 DEF SealedPlans
  <2>2. tx = [id |-> nextId, coins |-> {a}, body |-> nextId + 1, sealed |-> {c}, unlock |-> window.tip + 1 + UnlockDelay, long |-> late]
    BY <2>1 DEF Sealed
  <2>3. nextId + 1 \in Nat /\ nextId + 1 <= limits.ids
    BY <1>1, <2>1
  <2>4. tx \in Txs
    BY <1>1, <1>2, <2>2, <2>3 DEF Txs, Coins
  <2>5. tx.coins \cap tx.sealed = {}
    BY <2>1, <2>2
  <2>6. tx.id <= limits.ids /\ tx.body <= limits.ids /\ tx.id = nextId /\ tx.body \in {0, nextId + 1}
    BY <2>2, <2>3
  <2>7. \A i \in DOMAIN disk.pend : (tx.coins \cup tx.sealed) \cap disk.pend[i].coins = {}
    BY <1>2, <2>2
  <2> QED
    BY <2>4, <2>5, <2>6, <2>7 DEF Planned
<1> QED
  BY <1>3, <1>4

LEMMA PlanBooks ==
    ASSUME BooksInv, PlanSend, UNCHANGED limits
    PROVE  BooksInv'
<1>1. PICK v \in Heights : \E tx \in PlainPlans(v) \cup SealedPlans(v) : window' = [refresh_finalized_send_state(v) EXCEPT !.dialog = <<tx>>]
  BY DEF PlanSend
<1>2. PICK tx \in PlainPlans(v) \cup SealedPlans(v) : window' = [refresh_finalized_send_state(v) EXCEPT !.dialog = <<tx>>]
  BY <1>1
<1>3. UNCHANGED <<chain, pool, disk, refreshes, nextId, kept, unheld>> /\ nextId <= limits.ids /\ window.cancel = <<>>
  BY DEF PlanSend, NoDialog
<1>4. Planned(tx)
  BY <1>3, PlanFacts
<1>5. v \in Nat /\ tx \in Txs
  BY <1>4, WindowParts DEF Heights, Planned
<1>6. window' = [up |-> window.up, tip |-> v, polled |-> window.polled, dialog |-> <<tx>>, cancel |-> <<>>, stage |-> window.stage]
  BY <1>2, <1>3, WindowParts DEF refresh_finalized_send_state
<1>7. WindowOK(window')
  BY <1>5, <1>6 DEF WindowOK
<1>8. DialogInv'
  <2> SUFFICES ASSUME NEW x \in Txs, window'.dialog = <<x>> PROVE Planned(x)'
    BY <1>6 DEF DialogInv
  <2>1. x = tx
    BY <1>6
  <2> QED
    BY <2>1, <1>3, <1>4 DEF Planned
<1>9. RequestsFollow
  BY <1>3, SameRequests DEF BooksInv
<1> QED
  BY <1>3, <1>7, <1>8, <1>9, SameShrunk, ShrunkKeeps

\* A store with other books.
LEMMA BookWrite ==
    ASSUME NEW st, IsStore(st), NEW u, IsRecord(u), u.hist = st.hist, u.seq = st.seq, u.cursor = st.cursor, u.snap = st.snap,
           u.sent \in SUBSET Nat, u.timed \in SUBSET Txs, u.pend \in [DOMAIN u.pend -> Holds], DOMAIN u.pend \subseteq Nat
    PROVE  IsStore(u)
<1>1. st.hist \in [DOMAIN st.hist -> Nat] /\ DOMAIN st.hist \subseteq Nat /\ st.seq \in Nat /\ st.cursor \in Nat /\ st.snap \in Nat
  BY DEF IsStore
<1> QED
  BY <1>1 DEF IsStore, IsRecord

SameHistory(u, st) == u.hist = st.hist /\ u.seq = st.seq /\ u.cursor = st.cursor

LEMMA BookParts ==
    ASSUME NEW st, IsStore(st)
    PROVE  IsRecord(st) /\ st.sent \in SUBSET Nat /\ st.timed \in SUBSET Txs /\ st.pend \in [DOMAIN st.pend -> Holds] /\ DOMAIN st.pend \subseteq Nat
  BY StoreFields DEF IsStore

LEMMA NamedFacts ==
    ASSUME NEW st, IsStore(st), NEW id \in Nat, NEW u, u = [st EXCEPT !.sent = @ \cup {id}]
    PROVE  IsStore(u) /\ SameHistory(u, st) /\ u.pend = st.pend /\ u.timed = st.timed
<1>1. IsRecord(st) /\ st.sent \in SUBSET Nat /\ st.timed \in SUBSET Txs /\ st.pend \in [DOMAIN st.pend -> Holds] /\ DOMAIN st.pend \subseteq Nat
  BY BookParts
<1>2. IsRecord(u) /\ u.hist = st.hist /\ u.seq = st.seq /\ u.cursor = st.cursor /\ u.snap = st.snap
      /\ u.sent = st.sent \cup {id} /\ u.pend = st.pend /\ u.timed = st.timed
  BY <1>1 DEF IsRecord
<1>3. u.sent \in SUBSET Nat /\ u.timed \in SUBSET Txs /\ u.pend \in [DOMAIN u.pend -> Holds] /\ DOMAIN u.pend \subseteq Nat
  BY <1>1, <1>2
<1>4. IsStore(u)
  BY <1>2, <1>3, BookWrite
<1> QED
  BY <1>2, <1>4 DEF SameHistory

LEMMA TimedFacts ==
    ASSUME NEW st, IsStore(st), NEW T \in SUBSET Txs, NEW u, u = [st EXCEPT !.timed = T]
    PROVE  IsStore(u) /\ SameHistory(u, st) /\ u.pend = st.pend /\ u.timed = T
<1>1. IsRecord(st) /\ st.sent \in SUBSET Nat /\ st.timed \in SUBSET Txs /\ st.pend \in [DOMAIN st.pend -> Holds] /\ DOMAIN st.pend \subseteq Nat
  BY BookParts
<1>2. IsRecord(u) /\ u.hist = st.hist /\ u.seq = st.seq /\ u.cursor = st.cursor /\ u.snap = st.snap
      /\ u.sent = st.sent /\ u.pend = st.pend /\ u.timed = T
  BY <1>1 DEF IsRecord
<1>3. u.sent \in SUBSET Nat /\ u.timed \in SUBSET Txs /\ u.pend \in [DOMAIN u.pend -> Holds] /\ DOMAIN u.pend \subseteq Nat
  BY <1>1, <1>2
<1>4. IsStore(u)
  BY <1>2, <1>3, BookWrite
<1> QED
  BY <1>2, <1>4 DEF SameHistory

\* The rows with one more.
WithRow(p, q, id, coins, created) ==
    /\ DOMAIN p = DOMAIN q \cup {id} /\ p[id] = [coins |-> coins, created |-> created]
    /\ \A i \in DOMAIN q \ {id} : p[i] = q[i]

LEMMA UpsertFacts ==
    ASSUME NEW st, IsStore(st), NEW id \in Nat, NEW coins \in Coins, NEW created \in Nat,
           NEW u, u = upsert_pending_spend(st, id, coins, created)
    PROVE  IsStore(u) /\ SameHistory(u, st) /\ u.timed = st.timed /\ WithRow(u.pend, st.pend, id, coins, created)
<1>1. IsRecord(st) /\ st.sent \in SUBSET Nat /\ st.timed \in SUBSET Txs /\ st.pend \in [DOMAIN st.pend -> Holds] /\ DOMAIN st.pend \subseteq Nat
  BY BookParts
<1> DEFINE row == [coins |-> coins, created |-> created]
           g == Put(st.pend, id, row)
<1>2. row \in Holds
  BY DEF Holds
<1> HIDE DEF row
<1>3. g = [i \in DOMAIN st.pend \cup {id} |-> IF i = id THEN row ELSE st.pend[i]]
  BY DEF Put
<1>4. DOMAIN g = DOMAIN st.pend \cup {id} /\ g[id] = row /\ \A i \in DOMAIN st.pend \ {id} : g[i] = st.pend[i]
  BY <1>3
<1>5. g \in [DOMAIN g -> Holds] /\ DOMAIN g \subseteq Nat
  BY <1>1, <1>2, <1>3
<1>6. u = [st EXCEPT !.pend = g]
  BY <1>1 DEF upsert_pending_spend, row, IsRecord
<1> HIDE DEF g
<1>7. IsRecord(u) /\ u.hist = st.hist /\ u.seq = st.seq /\ u.cursor = st.cursor /\ u.snap = st.snap
      /\ u.sent = st.sent /\ u.pend = g /\ u.timed = st.timed
  BY <1>1, <1>6 DEF IsRecord
<1>8. u.sent \in SUBSET Nat /\ u.timed \in SUBSET Txs /\ u.pend \in [DOMAIN u.pend -> Holds] /\ DOMAIN u.pend \subseteq Nat
  BY <1>1, <1>5, <1>7
<1>9. IsStore(u)
  BY <1>7, <1>8, BookWrite
<1> QED
  BY <1>4, <1>7, <1>9 DEF SameHistory, WithRow, row

RowGone(u, st, id) ==
    /\ IsStore(u) /\ SameHistory(u, st) /\ u.timed = st.timed
    /\ DOMAIN u.pend = DOMAIN st.pend \ {id} /\ \A i \in DOMAIN u.pend : u.pend[i] = st.pend[i]

LEMMA RowErased ==
    ASSUME NEW st, IsStore(st), NEW id, NEW g, g = Without(st.pend, {id}), NEW u, u = [st EXCEPT !.pend = g]
    PROVE  RowGone(u, st, id)
<1>1. IsRecord(st) /\ st.sent \in SUBSET Nat /\ st.timed \in SUBSET Txs /\ st.pend \in [DOMAIN st.pend -> Holds] /\ DOMAIN st.pend \subseteq Nat
  BY BookParts
<1>2. DOMAIN g = DOMAIN st.pend \ {id} /\ (\A i \in DOMAIN g : g[i] = st.pend[i]) /\ g = [i \in DOMAIN g |-> g[i]]
  BY DEF Without, Restrict
<1>5. g \in [DOMAIN g -> Holds] /\ DOMAIN g \subseteq Nat
  BY <1>1, <1>2
<1>7. IsRecord(u) /\ u.hist = st.hist /\ u.seq = st.seq /\ u.cursor = st.cursor /\ u.snap = st.snap
      /\ u.sent = st.sent /\ u.pend = g /\ u.timed = st.timed
  BY <1>1 DEF IsRecord
<1>8. u.sent \in SUBSET Nat /\ u.timed \in SUBSET Txs /\ u.pend \in [DOMAIN u.pend -> Holds] /\ DOMAIN u.pend \subseteq Nat
  BY <1>1, <1>5, <1>7
<1>9. IsStore(u)
  BY <1>7, <1>8, BookWrite
<1> QED
  BY <1>2, <1>7, <1>9 DEF SameHistory, RowGone
\* The store with some or all of the records of a send.
Grown(st, tx, known) ==
    /\ IsStore(st) /\ SameHistory(st, disk)
    /\ \A x \in st.timed : x \in disk.timed \/ (x = tx /\ tx.body # 0)
    /\ \A i \in DOMAIN disk.pend : i \in DOMAIN st.pend /\ st.pend[i] = disk.pend[i]
    /\ \A i \in DOMAIN st.pend :
          \/ i \in DOMAIN disk.pend
          \/ i = tx.id /\ st.pend[i] = [coins |-> tx.coins, created |-> known]
          \/ i = tx.body /\ tx.body # 0 /\ st.pend[i] = [coins |-> tx.sealed, created |-> tx.unlock]

LEMMA GrownNamed ==
    ASSUME NEW st, NEW tx, NEW known, Grown(st, tx, known), NEW id \in Nat, NEW u, u = [st EXCEPT !.sent = @ \cup {id}]
    PROVE  Grown(u, tx, known) /\ DOMAIN u.pend = DOMAIN st.pend
<1>1. IsStore(u) /\ SameHistory(u, st) /\ u.pend = st.pend /\ u.timed = st.timed
  BY NamedFacts DEF Grown
<1> QED
  BY <1>1 DEF Grown, SameHistory

LEMMA GrownBody ==
    ASSUME BooksInv, NEW tx, Planned(tx), tx.body # 0, NEW st, NEW known, Grown(st, tx, known), NEW u, u = RecordBody(st, tx)
    PROVE  Grown(u, tx, known) /\ DOMAIN u.pend = DOMAIN st.pend \cup {tx.body}
<1> DEFINE w == [st EXCEPT !.sent = @ \cup {tx.body}]
<1>1. tx.body \in Nat /\ tx.sealed \in Coins /\ tx.unlock \in Nat /\ tx.body = nextId + 1 /\ nextId \in Nat
  BY DEF Planned, Txs, BooksInv, WsTypeOK
<1>2. Grown(w, tx, known) /\ DOMAIN w.pend = DOMAIN st.pend
  BY <1>1, GrownNamed
<1>3. u = upsert_pending_spend(w, tx.body, tx.sealed, tx.unlock)
  BY DEF RecordBody
<1> HIDE DEF w
<1>4. IsStore(u) /\ SameHistory(u, w) /\ u.timed = w.timed /\ WithRow(u.pend, w.pend, tx.body, tx.sealed, tx.unlock)
  BY <1>1, <1>2, <1>3, UpsertFacts DEF Grown
<1>5. tx.body \notin DOMAIN disk.pend
  <2>1. \A i \in DOMAIN disk.pend : i < nextId /\ i \in Nat
    BY DEF BooksInv, HoldsInv, WsTypeOK, IsStore
  <2> QED
    BY <1>1, <2>1
<1> QED
  BY <1>2, <1>4, <1>5 DEF Grown, SameHistory, WithRow

LEMMA GrownTx ==
    ASSUME BooksInv, NEW tx, Planned(tx), NEW st, NEW known \in Nat, Grown(st, tx, known), NEW u, u = RecordTx(st, tx, known)
    PROVE  Grown(u, tx, known) /\ DOMAIN u.pend = DOMAIN st.pend \cup {tx.id}
<1> DEFINE w == [st EXCEPT !.sent = @ \cup {tx.id}]
<1>1. tx.id \in Nat /\ tx.coins \in Coins /\ tx.id = nextId /\ nextId \in Nat
  BY DEF Planned, Txs, BooksInv, WsTypeOK
<1>2. Grown(w, tx, known) /\ DOMAIN w.pend = DOMAIN st.pend
  BY <1>1, GrownNamed
<1>3. u = upsert_pending_spend(w, tx.id, tx.coins, known)
  BY DEF RecordTx
<1> HIDE DEF w
<1>4. IsStore(u) /\ SameHistory(u, w) /\ u.timed = w.timed /\ WithRow(u.pend, w.pend, tx.id, tx.coins, known)
  BY <1>1, <1>2, <1>3, UpsertFacts DEF Grown
<1>5. tx.id \notin DOMAIN disk.pend
  <2>1. \A i \in DOMAIN disk.pend : i < nextId /\ i \in Nat
    BY DEF BooksInv, HoldsInv, WsTypeOK, IsStore
  <2> QED
    BY <1>1, <2>1
<1> QED
  BY <1>2, <1>4, <1>5 DEF Grown, SameHistory, WithRow

LEMMA GrownTimed ==
    ASSUME NEW tx \in Txs, tx.body # 0, NEW st, NEW known, Grown(st, tx, known), NEW u, u = RecordTimed(st, tx)
    PROVE  Grown(u, tx, known) /\ DOMAIN u.pend = DOMAIN st.pend
<1>1. IsStore(st)
  BY DEF Grown
<1>2. IsRecord(st) /\ st.timed \in SUBSET Txs
  BY <1>1, BookParts
<1> DEFINE T == st.timed \cup {tx}
<1>3. u = [st EXCEPT !.timed = T] /\ T \in SUBSET Txs
  BY <1>2 DEF RecordTimed, IsRecord
<1>4. IsStore(u) /\ SameHistory(u, st) /\ u.pend = st.pend /\ u.timed = T
  BY <1>1, <1>3, TimedFacts
<1> QED
  BY <1>4 DEF Grown, SameHistory

\* All that is recorded before the transaction itself.
Before(tx) == IF tx.body = 0 THEN disk ELSE RecordTimed(RecordBody(disk, tx), tx)

LEMMA GrownBefore ==
    ASSUME BooksInv, NEW tx, Planned(tx), NEW known \in Nat
    PROVE  /\ Grown(disk, tx, known) /\ Grown(Before(tx), tx, known)
           /\ DOMAIN disk.pend \subseteq DOMAIN Before(tx).pend
           /\ tx.body # 0 => tx.body \in DOMAIN Before(tx).pend /\ Grown(RecordBody(disk, tx), tx, known)
<1>1. Grown(disk, tx, known)
  BY DEF BooksInv, WsTypeOK, Grown, SameHistory
<1>2. CASE tx.body = 0
  BY <1>1, <1>2 DEF Before
<1>3. CASE tx.body # 0
  <2> DEFINE w == RecordBody(disk, tx)
  <2>1. Grown(w, tx, known) /\ DOMAIN w.pend = DOMAIN disk.pend \cup {tx.body}
    BY <1>1, <1>3, GrownBody
  <2>2. Before(tx) = RecordTimed(w, tx)
    BY <1>3 DEF Before
  <2>3. tx \in Txs
    BY DEF Planned
  <2> HIDE DEF w
  <2>4. Grown(Before(tx), tx, known) /\ DOMAIN Before(tx).pend = DOMAIN w.pend
    BY <1>3, <2>1, <2>2, <2>3, GrownTimed
  <2> QED
    BY <1>1, <2>1, <2>4 DEF w
<1> QED
  BY <1>2, <1>3

LEMMA SendGrows ==
    ASSUME BooksInv, NEW tx, Planned(tx), NEW known \in Nat, NEW u, u = RecordSend(disk, tx, known)
    PROVE  Grown(u, tx, known) /\ tx.id \in DOMAIN u.pend /\ (tx.body # 0 => tx.body \in DOMAIN u.pend)
<1>1. u = RecordTx(Before(tx), tx, known)
  BY DEF RecordSend, Before
<1>2. Grown(u, tx, known) /\ DOMAIN u.pend = DOMAIN Before(tx).pend \cup {tx.id}
  BY <1>1, GrownBefore, GrownTx
<1> QED
  BY <1>2, GrownBefore

LEMMA CutGrows ==
    ASSUME BooksInv, NEW tx, Planned(tx), NEW known \in Nat, NEW u \in RecordCut(disk, tx, known)
    PROVE  Grown(u, tx, known)
<1>1. \/ u = disk \/ u = Before(tx) \/ u = [Before(tx) EXCEPT !.sent = @ \cup {tx.id}]
      \/ tx.body # 0 /\ u = [disk EXCEPT !.sent = @ \cup {tx.body}]
      \/ tx.body # 0 /\ u = RecordBody(disk, tx)
  BY DEF RecordCut, Before
<1>2. tx.id \in Nat /\ tx.body \in Nat
  BY DEF Planned, Txs
<1>3. Grown(disk, tx, known) /\ Grown(Before(tx), tx, known) /\ (tx.body # 0 => Grown(RecordBody(disk, tx), tx, known))
  BY GrownBefore
<1>4. CASE u = [Before(tx) EXCEPT !.sent = @ \cup {tx.id}]
  BY <1>2, <1>3, <1>4, GrownNamed
<1>5. CASE u = [disk EXCEPT !.sent = @ \cup {tx.body}]
  BY <1>2, <1>3, <1>5, GrownNamed
<1> QED
  BY <1>1, <1>3, <1>4, <1>5
LEMMA GrownKeeps ==
    ASSUME BooksInv, NEW tx, Planned(tx), NEW known \in Nat, NEW u, Grown(u, tx, known), disk' = u,
           UNCHANGED <<chain, unheld, limits>>, pool' = pool \cup {tx}, nextId' = nextId + Ids(tx),
           WindowOK(window'), window'.dialog = <<>>, window'.cancel = <<>>, RequestsFollow,
           kept' = kept \/ (/\ kept' = kept \cup KeptOf(tx, known)
                            /\ tx.id \in DOMAIN u.pend /\ (tx.body # 0 => tx.body \in DOMAIN u.pend))
    PROVE  BooksInv'
<1>1. nextId \in Nat \ {0} /\ tx \in Txs /\ tx.id = nextId /\ tx.body \in {0, nextId + 1} /\ tx.body \in Nat /\ tx.unlock \in Nat
      /\ tx.coins \in Coins /\ tx.sealed \in Coins
  BY DEF BooksInv, WsTypeOK, Planned, Txs
<1>2. nextId' \in Nat \ {0} /\ nextId < nextId' /\ tx.id < nextId' /\ tx.body < nextId'
  BY <1>1 DEF Ids
<1>3. ASSUME NEW k \in kept' PROVE
          k \in kept \/ (kept' # kept /\ k = [id |-> tx.id, coins |-> tx.coins, dated |-> known])
                     \/ (kept' # kept /\ tx.body # 0 /\ k = [id |-> tx.body, coins |-> tx.sealed, dated |-> tx.unlock])
  BY <1>3 DEF KeptOf
<1>4. WsTypeOK'
  <2>1. IsStore(disk')
    BY DEF Grown
  <2>2. \A r \in refreshes' : IsRequest(r)
    BY DEF RequestsFollow
  <2>3. pool' \subseteq Txs /\ IsFiniteSet(pool')
    BY <1>1, FS_AddElement DEF BooksInv, WsTypeOK
  <2>4. kept' \subseteq [id : Nat, coins : Coins, dated : Nat]
    BY <1>1, <1>3 DEF BooksInv, WsTypeOK
  <2>5. chain' \in [tip : Nat \ {0}, fin : Seq(Finals)] /\ limits' \in WalletLimits
    BY DEF BooksInv, WsTypeOK
  <2> QED
    BY <1>2, <2>1, <2>2, <2>3, <2>4, <2>5 DEF WsTypeOK
<1>5. DialogInv'
  <2>1. \A x : window'.dialog # <<x>>
    OBVIOUS
  <2> QED
    BY <2>1 DEF DialogInv
<1>6. \A i \in DOMAIN disk.pend : i \in Nat /\ i < nextId /\ i < nextId'
  <2>1. \A i \in DOMAIN disk.pend : i \in Nat /\ i < nextId
    BY DEF BooksInv, HoldsInv, WsTypeOK, IsStore
  <2> QED
    BY <1>1, <1>2, <2>1
<1>7. \A i \in DOMAIN u.pend :
          \/ i \in DOMAIN disk.pend /\ u.pend[i] = disk.pend[i]
          \/ i = tx.id /\ u.pend[i].coins = tx.coins
          \/ i = tx.body /\ u.pend[i].coins = tx.sealed
  BY DEF Grown
<1>8. \A i \in DOMAIN disk.pend : disk.pend[i].coins \cap tx.coins = {} /\ disk.pend[i].coins \cap tx.sealed = {}
  BY DEF Planned
<1>9. tx.coins \cap tx.sealed = {}
  BY DEF Planned
<1>10. \A i, j \in DOMAIN u.pend : i # j => Apart(u.pend, i, j)'
  <2> SUFFICES ASSUME NEW i \in DOMAIN u.pend, NEW j \in DOMAIN u.pend, i # j
               PROVE  u.pend[i].coins \cap u.pend[j].coins = {} \/ {i, j} \cap unheld # {}
    BY DEF Apart
  <2>1. CASE i \in DOMAIN disk.pend /\ u.pend[i] = disk.pend[i] /\ j \in DOMAIN disk.pend /\ u.pend[j] = disk.pend[j]
    BY <2>1 DEF BooksInv, HoldsInv, Apart
  <2> QED
    BY <1>7, <1>8, <1>9, <2>1
<1>11. \A i \in DOMAIN u.pend : i < nextId'
  BY <1>2, <1>6, <1>7
<1>12. \A i \in unheld : i \in Nat /\ i < nextId /\ i < nextId'
  <2>1. \A i \in unheld : i \in Nat /\ i < nextId
    BY DEF BooksInv, HoldsInv
  <2> QED
    BY <1>1, <1>2, <2>1
<1>13. ASSUME NEW x \in u.timed
       PROVE  /\ x.body # 0 /\ x.body < nextId' /\ x.body \notin unheld
              /\ x.body \in DOMAIN u.pend => u.pend[x.body].coins = x.sealed
  <2>1. CASE x \in disk.timed
    <3>1. x.body # 0 /\ x.body < nextId /\ x.body \notin unheld /\ x.body \in Nat
          /\ (x.body \in DOMAIN disk.pend => disk.pend[x.body].coins = x.sealed)
      BY <2>1 DEF BooksInv, HoldsInv, WsTypeOK, IsStore, Txs
    <3>2. x.body < nextId' /\ x.body # tx.id /\ x.body # tx.body
      BY <1>1, <1>2, <3>1
    <3> QED
      BY <1>7, <3>1, <3>2
  <2>2. CASE x = tx /\ tx.body # 0
    <3>1. tx.body \notin unheld /\ tx.body \notin DOMAIN disk.pend
      BY <1>1, <1>6, <1>12, <2>2
    <3>2. tx.body # tx.id
      BY <1>1
    <3> QED
      BY <1>2, <1>7, <2>2, <3>1, <3>2
  <2> QED
    BY <2>1, <2>2 DEF Grown
<1>14. HoldsInv'
  BY <1>10, <1>11, <1>12, <1>13 DEF HoldsInv
<1>15. KeptInv'
  <2> SUFFICES ASSUME NEW k \in kept'
               PROVE  k.id < nextId' /\ (k.id \notin FinalIds /\ chain.tip < k.dated + MinTipDelta =>
                         k.id \in DOMAIN u.pend /\ u.pend[k.id] = [coins |-> k.coins, created |-> k.dated])
    BY ZenonT(20) DEF KeptInv, FinalIds
  <2>1. CASE k \in kept
    <3>1. k.id < nextId /\ k.id \in Nat
      BY <2>1 DEF BooksInv, KeptInv, WsTypeOK
    <3>2. k.id \notin FinalIds /\ chain.tip < k.dated + MinTipDelta =>
              k.id \in DOMAIN disk.pend /\ disk.pend[k.id] = [coins |-> k.coins, created |-> k.dated]
      BY <2>1 DEF BooksInv, KeptInv
    <3>3. k.id < nextId'
      BY <1>1, <1>2, <3>1
    <3> QED
      BY <3>2, <3>3 DEF Grown
  <2>2. CASE kept' # kept /\ k = [id |-> tx.id, coins |-> tx.coins, dated |-> known]
    <3>1. tx.id \in DOMAIN u.pend /\ tx.id \notin DOMAIN disk.pend /\ tx.id # tx.body
      BY <1>1, <1>6, <2>2
    <3>2. u.pend[tx.id] = [coins |-> tx.coins, created |-> known]
      BY <3>1 DEF Grown
    <3> QED
      BY <1>2, <2>2, <3>1, <3>2
  <2>3. CASE kept' # kept /\ tx.body # 0 /\ k = [id |-> tx.body, coins |-> tx.sealed, dated |-> tx.unlock]
    <3>1. tx.body \in DOMAIN u.pend /\ tx.body \notin DOMAIN disk.pend /\ tx.id # tx.body
      BY <1>1, <1>6, <2>3
    <3>2. u.pend[tx.body] = [coins |-> tx.sealed, created |-> tx.unlock]
      BY <3>1 DEF Grown
    <3> QED
      BY <1>2, <2>3, <3>1, <3>2
  <2> QED
    BY <1>3, <2>1, <2>2, <2>3
<1>16. RequestsInv'
  <2>1. finalized_history(disk') = finalized_history(disk) /\ FinalIds' = FinalIds
    BY DEF Grown, SameHistory, finalized_history, FinalIds
  <2> QED
    BY <2>1 DEF BooksInv, RequestsInv, RequestsFollow, finalized_history
<1> QED
  BY <1>4, <1>5, <1>14, <1>15, <1>16 DEF BooksInv

LEMMA SubmittedBooks ==
    ASSUME BooksInv, NEW tx, Planned(tx), NEW known \in Nat, Submitted(tx, known), window.cancel = <<>>, UNCHANGED limits
    PROVE  BooksInv'
<1> DEFINE u == RecordSend(disk, tx, known)
<1>1. Grown(u, tx, known) /\ tx.id \in DOMAIN u.pend /\ (tx.body # 0 => tx.body \in DOMAIN u.pend)
  BY SendGrows
<1>2. /\ disk' = u /\ UNCHANGED <<chain, unheld, limits>> /\ pool' = pool \cup {tx} /\ nextId' = nextId + Ids(tx)
      /\ kept' = kept \cup KeptOf(tx, known)
      /\ window' = [window EXCEPT !.tip = known, !.dialog = <<>>]
      /\ refreshes' = refresh_chain_state(mark_refresh_state_changed(refreshes), disk', known)
  BY DEF Submitted
<1> HIDE DEF u
<1>3. WindowOK(window') /\ window'.dialog = <<>> /\ window'.cancel = <<>>
  BY <1>2, WindowParts DEF WindowOK
<1>4. RequestsFollow
  BY <1>2, MarkedRequestFollows DEF BooksInv
<1> QED
  BY <1>1, <1>2, <1>3, <1>4, GrownKeeps

LEMMA ConfirmBooks ==
    ASSUME BooksInv, ConfirmSend, UNCHANGED limits
    PROVE  BooksInv'
<1>1. PICK tx \in Txs : window.dialog = <<tx>>
  BY WindowParts DEF ConfirmSend
<1>2. Planned(tx) /\ window.cancel = <<>>
  BY <1>1, WindowParts DEF BooksInv, DialogInv
<1>3. window.dialog[1] = tx
  BY <1>1
<1>4. window.tip \in Nat
  BY WindowParts
<1>5. CASE /\ \E taken \in UnansweredBroadcast(tx) :
                /\ pool' = pool \cup taken
                /\ nextId' = IF taken = {} THEN nextId ELSE nextId + Ids(tx)
           /\ window' = [window EXCEPT !.dialog = <<>>]
           /\ UNCHANGED <<chain, disk, refreshes, kept, unheld, tornRebuild, kills>>
  <2>1. WindowOK(window') /\ window'.dialog = <<>> /\ window'.cancel = <<>>
    BY <1>2, <1>5, WindowParts DEF WindowOK
  <2>2. RequestsFollow
    BY <1>5, SameRequests DEF BooksInv
  <2>3. CASE pool' = pool /\ nextId' = nextId
    <3>1. DialogInv'
      BY <2>1, <2>3, <1>5, SameShrunk, DialogStays
    <3> QED
      BY <3>1, <2>1, <2>2, <2>3, <1>5, SameShrunk, ShrunkKeeps
  <2>4. CASE pool' = pool \cup {tx} /\ nextId' = nextId + Ids(tx)
    <3>1. Grown(disk, tx, window.tip)
      BY <1>2, <1>4, GrownBefore
    <3> QED
      BY <1>2, <1>4, <1>5, <2>1, <2>2, <2>4, <3>1, GrownKeeps
  <2>5. PICK taken \in UnansweredBroadcast(tx) :
                /\ pool' = pool \cup taken
                /\ nextId' = IF taken = {} THEN nextId ELSE nextId + Ids(tx)
    BY <1>5
  <2>6. taken = {} \/ taken = {tx}
    BY DEF UnansweredBroadcast
  <2>7. (pool' = pool /\ nextId' = nextId) \/ (pool' = pool \cup {tx} /\ nextId' = nextId + Ids(tx))
    <3>1. CASE taken = {}
      BY <2>5, <3>1
    <3>2. CASE taken = {tx}
      <4>1. taken # {}
        BY <3>2
      <4> QED
        BY <2>5, <3>2, <4>1
    <3> QED
      BY <2>6, <3>1, <3>2
  <2> QED
    BY <2>3, <2>4, <2>7
<1>6. CASE Submitted(tx, window.tip)
  BY <1>2, <1>4, <1>6, SubmittedBooks
<1>7. CASE \E v \in Heights : \E again \in PlainPlans(v) : Submitted(again, v)
  <2>1. PICK v \in Heights : \E again \in PlainPlans(v) : Submitted(again, v)
    BY <1>7
  <2>2. PICK again \in PlainPlans(v) : Submitted(again, v)
    BY <2>1
  <2>3. nextId <= limits.ids
    BY <1>2 DEF Planned
  <2>4. Planned(again)
    BY <2>3, PlanFacts
  <2>5. v \in Nat
    BY WindowParts DEF Heights
  <2> QED
    BY <1>2, <2>2, <2>4, <2>5, SubmittedBooks
<1>8. CASE /\ pool' = pool \cup {tx} /\ nextId' = nextId + Ids(tx)
           /\ disk' \in RecordCut(disk, tx, window.tip)
           /\ window' = Closed /\ refreshes' = {}
           /\ UNCHANGED <<chain, kept, unheld, tornRebuild>>
  <2>1. Grown(disk', tx, window.tip)
    BY <1>2, <1>4, <1>8, CutGrows
  <2>2. WindowOK(window') /\ window'.dialog = <<>> /\ window'.cancel = <<>>
    BY <1>8 DEF WindowOK, Closed, Opened
  <2>3. RequestsFollow
    BY <1>8 DEF RequestsFollow
  <2> QED
    BY <1>2, <1>4, <1>8, <2>1, <2>2, <2>3, GrownKeeps
<1> QED
  BY <1>3, <1>5, <1>6, <1>7, <1>8 DEF ConfirmSend
-----------------------------------------------------------------------------
(* Cancellations.                                                             *)

\* The store with some or all of the records of a cancelling spend.
Cancelled(st, tx, id, known) ==
    /\ IsStore(st) /\ SameHistory(st, disk) /\ st.timed \subseteq disk.timed
    /\ \A i \in DOMAIN disk.pend : i = tx.body \/ (i \in DOMAIN st.pend /\ st.pend[i] = disk.pend[i])
    /\ \A i \in DOMAIN st.pend :
          \/ i \in DOMAIN disk.pend /\ st.pend[i] = disk.pend[i]
          \/ i = id /\ st.pend[i] = [coins |-> tx.sealed, created |-> known] /\ tx.body \notin DOMAIN st.pend

LEMMA CancelFacts ==
    ASSUME BooksInv, NEW tx \in disk.timed, NEW known \in Nat,
           NEW u \in CancelCut(disk, tx, nextId, known) \cup {RecordCancel(disk, tx, nextId, known)}
    PROVE  /\ Cancelled(u, tx, nextId, known)
           /\ u = RecordCancel(disk, tx, nextId, known) => nextId \in DOMAIN u.pend
<1>1. IsStore(disk) /\ nextId \in Nat /\ tx \in Txs /\ tx.sealed \in Coins /\ tx.body < nextId /\ tx.body \in Nat
  BY DEF BooksInv, WsTypeOK, IsStore, HoldsInv, Txs
<1>2. \A i \in DOMAIN disk.pend : i # nextId
  <2>1. \A i \in DOMAIN disk.pend : i \in Nat /\ i < nextId
    BY DEF BooksInv, HoldsInv, WsTypeOK, IsStore
  <2> QED
    BY <1>1, <2>1
<1> DEFINE s1 == [disk EXCEPT !.pend = Without(@, {tx.body})]
           s2 == [s1 EXCEPT !.sent = @ \cup {nextId}]
           s3 == upsert_pending_spend(s2, nextId, tx.sealed, known)
           s4 == [s3 EXCEPT !.timed = disk.timed \ {tx}]
<1>3. IsRecord(disk)
  BY <1>1, BookParts
<1>4. s2 = [disk EXCEPT !.pend = Without(@, {tx.body}), !.sent = @ \cup {nextId}]
  BY <1>3 DEF IsRecord
<1>5. /\ IsStore(s1) /\ SameHistory(s1, disk) /\ s1.timed = disk.timed
      /\ DOMAIN s1.pend = DOMAIN disk.pend \ {tx.body} /\ \A i \in DOMAIN s1.pend : s1.pend[i] = disk.pend[i]
  <2> DEFINE w == s1
             g == Without(disk.pend, {tx.body})
  <2>1. w = [disk EXCEPT !.pend = g]
    BY <1>3 DEF IsRecord
  <2>3. g = Without(disk.pend, {tx.body})
    OBVIOUS
  <2> HIDE DEF w, g
  <2>2. RowGone(w, disk, tx.body)
    BY <1>1, <2>1, <2>3, RowErased
  <2> QED
    BY <2>2, Zenon DEF w, RowGone
<1>a. \/ u = disk \/ u = s1 \/ u = s2 \/ u = [RecordCancel(disk, tx, nextId, known) EXCEPT !.timed = disk.timed]
      \/ u = RecordCancel(disk, tx, nextId, known)
  BY <1>4 DEF CancelCut
<1>b. RecordCancel(disk, tx, nextId, known) = [s3 EXCEPT !.timed = @ \ {tx}]
  BY <1>4 DEF RecordCancel
<1> HIDE DEF s1
<1>6. IsStore(s2) /\ SameHistory(s2, s1) /\ s2.pend = s1.pend /\ s2.timed = s1.timed
  BY <1>1, <1>5, NamedFacts
<1> HIDE DEF s2
<1>7. IsStore(s3) /\ SameHistory(s3, s2) /\ s3.timed = s2.timed /\ WithRow(s3.pend, s2.pend, nextId, tx.sealed, known)
  BY <1>1, <1>6, UpsertFacts
<1> HIDE DEF s3
<1>8. IsStore(s4) /\ SameHistory(s4, s3) /\ s4.pend = s3.pend /\ s4.timed = disk.timed \ {tx}
  <2>1. disk.timed \ {tx} \in SUBSET Txs
    BY <1>1, BookParts
  <2> QED
    BY <1>7, <2>1, TimedFacts
<1>9. RecordCancel(disk, tx, nextId, known) = s4 /\ [RecordCancel(disk, tx, nextId, known) EXCEPT !.timed = disk.timed] = s3
  <2>1. IsRecord(s3) /\ s3.timed = disk.timed
    BY <1>5, <1>6, <1>7, BookParts
  <2>2. RecordCancel(disk, tx, nextId, known) = s4
    BY <1>b, <2>1 DEF IsRecord
  <2> QED
    BY <1>b, <2>1, <2>2 DEF IsRecord
<1> HIDE DEF s4
<1>10. Cancelled(disk, tx, nextId, known)
  BY <1>1 DEF Cancelled, SameHistory
<1>11. Cancelled(s1, tx, nextId, known)
  BY <1>5 DEF Cancelled, SameHistory
<1>12. Cancelled(s2, tx, nextId, known)
  BY <1>5, <1>6 DEF Cancelled, SameHistory
<1>13. nextId # tx.body
  BY <1>1
<1>14. Cancelled(s3, tx, nextId, known) /\ nextId \in DOMAIN s3.pend
  BY <1>2, <1>5, <1>6, <1>7, <1>13 DEF Cancelled, SameHistory, WithRow
<1>15. Cancelled(s4, tx, nextId, known) /\ nextId \in DOMAIN s4.pend
  BY <1>8, <1>14 DEF Cancelled, SameHistory
<1> QED
  BY <1>a, <1>9, <1>10, <1>11, <1>12, <1>14, <1>15

LEMMA CancelledKeeps ==
    ASSUME BooksInv, NEW tx \in disk.timed, NEW known \in Nat, NEW u, Cancelled(u, tx, nextId, known), disk' = u,
           UNCHANGED <<chain, limits>>, pool' \subseteq Txs, IsFiniteSet(pool'), nextId' = nextId + 2,
           unheld' = (IF tx.body \in DOMAIN disk.pend THEN unheld ELSE unheld \cup {nextId}),
           WindowOK(window'), window'.dialog = <<>>, window'.cancel = <<>>, RequestsFollow,
           \/ kept' = {k \in kept : k.id # tx.body}
           \/ /\ kept' = {k \in kept : k.id # tx.body} \cup {[id |-> nextId, coins |-> tx.sealed, dated |-> known]}
              /\ nextId \in DOMAIN u.pend
    PROVE  BooksInv'
<1>1. nextId \in Nat \ {0} /\ tx \in Txs /\ tx.sealed \in Coins /\ tx.body < nextId /\ tx.body \in Nat /\ tx.body \notin unheld
      /\ (tx.body \in DOMAIN disk.pend => disk.pend[tx.body].coins = tx.sealed)
  BY DEF BooksInv, WsTypeOK, IsStore, HoldsInv, Txs
<1>2. nextId' \in Nat \ {0} /\ nextId < nextId'
  BY <1>1
<1>3. WsTypeOK'
  <2>1. IsStore(disk')
    BY DEF Cancelled
  <2>2. \A r \in refreshes' : IsRequest(r)
    BY DEF RequestsFollow
  <2>4. kept' \subseteq [id : Nat, coins : Coins, dated : Nat]
    <3>1. [id |-> nextId, coins |-> tx.sealed, dated |-> known] \in [id : Nat, coins : Coins, dated : Nat]
      BY <1>1
    <3> QED
      BY <3>1 DEF BooksInv, WsTypeOK
  <2>5. chain' \in [tip : Nat \ {0}, fin : Seq(Finals)] /\ limits' \in WalletLimits
    BY DEF BooksInv, WsTypeOK
  <2> QED
    BY <1>2, <2>1, <2>2, <2>4, <2>5 DEF WsTypeOK
<1>5. DialogInv'
  <2>1. \A x : window'.dialog # <<x>>
    OBVIOUS
  <2> QED
    BY <2>1 DEF DialogInv
<1>6. \A i \in DOMAIN disk.pend : i \in Nat /\ i < nextId /\ i < nextId'
  <2>1. \A i \in DOMAIN disk.pend : i \in Nat /\ i < nextId
    BY DEF BooksInv, HoldsInv, WsTypeOK, IsStore
  <2> QED
    BY <1>1, <1>2, <2>1
<1>7. \A i \in DOMAIN u.pend :
          \/ i \in DOMAIN disk.pend /\ u.pend[i] = disk.pend[i]
          \/ i = nextId /\ u.pend[i].coins = tx.sealed /\ tx.body \notin DOMAIN u.pend
  BY DEF Cancelled
<1>8. unheld \subseteq unheld' /\ (tx.body \notin DOMAIN disk.pend => nextId \in unheld') /\ unheld' \subseteq unheld \cup {nextId}
  OBVIOUS
<1>9. ASSUME NEW i \in DOMAIN u.pend, i \in DOMAIN disk.pend, u.pend[i] = disk.pend[i],
             NEW j, u.pend[j].coins = tx.sealed, j = nextId, tx.body \notin DOMAIN u.pend
      PROVE  u.pend[i].coins \cap u.pend[j].coins = {} \/ {i, j} \cap unheld' # {}
  <2>1. CASE tx.body \notin DOMAIN disk.pend
    BY <1>8, <1>9, <2>1
  <2>2. CASE tx.body \in DOMAIN disk.pend
    <3>1. i # tx.body
      BY <1>9
    <3>2. Apart(disk.pend, i, tx.body)
      BY <1>9, <2>2, <3>1 DEF BooksInv, HoldsInv
    <3>3. disk.pend[i].coins \cap tx.sealed = {} \/ i \in unheld
      BY <1>1, <2>2, <3>2 DEF Apart
    <3> QED
      BY <1>8, <1>9, <3>3
  <2> QED
    BY <2>1, <2>2
<1>10. \A i, j \in DOMAIN u.pend : i # j => Apart(u.pend, i, j)'
  <2> SUFFICES ASSUME NEW i \in DOMAIN u.pend, NEW j \in DOMAIN u.pend, i # j
               PROVE  u.pend[i].coins \cap u.pend[j].coins = {} \/ {i, j} \cap unheld' # {}
    BY DEF Apart
  <2>1. CASE i \in DOMAIN disk.pend /\ u.pend[i] = disk.pend[i] /\ j \in DOMAIN disk.pend /\ u.pend[j] = disk.pend[j]
    <3>1. disk.pend[i].coins \cap disk.pend[j].coins = {} \/ {i, j} \cap unheld # {}
      BY <2>1 DEF BooksInv, HoldsInv, Apart
    <3> QED
      BY <1>8, <2>1, <3>1
  <2>2. CASE i \in DOMAIN disk.pend /\ u.pend[i] = disk.pend[i] /\ j = nextId /\ u.pend[j].coins = tx.sealed /\ tx.body \notin DOMAIN u.pend
    BY <1>9, <2>2
  <2>3. CASE j \in DOMAIN disk.pend /\ u.pend[j] = disk.pend[j] /\ i = nextId /\ u.pend[i].coins = tx.sealed /\ tx.body \notin DOMAIN u.pend
    <3>1. u.pend[j].coins \cap u.pend[i].coins = {} \/ {j, i} \cap unheld' # {}
      BY <1>9, <2>3
    <3> QED
      BY <3>1
  <2> QED
    BY <1>7, <2>1, <2>2, <2>3
<1>11. \A i \in DOMAIN u.pend : i < nextId'
  BY <1>2, <1>6, <1>7
<1>12. \A i \in unheld' : i \in Nat /\ i < nextId'
  <2>1. \A i \in unheld : i \in Nat /\ i < nextId
    BY DEF BooksInv, HoldsInv
  <2> QED
    BY <1>1, <1>2, <1>8, <2>1
<1>13. ASSUME NEW x \in u.timed
       PROVE  /\ x.body # 0 /\ x.body < nextId' /\ x.body \notin unheld'
              /\ x.body \in DOMAIN u.pend => u.pend[x.body].coins = x.sealed
  <2>1. x \in disk.timed
    BY DEF Cancelled
  <2>2. x.body # 0 /\ x.body < nextId /\ x.body \notin unheld /\ x.body \in Nat
          /\ (x.body \in DOMAIN disk.pend => disk.pend[x.body].coins = x.sealed)
    BY <2>1 DEF BooksInv, HoldsInv, WsTypeOK, IsStore, Txs
  <2>3. x.body < nextId' /\ x.body # nextId
    BY <1>1, <1>2, <2>2
  <2> QED
    BY <1>7, <1>8, <2>2, <2>3
<1>14. HoldsInv'
  BY <1>10, <1>11, <1>12, <1>13 DEF HoldsInv
<1>15. KeptInv'
  <2> SUFFICES ASSUME NEW k \in kept'
               PROVE  k.id < nextId' /\ (k.id \notin FinalIds /\ chain.tip < k.dated + MinTipDelta =>
                         k.id \in DOMAIN u.pend /\ u.pend[k.id] = [coins |-> k.coins, created |-> k.dated])
    <3>1. FinalIds' = FinalIds /\ chain' = chain /\ disk' = u
      BY DEF FinalIds
    <3> QED
      BY <3>1, Zenon DEF KeptInv
  <2>1. CASE k \in kept /\ k.id # tx.body
    <3>1. k.id < nextId /\ k.id \in Nat
      BY <2>1 DEF BooksInv, KeptInv, WsTypeOK
    <3>2. k.id \notin FinalIds /\ chain.tip < k.dated + MinTipDelta =>
              k.id \in DOMAIN disk.pend /\ disk.pend[k.id] = [coins |-> k.coins, created |-> k.dated]
      BY <2>1 DEF BooksInv, KeptInv
    <3>3. k.id < nextId'
      BY <1>1, <1>2, <3>1
    <3> QED
      BY <2>1, <3>2, <3>3 DEF Cancelled
  <2>2. CASE k = [id |-> nextId, coins |-> tx.sealed, dated |-> known] /\ nextId \in DOMAIN u.pend
    <3>1. nextId \notin DOMAIN disk.pend
      BY <1>1, <1>6
    <3>2. u.pend[nextId] = [coins |-> tx.sealed, created |-> known]
      BY <2>2, <3>1 DEF Cancelled
    <3> QED
      BY <1>2, <2>2, <3>2
  <2> QED
    BY <2>1, <2>2
<1>16. RequestsInv'
  <2>1. finalized_history(disk') = finalized_history(disk) /\ FinalIds' = FinalIds
    BY DEF Cancelled, SameHistory, finalized_history, FinalIds
  <2> QED
    BY <2>1 DEF BooksInv, RequestsInv, RequestsFollow, finalized_history
<1> QED
  BY <1>3, <1>5, <1>14, <1>15, <1>16 DEF BooksInv

\* No server answers for the cancelling spend, or it is taken, alone or with that of the fee coin.
CancelUnanswered(tx) ==
    /\ \/ pool' = pool /\ nextId' = nextId
       \/ pool' = pool \cup {Plain(nextId, tx.sealed)} /\ nextId' = nextId + 2
    /\ window' = [window EXCEPT !.cancel = <<>>]
    /\ UNCHANGED <<disk, refreshes, kept, unheld>>

CancelPool(tx) ==
    /\ nextId' = nextId + 2
    /\ \/ pool' = pool \cup {Plain(nextId, tx.sealed)}
       \/ nextId < limits.ids /\ pool' = pool \cup {Plain(nextId, tx.sealed), Plain(nextId + 1, tx.coins)}

CancelTaken(tx) ==
    /\ CancelPool(tx)
    /\ unheld' = (IF tx.body \in DOMAIN disk.pend THEN unheld ELSE unheld \cup {nextId})
    /\ \/ /\ disk' = RecordCancel(disk, tx, nextId, window.tip)
          /\ kept' = {k \in kept : k.id # tx.body} \cup {[id |-> nextId, coins |-> tx.sealed, dated |-> window.tip]}
          /\ refreshes' = refresh_chain_state(mark_refresh_state_changed(refreshes), disk', window.tip)
          /\ window' = [window EXCEPT !.cancel = <<>>]
       \/ /\ disk' \in CancelCut(disk, tx, nextId, window.tip)
          /\ kept' = {k \in kept : k.id # tx.body}
          /\ window' = Closed /\ refreshes' = {}

LEMMA CancelStep ==
    ASSUME BooksInv, cancel_timed_send
    PROVE  /\ window.dialog = <<>> /\ nextId <= limits.ids /\ UNCHANGED <<chain, tornRebuild>>
           /\ \E tx \in disk.timed : CancelUnanswered(tx) \/ CancelTaken(tx)
<1>2. ASSUME NEW id, NEW coins, NEW known PROVE KeptOf(Plain(id, coins), known) = {[id |-> id, coins |-> coins, dated |-> known]}
  BY DEF KeptOf, Plain
<1> DEFINE spend(tx) == Plain(nextId, tx.sealed)
           fee(tx) == Plain(nextId + 1, tx.coins)
           with == window.stage = "both" /\ nextId < limits.ids
<1>3. PICK tx \in Txs : window.cancel = <<tx>>
  BY WindowParts DEF cancel_timed_send
<1>4. window.cancel[1] = tx /\ tx \in disk.timed /\ window.dialog = <<>>
  BY <1>3 DEF BooksInv, DialogInv
<1>5. nextId <= limits.ids /\ UNCHANGED <<chain, tornRebuild>>
  BY DEF cancel_timed_send
<1>6. \/ /\ \E taken \in UnansweredBroadcast(spend(tx)) :
                /\ pool' = pool \cup taken
                /\ nextId' = IF taken = {} THEN nextId ELSE nextId + 2
         /\ window' = [window EXCEPT !.cancel = <<>>]
         /\ UNCHANGED <<disk, refreshes, kept, unheld>>
      \/ /\ \E also \in SUBSET {f \in {fee(tx)} : with} : pool' = pool \cup {spend(tx)} \cup also
         /\ nextId' = nextId + 2
         /\ unheld' = (IF tx.body \in DOMAIN disk.pend THEN unheld ELSE unheld \cup {nextId})
         /\ \/ /\ disk' = RecordCancel(disk, tx, nextId, window.tip)
               /\ kept' = {k \in kept : k.id # tx.body} \cup KeptOf(spend(tx), window.tip)
               /\ window' = [window EXCEPT !.cancel = <<>>]
               /\ refreshes' = refresh_chain_state(mark_refresh_state_changed(refreshes), disk', window.tip)
            \/ /\ disk' \in CancelCut(disk, tx, nextId, window.tip)
               /\ kept' = {k \in kept : k.id # tx.body}
               /\ window' = Closed /\ refreshes' = {}
  BY <1>4, Zenon DEF cancel_timed_send
<1>7. spend(tx) = Plain(nextId, tx.sealed) /\ fee(tx) = Plain(nextId + 1, tx.coins)
  OBVIOUS
<1> HIDE DEF spend, fee, with
<1>8. CASE /\ \E taken \in UnansweredBroadcast(spend(tx)) :
                /\ pool' = pool \cup taken
                /\ nextId' = IF taken = {} THEN nextId ELSE nextId + 2
           /\ window' = [window EXCEPT !.cancel = <<>>]
           /\ UNCHANGED <<disk, refreshes, kept, unheld>>
  <2>1. PICK taken \in UnansweredBroadcast(spend(tx)) :
                /\ pool' = pool \cup taken
                /\ nextId' = IF taken = {} THEN nextId ELSE nextId + 2
    BY <1>8
  <2>2. ASSUME taken = {} PROVE pool' = pool /\ nextId' = nextId
    BY <2>1, <2>2
  <2>3. ASSUME taken = {spend(tx)} PROVE pool' = pool \cup {Plain(nextId, tx.sealed)} /\ nextId' = nextId + 2
    <3>1. taken # {}
      BY <2>3
    <3> QED
      BY <1>7, <2>1, <2>3, <3>1
  <2>4. taken = {} \/ taken = {spend(tx)}
    BY DEF UnansweredBroadcast
  <2>5. CancelUnanswered(tx)
    BY <1>8, <2>2, <2>3, <2>4, Zenon DEF CancelUnanswered
  <2> QED
    BY <1>4, <1>5, <2>5
<1>9. ASSUME \E also \in SUBSET {f \in {fee(tx)} : with} : pool' = pool \cup {spend(tx)} \cup also, nextId' = nextId + 2
      PROVE  CancelPool(tx)
  <2>1. PICK also \in SUBSET {f \in {fee(tx)} : with} : pool' = pool \cup {spend(tx)} \cup also
    BY <1>9
  <2>2. CASE also = {}
    BY <1>7, <1>9, <2>1, <2>2 DEF CancelPool
  <2>3. CASE also # {}
    <3>1. nextId < limits.ids /\ also = {fee(tx)}
      BY <2>3 DEF with
    <3> QED
      BY <1>7, <1>9, <2>1, <3>1 DEF CancelPool
  <2> QED
    BY <2>2, <2>3
<1>10. KeptOf(spend(tx), window.tip) = {[id |-> nextId, coins |-> tx.sealed, dated |-> window.tip]}
  BY <1>2, <1>7
<1>12. CASE /\ \E also \in SUBSET {f \in {fee(tx)} : with} : pool' = pool \cup {spend(tx)} \cup also
            /\ nextId' = nextId + 2
            /\ unheld' = (IF tx.body \in DOMAIN disk.pend THEN unheld ELSE unheld \cup {nextId})
            /\ \/ /\ disk' = RecordCancel(disk, tx, nextId, window.tip)
                  /\ kept' = {k \in kept : k.id # tx.body} \cup KeptOf(spend(tx), window.tip)
                  /\ window' = [window EXCEPT !.cancel = <<>>]
                  /\ refreshes' = refresh_chain_state(mark_refresh_state_changed(refreshes), disk', window.tip)
               \/ /\ disk' \in CancelCut(disk, tx, nextId, window.tip)
                  /\ kept' = {k \in kept : k.id # tx.body}
                  /\ window' = Closed /\ refreshes' = {}
  <2>1. CancelPool(tx)
    BY <1>9, <1>12
  <2>2. CancelTaken(tx)
    BY <1>10, <1>12, <2>1, Zenon DEF CancelTaken
  <2> QED
    BY <1>4, <1>5, <2>2
<1> QED
  BY <1>6, <1>8, <1>12, Zenon

LEMMA SpendType ==
    ASSUME NEW id \in Nat \ {0}, NEW coins \in Coins
    PROVE  Plain(id, coins) \in Txs
  BY DEF Plain, Txs, Coins

\* Names are passed over, and the dialogs close.
LEMMA NamesPassed ==
    ASSUME BooksInv, UNCHANGED <<chain, disk, kept, unheld, limits>>, pool' \subseteq Txs, IsFiniteSet(pool'),
           nextId' \in Nat, nextId <= nextId', WindowOK(window'), window'.dialog = <<>>, window'.cancel = <<>>, RequestsFollow
    PROVE  BooksInv'
<1>1. WsTypeOK'
  <2>1. \A r \in refreshes' : IsRequest(r)
    BY DEF RequestsFollow
  <2>2. nextId' \in Nat \ {0}
    BY DEF BooksInv, WsTypeOK
  <2> QED
    BY <2>1, <2>2 DEF BooksInv, WsTypeOK
<1>2. DialogInv'
  <2>1. \A x : window'.dialog # <<x>> /\ window'.cancel # <<x>>
    OBVIOUS
  <2> QED
    BY <2>1 DEF DialogInv
<1>3. nextId \in Nat /\ \A i \in Nat : i < nextId => i < nextId'
  BY DEF BooksInv, WsTypeOK
<1>4. HoldsInv'
  <2>1. \A i \in DOMAIN disk.pend : i \in Nat /\ i < nextId
    BY DEF BooksInv, HoldsInv, WsTypeOK, IsStore
  <2>2. \A i \in unheld : i \in Nat /\ i < nextId
    BY DEF BooksInv, HoldsInv
  <2>3. \A i, j \in DOMAIN disk.pend : i # j => Apart(disk.pend, i, j)'
    BY DEF BooksInv, HoldsInv, Apart
  <2>4. \A tx \in disk.timed :
          /\ tx.body # 0 /\ tx.body \in Nat /\ tx.body < nextId /\ tx.body \notin unheld
          /\ tx.body \in DOMAIN disk.pend => disk.pend[tx.body].coins = tx.sealed
    BY DEF BooksInv, HoldsInv, WsTypeOK, IsStore, Txs
  <2> QED
    BY <1>3, <2>1, <2>2, <2>3, <2>4 DEF HoldsInv
<1>5. KeptInv'
  <2>1. \A k \in kept : k.id \in Nat
    BY DEF BooksInv, WsTypeOK
  <2>2. FinalIds' = FinalIds /\ chain' = chain /\ disk' = disk /\ kept' = kept
    BY DEF FinalIds
  <2> SUFFICES ASSUME NEW k \in kept
               PROVE  k.id < nextId' /\ (k.id \notin FinalIds /\ chain.tip < k.dated + MinTipDelta =>
                         k.id \in DOMAIN disk.pend /\ disk.pend[k.id] = [coins |-> k.coins, created |-> k.dated])
    BY <2>2, Zenon DEF KeptInv
  <2> QED
    BY <1>3, <2>1 DEF BooksInv, KeptInv
<1>6. RequestsInv'
  BY DEF BooksInv, RequestsInv, RequestsFollow, finalized_history, FinalIds
<1> QED
  BY <1>1, <1>2, <1>4, <1>5, <1>6 DEF BooksInv

\* The dialogs of a cancellation.
LEMMA ChooseBooks ==
    ASSUME BooksInv, ListTimedSends \/ ChooseTimedSend, UNCHANGED limits
    PROVE  BooksInv'
<1>1. UNCHANGED <<chain, pool, disk, refreshes, nextId, kept, unheld>>
  BY Zenon DEF ListTimedSends, ChooseTimedSend
<1>2. RequestsFollow
  BY <1>1, SameRequests DEF BooksInv
<1>3. CASE ListTimedSends
  <2>1. PICK tx \in disk.timed : window' = [window EXCEPT !.cancel = <<tx>>, !.stage = "choose"]
    BY <1>3, Zenon DEF ListTimedSends
  <2>2. window.dialog = <<>> /\ tx \in Txs
    <3>1. window.dialog = <<>>
      BY <1>3, Zenon DEF ListTimedSends, NoDialog
    <3>2. IsStore(disk)
      BY DEF BooksInv, WsTypeOK
    <3> QED
      BY <3>1, <3>2, BookParts
  <2>3. window' = [up |-> window.up, tip |-> window.tip, polled |-> window.polled, dialog |-> <<>>, cancel |-> <<tx>>, stage |-> "choose"]
    BY <2>1, <2>2, WindowParts
  <2>4. WindowOK(window')
    BY <2>2, <2>3, WindowParts DEF WindowOK
  <2>5. DialogInv'
    <3> SUFFICES ASSUME NEW x \in Txs, window'.cancel = <<x>> PROVE x \in disk'.timed
      BY <2>3 DEF DialogInv
    <3>1. x = tx
      BY <2>3
    <3> QED
      BY <1>1, <3>1
  <2> QED
    BY <1>1, <1>2, <2>4, <2>5, SameShrunk, ShrunkKeeps
<1>4. CASE ChooseTimedSend
  <2>1. PICK x : window' = [window EXCEPT !.cancel = <<>>] \/ window' = [window EXCEPT !.stage = x]
    BY <1>4 DEF ChooseTimedSend
  <2>2. WindowOK(window') /\ window'.dialog = window.dialog /\ (window'.cancel = window.cancel \/ window'.cancel = <<>>)
    BY <2>1, WindowParts DEF WindowOK
  <2>3. DialogInv'
    BY <1>1, <2>2, SameShrunk, DialogStays
  <2> QED
    BY <1>1, <1>2, <2>2, <2>3, SameShrunk, ShrunkKeeps
<1> QED
  BY <1>3, <1>4

LEMMA CancelBooks ==
    ASSUME BooksInv, cancel_timed_send, UNCHANGED limits
    PROVE  BooksInv'
<1>1. PICK tx \in disk.timed : CancelUnanswered(tx) \/ CancelTaken(tx)
  BY CancelStep
<1>a. window.dialog = <<>> /\ UNCHANGED chain
  BY CancelStep
<1>2. nextId \in Nat \ {0} /\ nextId + 1 \in Nat \ {0} /\ tx \in Txs /\ tx.sealed \in Coins /\ tx.coins \in Coins /\ window.tip \in Nat
  <2>1. IsStore(disk) /\ nextId \in Nat \ {0} /\ window.tip \in Nat
    BY WindowParts DEF BooksInv, WsTypeOK
  <2>2. tx \in Txs
    BY <2>1, BookParts
  <2>3. nextId + 1 \in Nat \ {0}
    BY <2>1
  <2>4. tx.sealed \in Coins /\ tx.coins \in Coins
    BY <2>2 DEF Txs
  <2> QED
    BY <2>1, <2>2, <2>3, <2>4
<1> DEFINE a == Plain(nextId, tx.sealed)
           b == Plain(nextId + 1, tx.coins)
<1>3. a \in Txs /\ b \in Txs
  BY <1>2, SpendType
<1>4. pool \subseteq Txs /\ IsFiniteSet(pool)
  BY DEF BooksInv, WsTypeOK
<1>b. (pool' = pool \/ pool' = pool \cup {a} \/ pool' = (pool \cup {a}) \cup {b}) /\ (nextId' = nextId \/ nextId' = nextId + 2)
  <2>1. pool \cup {a, b} = (pool \cup {a}) \cup {b}
    OBVIOUS
  <2> QED
    BY <1>1, <2>1 DEF CancelUnanswered, CancelTaken, CancelPool
<1> HIDE DEF a, b
<1>c. pool' \subseteq Txs /\ IsFiniteSet(pool')
  <2>1. IsFiniteSet(pool \cup {a})
    BY <1>4, FS_AddElement
  <2>2. IsFiniteSet((pool \cup {a}) \cup {b})
    BY <2>1, FS_AddElement
  <2> QED
    BY <1>3, <1>4, <1>b, <2>1, <2>2
<1>d. ASSUME window' = [window EXCEPT !.cancel = <<>>] PROVE WindowOK(window') /\ window'.dialog = <<>> /\ window'.cancel = <<>>
  BY <1>a, <1>d, WindowParts DEF WindowOK
<1>5. CASE CancelUnanswered(tx)
  <2>1. RequestsFollow
    BY <1>5, SameRequests DEF BooksInv, CancelUnanswered
  <2>2. nextId' \in Nat /\ nextId <= nextId'
    BY <1>2, <1>b
  <2>3. WindowOK(window') /\ window'.dialog = <<>> /\ window'.cancel = <<>> /\ UNCHANGED <<disk, kept, unheld>>
    BY <1>5, <1>d DEF CancelUnanswered
  <2> QED
    BY <1>a, <1>c, <2>1, <2>2, <2>3, NamesPassed
<1>e. ASSUME CancelTaken(tx)
      PROVE  nextId' = nextId + 2 /\ unheld' = (IF tx.body \in DOMAIN disk.pend THEN unheld ELSE unheld \cup {nextId})
  BY <1>e DEF CancelTaken, CancelPool
<1>6. CASE /\ CancelTaken(tx)
           /\ disk' = RecordCancel(disk, tx, nextId, window.tip)
           /\ kept' = {k \in kept : k.id # tx.body} \cup {[id |-> nextId, coins |-> tx.sealed, dated |-> window.tip]}
           /\ refreshes' = refresh_chain_state(mark_refresh_state_changed(refreshes), disk', window.tip)
           /\ window' = [window EXCEPT !.cancel = <<>>]
  <2>1. Cancelled(disk', tx, nextId, window.tip) /\ nextId \in DOMAIN disk'.pend
    BY <1>2, <1>6, CancelFacts
  <2>2. WindowOK(window') /\ window'.dialog = <<>> /\ window'.cancel = <<>>
    BY <1>6, <1>d
  <2>3. RequestsFollow
    BY <1>6, MarkedRequestFollows DEF BooksInv
  <2> QED
    BY <1>a, <1>2, <1>c, <1>e, <1>6, <2>1, <2>2, <2>3, CancelledKeeps
<1>7. CASE /\ CancelTaken(tx)
           /\ disk' \in CancelCut(disk, tx, nextId, window.tip)
           /\ kept' = {k \in kept : k.id # tx.body}
           /\ window' = Closed /\ refreshes' = {}
  <2>1. Cancelled(disk', tx, nextId, window.tip)
    BY <1>2, <1>7, CancelFacts
  <2>2. WindowOK(window') /\ window'.dialog = <<>> /\ window'.cancel = <<>>
    BY <1>7 DEF WindowOK, Closed, Opened
  <2>3. RequestsFollow
    BY <1>7 DEF RequestsFollow
  <2> QED
    BY <1>a, <1>2, <1>c, <1>e, <1>7, <2>1, <2>2, <2>3, CancelledKeeps
<1> QED
  BY <1>1, <1>5, <1>6, <1>7 DEF CancelTaken

-----------------------------------------------------------------------------
(* A block.                                                                   *)

\* A transaction that a block of the next height may hold.
Enters(f) ==
    /\ f \in Finals /\ f.height = chain.tip + 1 /\ f.id \notin FinalIds
    /\ \/ \E tx \in pool : f.id = tx.id
       \/ \E tx \in pool : tx.body # 0 /\ f.id = tx.body
       \/ f.id = limits.ids + chain.tip + 1

LEMMA ListedOnce ==
    ASSUME NEW S, IsFiniteSet(S)
    PROVE  SetToSeq(S) \in Seq(S) /\ \A i, j \in 1..Len(SetToSeq(S)) : i # j => SetToSeq(S)[i] # SetToSeq(S)[j]
<1> DEFINE n == Cardinality(S)
<1>1. n \in Nat /\ ExistsBijection(1..n, S)
  BY FS_CardinalityType
<1>2. \E g \in [1..n -> S] : IsInjective(g)
  BY <1>1, Zenon DEF ExistsBijection, Bijection, Injection
<1>3. SetToSeq(S) \in [1..n -> S] /\ IsInjective(SetToSeq(S))
  BY <1>2, Zenon DEF SetToSeq
<1> DEFINE f == SetToSeq(S)
<1> HIDE DEF f
<1>4. f \in Seq(S) /\ Len(f) = n /\ DOMAIN f = 1..n
  BY <1>1, <1>3 DEF f
<1> QED
  BY <1>3, <1>4 DEF f, IsInjective

\* What the chain gets for the transfers that the next block opens.
Openings(open) == {[id |-> tx.body, height |-> chain.tip + 1, coins |-> tx.sealed] : tx \in open}

LEMMA BlockStep ==
    ASSUME WsTypeOK, FinalizeWalletBlock
    PROVE  \E open \in MayOpen : \E b :
             /\ chain' = [tip |-> chain.tip + 1, fin |-> chain.fin \o SetToSeq(Openings(open)) \o b]
             /\ \/ b = <<>>
                \/ b = <<[id |-> limits.ids + (chain.tip + 1), height |-> chain.tip + 1, coins |-> {}]>>
                \/ \E tx \in pool : tx.id \notin FinalIds /\ b = <<[id |-> tx.id, height |-> chain.tip + 1, coins |-> tx.coins]>>
<1> DEFINE next == chain.tip + 1
           free(tx, open) == /\ tx.id \notin FinalIds /\ (tx.body = 0 \/ tx.unlock >= next)
                             /\ tx.coins \cap (SpentAt(chain.tip) \cup UNION {t.sealed : t \in open}) = {}
           payment == {<<[id |-> limits.ids + next, height |-> next, coins |-> {}]>>}
           own(open) == {<<[id |-> tx.id, height |-> next, coins |-> tx.coins]>> : tx \in {t \in pool : free(t, open)}}
           received == Cardinality({i \in DOMAIN chain.fin : chain.fin[i].id > limits.ids})
           block(open) == {<<>>} \cup (IF received < limits.payments THEN payment ELSE {}) \cup own(open)
<1>1. \E open \in MayOpen : \E b \in block(open) : chain' = [tip |-> next, fin |-> chain.fin \o SetToSeq(Openings(open)) \o b]
  BY Zenon DEF FinalizeWalletBlock, Openings
<1>a. PICK open \in MayOpen : \E b \in block(open) : chain' = [tip |-> next, fin |-> chain.fin \o SetToSeq(Openings(open)) \o b]
  BY <1>1, Zenon
<1>2. PICK b \in block(open) : chain' = [tip |-> next, fin |-> chain.fin \o SetToSeq(Openings(open)) \o b]
  BY <1>a, Zenon
<1>3. b = <<>> \/ b \in payment \/ b \in own(open)
  <2> HIDE DEF payment, own, received
  <2> QED
    OBVIOUS
<1>4. b \in own(open) => \E tx \in pool : tx.id \notin FinalIds /\ b = <<[id |-> tx.id, height |-> next, coins |-> tx.coins]>>
  <2> SUFFICES ASSUME b \in own(open) PROVE \E tx \in pool : tx.id \notin FinalIds /\ b = <<[id |-> tx.id, height |-> next, coins |-> tx.coins]>>
    OBVIOUS
  <2>1. PICK tx \in {t \in pool : free(t, open)} : b = <<[id |-> tx.id, height |-> next, coins |-> tx.coins]>>
    OBVIOUS
  <2>2. tx \in pool /\ tx.id \notin FinalIds
    OBVIOUS
  <2> QED
    BY <2>1, <2>2, Zenon
<1>5. b \in payment => b = <<[id |-> limits.ids + next, height |-> next, coins |-> {}]>>
  OBVIOUS
<1> HIDE DEF block, payment, own
<1> QED
  BY <1>2, <1>3, <1>4, <1>5, Zenon

LEMMA OpeningsFacts ==
    ASSUME WsTypeOK, PoolInv, NEW open \in MayOpen
    PROVE  /\ IsFiniteSet(Openings(open))
           /\ \A f \in Openings(open) : Enters(f) /\ (\E tx \in pool : tx.body # 0 /\ f.id = tx.body)
           /\ \A f, g \in Openings(open) : f.id = g.id => f = g
<1>0. pool \subseteq Txs /\ IsFiniteSet(pool) /\ chain.tip \in Nat
  BY DEF WsTypeOK
<1>a. open \subseteq pool /\ \A tx \in open : tx.body # 0 /\ tx.body \notin FinalIds
  BY DEF MayOpen
<1>1. IsFiniteSet(Openings(open))
  <2>1. IsFiniteSet(open)
    BY <1>0, <1>a, FS_Subset
  <2> DEFINE m == [tx \in open |-> [id |-> tx.body, height |-> chain.tip + 1, coins |-> tx.sealed]]
  <2>2. m \in Surjection(open, Openings(open))
    BY DEF Surjection, Openings
  <2> QED
    BY <2>1, <2>2, FS_Surjection
<1>2. ASSUME NEW tx \in open, NEW f, f = [id |-> tx.body, height |-> chain.tip + 1, coins |-> tx.sealed]
      PROVE  Enters(f) /\ f.id = tx.body /\ tx \in pool /\ tx.body # 0
  <2>1. tx \in pool /\ tx \in Txs /\ tx.body # 0 /\ tx.body \in Nat /\ tx.sealed \in Coins /\ tx.body \notin FinalIds
    BY <1>0, <1>a DEF Txs
  <2>2. f \in Finals /\ f.id = tx.body /\ f.height = chain.tip + 1
    BY <1>0, <1>2, <2>1 DEF Finals
  <2> QED
    BY <2>1, <2>2 DEF Enters
<1>3. ASSUME NEW f \in Openings(open), NEW g \in Openings(open), f.id = g.id PROVE f = g
  <2>1. PICK tx \in open : f = [id |-> tx.body, height |-> chain.tip + 1, coins |-> tx.sealed]
    BY DEF Openings
  <2>2. PICK u \in open : g = [id |-> u.body, height |-> chain.tip + 1, coins |-> u.sealed]
    BY DEF Openings
  <2>3. tx \in pool /\ u \in pool /\ tx.body # 0 /\ tx.body = u.body
    BY <1>a, <1>3, <2>1, <2>2
  <2>4. tx = u
    BY <2>3 DEF PoolInv
  <2> QED
    BY <2>1, <2>2, <2>4
<1>4. ASSUME NEW f \in Openings(open) PROVE Enters(f) /\ (\E tx \in pool : tx.body # 0 /\ f.id = tx.body)
  <2>1. PICK tx \in open : f = [id |-> tx.body, height |-> chain.tip + 1, coins |-> tx.sealed]
    BY DEF Openings
  <2> QED
    BY <1>2, <2>1
<1> QED
  BY <1>1, <1>3, <1>4

\* Every transaction of the chain has a name of the wallet, or that of a payment of its block.
LEMMA FinalNames ==
    ASSUME WsTypeOK, PoolInv, ChainInv
    PROVE  limits.ids + chain.tip + 1 \notin FinalIds
<1>0. chain.tip \in Nat /\ chain.fin \in Seq(Finals) /\ limits.ids \in Nat /\ pool \subseteq Txs
  BY WalletSendsAssumption DEF WsTypeOK
<1> SUFFICES ASSUME NEW i \in 1..Len(chain.fin) PROVE chain.fin[i].id # limits.ids + chain.tip + 1
  BY <1>0, FinParts DEF FinalIds
<1>1. chain.fin[i].height \in Nat /\ chain.fin[i].id \in Nat /\ chain.fin[i].height <= chain.tip
  BY <1>0, FinParts DEF ChainInv
<1>2. \A tx \in pool : tx.id \in Nat /\ tx.body \in Nat /\ tx.id <= limits.ids /\ tx.body <= limits.ids
  BY <1>0 DEF PoolInv, Txs
<1>3. CASE \E tx \in pool : chain.fin[i].id = tx.id \/ chain.fin[i].id = tx.body
  <2>1. chain.fin[i].id <= limits.ids
    BY <1>2, <1>3
  <2> QED
    BY <1>0, <1>1, <2>1
<1>4. CASE chain.fin[i].id = limits.ids + chain.fin[i].height
  BY <1>0, <1>1, <1>4
<1> QED
  BY <1>3, <1>4 DEF ChainInv

LEMMA BlockFacts ==
    ASSUME WsTypeOK, PoolInv, ChainInv, FinalizeWalletBlock
    PROVE  \E ext \in Seq(Finals) :
             /\ chain' = [tip |-> chain.tip + 1, fin |-> chain.fin \o ext]
             /\ \A i \in 1..Len(ext) : Enters(ext[i])
             /\ \A i, j \in 1..Len(ext) : i < j => ext[i].id # ext[j].id
<1>0. chain.tip \in Nat /\ chain.fin \in Seq(Finals) /\ limits.ids \in Nat /\ pool \subseteq Txs
  BY WalletSendsAssumption DEF WsTypeOK
<1> DEFINE next == chain.tip + 1
<1>a. PICK open \in MayOpen : \E b :
               /\ chain' = [tip |-> next, fin |-> chain.fin \o SetToSeq(Openings(open)) \o b]
               /\ \/ b = <<>>
                  \/ b = <<[id |-> limits.ids + next, height |-> next, coins |-> {}]>>
                  \/ \E tx \in pool : tx.id \notin FinalIds /\ b = <<[id |-> tx.id, height |-> next, coins |-> tx.coins]>>
  BY BlockStep, Zenon
<1> DEFINE ops == Openings(open)
           op == SetToSeq(ops)
<1>1. PICK b : /\ chain' = [tip |-> next, fin |-> chain.fin \o op \o b]
               /\ \/ b = <<>>
                  \/ b = <<[id |-> limits.ids + next, height |-> next, coins |-> {}]>>
                  \/ \E tx \in pool : tx.id \notin FinalIds /\ b = <<[id |-> tx.id, height |-> next, coins |-> tx.coins]>>
  BY <1>a, Zenon
<1>2. op \in Seq(ops) /\ \A i, j \in 1..Len(op) : i # j => op[i] # op[j]
  BY OpeningsFacts, ListedOnce
<1>3. \A f \in ops : Enters(f) /\ (\E tx \in pool : tx.body # 0 /\ f.id = tx.body)
  BY OpeningsFacts
<1>4. \A f, g \in ops : f.id = g.id => f = g
  BY OpeningsFacts
<1> HIDE DEF op, ops
<1>5. Len(op) \in Nat /\ \A i \in 1..Len(op) : op[i] \in ops /\ Enters(op[i]) /\ op[i] \in Finals
  <2>1. Len(op) \in Nat /\ \A i \in 1..Len(op) : op[i] \in ops
    BY <1>2
  <2> QED
    BY <1>3, <2>1 DEF Enters
<1>6. \A i, j \in 1..Len(op) : i < j => op[i].id # op[j].id
  <2>1. \A i, j \in 1..Len(op) : i < j => i # j
    BY <1>5
  <2> QED
    BY <1>2, <1>4, <1>5, <2>1
<1>7. op \in Seq(Finals)
  BY <1>2, <1>5
<1>8. \A f \in ops : \E tx \in pool : f.id = tx.body /\ tx.body \in Nat /\ tx.body <= limits.ids
  BY <1>0, <1>3 DEF PoolInv, Txs
<1>9. CASE b = <<>>
  <2>1. chain.fin \o op \o b = chain.fin \o op
    BY <1>0, <1>7, <1>9
  <2> QED
    BY <1>1, <1>5, <1>6, <1>7, <2>1
<1>10. ASSUME NEW f, b = <<f>>, Enters(f), \A g \in ops : g.id # f.id
       PROVE  \E ext \in Seq(Finals) :
                 /\ chain' = [tip |-> next, fin |-> chain.fin \o ext]
                 /\ \A i \in 1..Len(ext) : Enters(ext[i])
                 /\ \A i, j \in 1..Len(ext) : i < j => ext[i].id # ext[j].id
  <2> DEFINE ext == op \o b
  <2>1. f \in Finals
    BY <1>10 DEF Enters
  <2>2. ext \in Seq(Finals) /\ Len(ext) = Len(op) + 1 /\ ext[Len(op) + 1] = f /\ \A i \in 1..Len(op) : ext[i] = op[i]
    BY <1>7, <1>10, <2>1
  <2>3. chain.fin \o op \o b = chain.fin \o ext
    <3>1. b \in Seq(Finals)
      BY <1>10, <2>1
    <3>2. chain.fin \in Seq(Finals) /\ op \in Seq(Finals)
      BY <1>0, <1>7
    <3>3. ASSUME NEW s \in Seq(Finals), NEW t \in Seq(Finals), NEW u \in Seq(Finals)
          PROVE  (s \o t) \o u = s \o (t \o u)
      BY ConcatAssociative
    <3> QED
      BY <3>1, <3>2, <3>3, Zenon
  <2> HIDE DEF ext
  <2>4. \A i \in 1..Len(ext) : i \in 1..Len(op) \/ i = Len(op) + 1
    BY <1>5, <2>2
  <2>5. \A i \in 1..Len(ext) : Enters(ext[i])
    BY <1>5, <1>10, <2>2, <2>4
  <2>6. ASSUME NEW i \in 1..Len(ext), NEW j \in 1..Len(ext), i < j PROVE ext[i].id # ext[j].id
    <3>1. i \in 1..Len(op)
      BY <1>5, <2>2, <2>6
    <3>2. CASE j \in 1..Len(op)
      BY <1>6, <2>2, <2>6, <3>1, <3>2
    <3>3. CASE j = Len(op) + 1
      BY <1>5, <1>10, <2>2, <3>1, <3>3
    <3> QED
      BY <2>4, <3>2, <3>3
  <2> QED
    BY <1>1, <2>2, <2>3, <2>5, <2>6
<1>11. CASE b = <<[id |-> limits.ids + next, height |-> next, coins |-> {}]>>
  <2> DEFINE f == [id |-> limits.ids + next, height |-> next, coins |-> {}]
  <2>1. f \in Finals /\ f.id = limits.ids + chain.tip + 1 /\ f.height = chain.tip + 1
    BY <1>0 DEF Finals, Coins
  <2>2. Enters(f)
    BY <2>1, FinalNames DEF Enters
  <2>3. \A g \in ops : g.id # f.id
    <3>1. f.id = limits.ids + chain.tip + 1
      BY <2>1
    <3> HIDE DEF f
    <3> QED
      BY <1>0, <1>8, <3>1
  <2>4. b = <<f>>
    BY <1>11
  <2> HIDE DEF f
  <2> QED
    BY <1>10, <2>2, <2>3, <2>4
<1>12. CASE \E tx \in pool : tx.id \notin FinalIds /\ b = <<[id |-> tx.id, height |-> next, coins |-> tx.coins]>>
  <2>1. PICK tx \in pool : tx.id \notin FinalIds /\ b = <<[id |-> tx.id, height |-> next, coins |-> tx.coins]>>
    BY <1>12
  <2> DEFINE f == [id |-> tx.id, height |-> next, coins |-> tx.coins]
  <2>2. f \in Finals /\ f.id = tx.id /\ f.height = chain.tip + 1
    BY <1>0 DEF Finals, Txs
  <2>3. b = <<f>>
    BY <2>1
  <2> HIDE DEF f
  <2>4. Enters(f)
    BY <2>1, <2>2 DEF Enters
  <2>5. \A g \in ops : g.id # f.id
    <3>1. \A u \in pool : u.body # tx.id
      BY DEF PoolInv
    <3> QED
      BY <1>3, <2>2, <3>1
  <2> QED
    BY <1>10, <2>3, <2>4, <2>5
<1> QED
  BY <1>1, <1>9, <1>11, <1>12
LEMMA Extended ==
    ASSUME WsTypeOK, PoolInv, ChainInv, FinalizeWalletBlock
    PROVE  /\ chain' \in [tip : Nat \ {0}, fin : Seq(Finals)] /\ chain'.tip = chain.tip + 1
           /\ Len(chain.fin) \in Nat /\ Len(chain'.fin) \in Nat /\ Len(chain.fin) <= Len(chain'.fin)
           /\ \A i \in 1..Len(chain.fin) : chain'.fin[i] = chain.fin[i]
           /\ \A i \in 1..Len(chain'.fin) : i \in 1..Len(chain.fin) \/ Enters(chain'.fin[i])
           /\ \A i, j \in 1..Len(chain'.fin) : i < j /\ i \notin 1..Len(chain.fin) => chain'.fin[i].id # chain'.fin[j].id
           /\ FinalIds \subseteq FinalIds'
<1>0. chain.tip \in Nat /\ chain.fin \in Seq(Finals) /\ Len(chain.fin) \in Nat
  BY DEF WsTypeOK
<1>1. PICK ext \in Seq(Finals) :
             /\ chain' = [tip |-> chain.tip + 1, fin |-> chain.fin \o ext]
             /\ \A i \in 1..Len(ext) : Enters(ext[i])
             /\ \A i, j \in 1..Len(ext) : i < j => ext[i].id # ext[j].id
  BY BlockFacts
<1> DEFINE L == Len(chain.fin)
           new == chain.fin \o ext
<1>2. new \in Seq(Finals) /\ Len(new) = L + Len(ext) /\ Len(ext) \in Nat
      /\ (\A i \in 1..L : new[i] = chain.fin[i])
  BY <1>0
<1>3. \A i \in 1..Len(ext) : new[L + i] = ext[i]
  BY <1>0
<1>4. chain' = [tip |-> chain.tip + 1, fin |-> new]
  BY <1>1
<1> HIDE DEF new
<1>5. chain'.fin = new /\ chain'.tip = chain.tip + 1 /\ chain' \in [tip : Nat \ {0}, fin : Seq(Finals)]
  BY <1>0, <1>2, <1>4
<1>6. \A i \in 1..Len(new) : i \notin 1..L => i - L \in 1..Len(ext) /\ new[i] = ext[i - L]
  <2> SUFFICES ASSUME NEW i \in 1..Len(new), i \notin 1..L PROVE i - L \in 1..Len(ext) /\ new[i] = ext[i - L]
    OBVIOUS
  <2>1. i - L \in 1..Len(ext) /\ L + (i - L) = i
    BY <1>0, <1>2
  <2>2. new[L + (i - L)] = ext[i - L]
    BY <1>3, <2>1
  <2> QED
    BY <2>1, <2>2
<1>7. \A i \in 1..Len(new) : i \in 1..L \/ Enters(new[i])
  BY <1>1, <1>6
<1>8. \A i, j \in 1..Len(new) : i < j /\ i \notin 1..L => new[i].id # new[j].id
  <2> SUFFICES ASSUME NEW i \in 1..Len(new), NEW j \in 1..Len(new), i < j, i \notin 1..L PROVE new[i].id # new[j].id
    OBVIOUS
  <2>1. j \notin 1..L /\ i - L < j - L
    BY <1>0, <1>2
  <2>2. i - L \in 1..Len(ext) /\ new[i] = ext[i - L] /\ j - L \in 1..Len(ext) /\ new[j] = ext[j - L]
    BY <1>6, <2>1
  <2> QED
    BY <1>1, <2>1, <2>2
<1>9. FinalIds \subseteq FinalIds'
  <2>1. \A i \in 1..L : i \in 1..Len(new) /\ new[i].id = chain.fin[i].id
    BY <1>0, <1>2
  <2>2. DOMAIN new = 1..Len(new) /\ DOMAIN chain.fin = 1..L
    BY <1>0, <1>2
  <2>3. FinalIds' = {new[i].id : i \in DOMAIN new}
    BY <1>5 DEF FinalIds
  <2> QED
    BY <2>1, <2>2, <2>3 DEF FinalIds
<1>10. Len(new) \in Nat /\ L <= Len(new)
  BY <1>0, <1>2
<1> QED
  BY <1>0, <1>2, <1>5, <1>7, <1>8, <1>9, <1>10

LEMMA BlockChain ==
    ASSUME WsTypeOK, PoolInv, ChainInv, FinalizeWalletBlock, UNCHANGED limits
    PROVE  PoolInv' /\ ChainInv'
<1>0. /\ chain.tip \in Nat /\ chain.fin \in Seq(Finals) /\ limits.ids \in Nat /\ pool \subseteq Txs
      /\ UNCHANGED <<pool, nextId, limits>>
  BY WalletSendsAssumption DEF WsTypeOK, FinalizeWalletBlock
<1>1. PoolInv'
  BY <1>0 DEF PoolInv
<1> DEFINE L == Len(chain.fin)
           new == chain'.fin
<1>2. new \in Seq(Finals) /\ chain'.tip = chain.tip + 1 /\ L \in Nat /\ Len(new) \in Nat /\ L <= Len(new)
  BY Extended
<1>3. \A i \in 1..L : new[i] = chain.fin[i] /\ i \in 1..Len(new)
  BY <1>2, Extended
<1>4. \A i \in 1..Len(new) : i \in 1..L \/ Enters(new[i])
  BY Extended
<1>5. \A i, j \in 1..Len(new) : i < j /\ i \notin 1..L => new[i].id # new[j].id
  BY Extended
<1>6. \A i \in 1..L : new[i].height \in Nat /\ new[i].height <= chain.tip /\ new[i].id \in FinalIds
  <2>1. \A i \in 1..L : chain.fin[i].height \in Nat /\ chain.fin[i].height <= chain.tip /\ i \in DOMAIN chain.fin
    BY <1>0, FinParts DEF ChainInv
  <2> QED
    BY <1>3, <2>1 DEF FinalIds
<1>7. \A i \in 1..Len(new) : i \notin 1..L => new[i].height = chain.tip + 1 /\ new[i].id \notin FinalIds
  BY <1>4 DEF Enters
<1>8. \A i \in 1..Len(new) : new[i].height \in Nat /\ new[i].height <= chain'.tip
  BY <1>0, <1>2, <1>6, <1>7
<1>9. ASSUME NEW i \in 1..Len(new), NEW j \in 1..Len(new), i < j
      PROVE  new[i].id # new[j].id /\ new[i].height <= new[j].height
  <2>1. CASE j \in 1..L
    <3>1. i \in 1..L
      BY <1>2, <1>9, <2>1
    <3>2. chain.fin[i].id # chain.fin[j].id /\ chain.fin[i].height <= chain.fin[j].height
      BY <1>9, <2>1, <3>1 DEF ChainInv
    <3> QED
      BY <1>3, <2>1, <3>1, <3>2
  <2>2. CASE i \in 1..L /\ j \notin 1..L
    <3>1. new[i].height \in Nat /\ new[i].height <= chain.tip /\ new[i].id \in FinalIds
      BY <1>6, <2>2
    <3>2. new[j].height = chain.tip + 1 /\ new[j].id \notin FinalIds
      BY <1>7, <2>2
    <3> HIDE DEF new, L
    <3> QED
      BY <1>0, <3>1, <3>2, SMTT(20)
  <2>3. CASE i \notin 1..L /\ j \notin 1..L
    BY <1>0, <1>5, <1>7, <1>9, <2>3
  <2>4. i \notin 1..L => j \notin 1..L
    BY <1>2, <1>9
  <2> QED
    BY <2>1, <2>2, <2>3, <2>4
<1>10. ASSUME NEW i \in 1..Len(new)
       PROVE  \/ \E tx \in pool : new[i].id = tx.id
              \/ \E tx \in pool : tx.body # 0 /\ new[i].id = tx.body
              \/ new[i].id = limits.ids + new[i].height /\ new[i].height > 0
  <2>1. CASE i \in 1..L
    <3>1. \/ \E tx \in pool : chain.fin[i].id = tx.id
          \/ \E tx \in pool : tx.body # 0 /\ chain.fin[i].id = tx.body
          \/ chain.fin[i].id = limits.ids + chain.fin[i].height /\ chain.fin[i].height > 0
      BY <2>1 DEF ChainInv
    <3> QED
      BY <1>3, <2>1, <3>1
  <2>2. CASE i \notin 1..L
    <3>1. /\ new[i].height = chain.tip + 1
          /\ \/ \E tx \in pool : new[i].id = tx.id
             \/ \E tx \in pool : tx.body # 0 /\ new[i].id = tx.body
             \/ new[i].id = limits.ids + chain.tip + 1
      BY <1>4, <2>2 DEF Enters
    <3>2. new[i].height = chain.tip + 1
      BY <3>1
    <3>3. new[i].id = limits.ids + chain.tip + 1 => new[i].id = limits.ids + new[i].height /\ new[i].height > 0
      <4> HIDE DEF new, L
      <4> QED
        BY <1>0, <3>2, SMTT(20)
    <3> QED
      BY <3>1, <3>3
  <2> QED
    BY <2>1, <2>2
<1> HIDE DEF new
<1>11. /\ \A i, j \in 1..Len(new) : i < j => new[i].id # new[j].id /\ new[i].height <= new[j].height
       /\ \A i \in 1..Len(new) :
            /\ new[i].height <= chain'.tip
            /\ \/ \E tx \in pool : new[i].id = tx.id
               \/ \E tx \in pool : tx.body # 0 /\ new[i].id = tx.body
               \/ new[i].id = limits.ids + new[i].height /\ new[i].height > 0
  BY <1>8, <1>9, <1>10
<1>12. ChainInv'
  BY <1>0, <1>11 DEF ChainInv, new
<1> QED
  BY <1>1, <1>12

LEMMA BlockBooks ==
    ASSUME BooksInv, PoolInv, ChainInv, FinalizeWalletBlock, UNCHANGED limits
    PROVE  BooksInv'
<1>0. WsTypeOK /\ UNCHANGED <<pool, disk, window, refreshes, nextId, kept, unheld>>
  BY DEF FinalizeWalletBlock, BooksInv
<1>1. chain' \in [tip : Nat \ {0}, fin : Seq(Finals)] /\ chain'.tip = chain.tip + 1 /\ FinalIds \subseteq FinalIds' /\ chain.tip \in Nat
  BY <1>0, Extended, WindowParts
<1>2. WsTypeOK'
  BY <1>0, <1>1 DEF WsTypeOK
<1>3. DialogInv'
  BY <1>0 DEF BooksInv, DialogInv, Planned
<1>4. HoldsInv'
  BY <1>0 DEF BooksInv, HoldsInv, Apart
<1>5. KeptInv'
  <2> SUFFICES ASSUME NEW k \in kept
               PROVE  k.id < nextId /\ (k.id \notin FinalIds' /\ chain'.tip < k.dated + MinTipDelta =>
                         k.id \in DOMAIN disk.pend /\ disk.pend[k.id] = [coins |-> k.coins, created |-> k.dated])
    BY <1>0, Zenon DEF KeptInv
  <2>1. k.dated \in Nat
    BY <1>0 DEF WsTypeOK
  <2>2. chain'.tip < k.dated + MinTipDelta => chain.tip < k.dated + MinTipDelta
    BY <1>1, <2>1, WalletSendsAssumption
  <2> QED
    BY <1>1, <2>2 DEF BooksInv, KeptInv
<1>6. RequestsInv'
  <2>1. finalized_history(disk') \subseteq FinalIds'
    BY <1>0, <1>1 DEF BooksInv, RequestsInv
  <2>2. \A r \in refreshes' : r.fresh => UpToDate(r)'
    BY <1>0 DEF BooksInv, RequestsInv, UpToDate, finalized_history
  <2> QED
    BY <2>1, <2>2 DEF RequestsInv, finalized_history
<1> QED
  BY <1>2, <1>3, <1>4, <1>5, <1>6 DEF BooksInv
-----------------------------------------------------------------------------
(* The names of transactions.                                                 *)

LEMMA NamesStay ==
    ASSUME PoolInv, ChainInv, UNCHANGED <<chain, pool, nextId, limits>>
    PROVE  PoolInv' /\ ChainInv'
  BY DEF PoolInv, ChainInv

LEMMA ChainStays ==
    ASSUME ChainInv, UNCHANGED <<chain, limits>>, pool \subseteq pool'
    PROVE  ChainInv'
<1> SUFFICES ASSUME NEW i \in 1..Len(chain.fin)
             PROVE  \/ \E tx \in pool' : chain.fin[i].id = tx.id
                    \/ \E tx \in pool' : tx.body # 0 /\ chain.fin[i].id = tx.body
                    \/ chain.fin[i].id = limits.ids + chain.fin[i].height /\ chain.fin[i].height > 0
  BY DEF ChainInv
<1> QED
  BY DEF ChainInv

LEMMA PoolGrows ==
    ASSUME WsTypeOK, PoolInv, NEW tx \in Txs, tx.id = nextId, tx.body \in {0, nextId + 1},
           tx.id <= limits.ids, tx.body <= limits.ids,
           pool' = pool \cup {tx}, nextId' = nextId + Ids(tx), UNCHANGED limits
    PROVE  PoolInv'
<1>1. nextId \in Nat \ {0} /\ \A u \in pool : u.id \in Nat \ {0} /\ u.body \in Nat /\ u.id < nextId /\ u.body < nextId
  BY DEF WsTypeOK, PoolInv, Txs
<1>2. nextId < nextId' /\ tx.body < nextId' /\ nextId' \in Nat /\ tx.id # tx.body
  BY <1>1 DEF Ids
<1>3. \A u \in pool : u.id < nextId' /\ u.body < nextId' /\ u.id <= limits.ids /\ u.body <= limits.ids /\ u.id # u.body
  BY <1>1, <1>2 DEF PoolInv
<1>4. \A u \in pool : u.id # tx.id /\ u.id # tx.body /\ tx.id # u.body /\ (u.body = 0 \/ u.body # tx.body)
  BY <1>1
<1>5. \A t, u \in pool : t # u => t.id # u.id /\ t.id # u.body /\ (t.body = 0 \/ t.body # u.body)
  BY DEF PoolInv
<1>6. \A t, u \in pool' : t # u => t.id # u.id /\ t.id # u.body /\ (t.body = 0 \/ t.body # u.body)
  BY <1>4, <1>5
<1> QED
  BY <1>2, <1>3, <1>6 DEF PoolInv

LEMMA SubmittedNames ==
    ASSUME WsTypeOK, PoolInv, ChainInv, NEW tx, Planned(tx), pool' = pool \cup {tx}, nextId' = nextId + Ids(tx), UNCHANGED <<chain, limits>>
    PROVE  PoolInv' /\ ChainInv'
  BY PoolGrows, ChainStays DEF Planned

LEMMA ConfirmNames ==
    ASSUME BooksInv, PoolInv, ChainInv, ConfirmSend, UNCHANGED limits
    PROVE  PoolInv' /\ ChainInv'
<1>0. WsTypeOK
  BY DEF BooksInv
<1>1. PICK tx \in Txs : window.dialog = <<tx>>
  BY WindowParts DEF ConfirmSend
<1>2. Planned(tx)
  BY <1>1 DEF BooksInv, DialogInv
<1>3. window.dialog[1] = tx
  BY <1>1
<1>4. CASE pool' = pool \cup {tx} /\ nextId' = nextId + Ids(tx) /\ UNCHANGED chain
  BY <1>0, <1>2, <1>4, SubmittedNames
<1>5. CASE /\ \E taken \in UnansweredBroadcast(tx) :
                /\ pool' = pool \cup taken
                /\ nextId' = IF taken = {} THEN nextId ELSE nextId + Ids(tx)
           /\ UNCHANGED chain
  <2>1. PICK taken \in UnansweredBroadcast(tx) :
                /\ pool' = pool \cup taken
                /\ nextId' = IF taken = {} THEN nextId ELSE nextId + Ids(tx)
    BY <1>5
  <2>2. CASE taken = {}
    <3>1. pool' = pool /\ nextId' = nextId
      BY <2>1, <2>2
    <3> QED
      BY <1>5, <3>1, NamesStay
  <2>3. CASE taken = {tx}
    <3>1. taken # {}
      BY <2>3
    <3> QED
      BY <1>4, <1>5, <2>1, <2>3, <3>1
  <2> QED
    BY <2>2, <2>3 DEF UnansweredBroadcast
<1>6. CASE \E v \in Heights : \E again \in PlainPlans(v) : Submitted(again, v)
  <2>1. PICK v \in Heights : \E again \in PlainPlans(v) : Submitted(again, v)
    BY <1>6
  <2>2. PICK again \in PlainPlans(v) : Submitted(again, v)
    BY <2>1
  <2>3. nextId <= limits.ids
    BY <1>2 DEF Planned
  <2>4. Planned(again)
    BY <2>3, PlanFacts
  <2>5. pool' = pool \cup {again} /\ nextId' = nextId + Ids(again) /\ UNCHANGED chain
    BY <2>2 DEF Submitted
  <2> QED
    BY <1>0, <2>4, <2>5, SubmittedNames
<1>7. CASE Submitted(tx, window.tip)
  BY <1>4, <1>7 DEF Submitted
<1> QED
  BY <1>3, <1>4, <1>5, <1>6, <1>7, Zenon DEF ConfirmSend

LEMMA CancelNames ==
    ASSUME BooksInv, PoolInv, ChainInv, cancel_timed_send, UNCHANGED limits
    PROVE  PoolInv' /\ ChainInv'
<1>0. WsTypeOK
  BY DEF BooksInv
<1>a. PICK tx \in disk.timed : CancelUnanswered(tx) \/ CancelTaken(tx)
  BY CancelStep
<1>b. nextId <= limits.ids /\ UNCHANGED chain
  BY CancelStep
<1>c. (pool' = pool /\ nextId' = nextId) \/ CancelPool(tx)
  BY <1>a, <1>b DEF CancelUnanswered, CancelTaken, CancelPool
<1>d. CASE pool' = pool /\ nextId' = nextId
  BY <1>b, <1>d, NamesStay
<1> SUFFICES ASSUME CancelPool(tx) PROVE PoolInv' /\ ChainInv'
  BY <1>c, <1>d
<1>1. /\ nextId <= limits.ids /\ nextId' = nextId + 2 /\ UNCHANGED chain
      /\ \/ pool' = pool \cup {Plain(nextId, tx.sealed)}
         \/ nextId < limits.ids /\ pool' = pool \cup {Plain(nextId, tx.sealed), Plain(nextId + 1, tx.coins)}
  BY <1>b DEF CancelPool
<1>2. ChainInv'
  BY <1>1, ChainStays
<1>3. nextId \in Nat \ {0} /\ limits.ids \in Nat /\ \A u \in pool : u.id \in Nat \ {0} /\ u.body \in Nat /\ u.id < nextId /\ u.body < nextId
  BY <1>0, WalletSendsAssumption DEF WsTypeOK, PoolInv, Txs
<1> DEFINE New(x) == x \notin pool => x.id \in {nextId, nextId + 1} /\ x.body = 0 /\ x.id <= limits.ids
<1>4. ASSUME NEW id, NEW coins PROVE Plain(id, coins).id = id /\ Plain(id, coins).body = 0
  BY DEF Plain
<1>5. \A x \in pool' : New(x)
  BY <1>1, <1>3, <1>4
<1>6. \A x, y \in pool' : x \notin pool /\ y \notin pool /\ x # y => x.id # y.id
  <2>1. Plain(nextId, tx.sealed).id # Plain(nextId + 1, tx.coins).id
    BY <1>3, <1>4
  <2> QED
    BY <1>1, <2>1
<1> HIDE DEF New
<1>7. \A x \in pool' : x.id < nextId' /\ x.body < nextId' /\ x.id <= limits.ids /\ x.body <= limits.ids /\ x.id # x.body
  <2> SUFFICES ASSUME NEW x \in pool' PROVE x.id < nextId' /\ x.body < nextId' /\ x.id <= limits.ids /\ x.body <= limits.ids /\ x.id # x.body
    OBVIOUS
  <2>1. CASE x \in pool
    BY <1>1, <1>3, <2>1 DEF PoolInv
  <2>2. CASE x \notin pool
    BY <1>1, <1>3, <1>5, <2>2 DEF New
  <2> QED
    BY <2>1, <2>2
<1>8. ASSUME NEW x \in pool', NEW y \in pool', x # y PROVE x.id # y.id /\ x.id # y.body /\ (x.body = 0 \/ x.body # y.body)
  <2>1. CASE x \in pool /\ y \in pool
    BY <1>8, <2>1 DEF PoolInv
  <2>2. CASE x \notin pool /\ y \in pool
    BY <1>3, <1>5, <2>2 DEF New
  <2>3. CASE x \in pool /\ y \notin pool
    BY <1>3, <1>5, <2>3 DEF New
  <2>4. CASE x \notin pool /\ y \notin pool
    BY <1>3, <1>5, <1>6, <1>8, <2>4 DEF New
  <2> QED
    BY <2>1, <2>2, <2>3, <2>4
<1>9. PoolInv'
  BY <1>7, <1>8 DEF PoolInv
<1> QED
  BY <1>2, <1>9
-----------------------------------------------------------------------------
(* The finalized history.                                                     *)

LEMMA ExactFollows ==
    ASSUME NEW st, NEW u, SameHistory(u, st), ExactStore(st)
    PROVE  ExactStore(u)
  BY DEF SameHistory, ExactStore, CoversTo, finalized_history

LEMMA CoversLower ==
    ASSUME WsTypeOK, NEW st, NEW top \in Nat, NEW g \in Nat, g <= top, CoversTo(st, top)
    PROVE  CoversTo(st, g)
<1>1. \A j \in 1..Len(chain.fin) : chain.fin[j].height \in Nat
  BY FinParts DEF WsTypeOK
<1>2. \A j \in 1..Len(chain.fin) : chain.fin[j].height <= g => chain.fin[j].height <= top
  BY <1>1
<1>3. \A j \in 1..Len(chain.fin) : chain.fin[j].height > top => chain.fin[j].height > g
  BY <1>1
<1> QED
  BY <1>2, <1>3 DEF CoversTo

LEMMA Places ==
    ASSUME NEW c \in Nat, NEW m \in Nat, NEW L \in Nat, NEW n \in 0..m, n # 0, c # 0, c + m <= L
    PROVE  /\ n \in 1..m /\ c \in 1..L /\ c + 1 \in 1..L /\ c + n \in 1..L /\ 1 \in 1..m /\ c + 1 <= c + n
           /\ \A i \in 1..n : i \in 1..m /\ c + i \in 1..L
           /\ \A i \in 1..(c + n) : i \in 1..L
           /\ \A i \in 1..(c + n) : ~(i <= c) => i - c \in 1..n /\ c + (i - c) = i
  OBVIOUS

LEMMA Shifted ==
    ASSUME NEW s \in Nat, NEW n \in Nat, NEW k \in 1..n
    PROVE  s + k \in (s + 1)..(s + n) /\ (s + k) - s = k
  OBVIOUS

\* Records that follow the cursor.
LEMMA PutExact ==
    ASSUME WsTypeOK, ChainInv, NEW st, IsStore(st), SameHistory(st, disk), ExactStore(st),
           NEW part, IsHistory(part), part.mode = "append", NEW n \in 0..Len(part.records), n # 0,
           NEW u, u = PutRecords(st, part.records, n)
    PROVE  /\ IsInjective(u.hist)
           /\ \A i \in DOMAIN u.hist : i <= st.seq + n
           /\ disk.cursor \in 1..Len(chain.fin)
           /\ \A i \in 1..(disk.cursor + n) : i \in 1..Len(chain.fin) /\ chain.fin[i].id \in finalized_history(u)
           /\ CoversTo(u, chain.fin[disk.cursor].height)
<1> DEFINE c == disk.cursor
           rec == part.records
           L == Len(chain.fin)
           s == st.seq
           D == (s + 1)..(s + n)
<1>0. chain.fin \in Seq(Finals)
  BY DEF WsTypeOK
<1>1. L \in Nat /\ \A i \in 1..L : chain.fin[i].height \in Nat
  BY <1>0, FinParts
<1>2. rec \in Seq(Nat) /\ Len(rec) \in Nat /\ c + Len(rec) <= L /\ c # 0
      /\ \A i \in 1..Len(rec) : rec[i] = chain.fin[c + i].id /\ rec[i] \notin finalized_history(disk)
  BY DEF IsHistory
<1>3. c \in Nat /\ s \in Nat /\ DOMAIN st.hist \subseteq Nat /\ st.hist = disk.hist /\ st.cursor = c
  BY StoreFields DEF SameHistory, WsTypeOK, IsStore
<1>4. /\ n \in 1..Len(rec) /\ c \in 1..L /\ c + 1 \in 1..L /\ c + n \in 1..L /\ 1 \in 1..Len(rec) /\ c + 1 <= c + n
      /\ \A i \in 1..n : i \in 1..Len(rec) /\ c + i \in 1..L
      /\ \A i \in 1..(c + n) : i \in 1..L
      /\ \A i \in 1..(c + n) : ~(i <= c) => i - c \in 1..n /\ c + (i - c) = i
  <2>1. L \in Nat /\ Len(rec) \in Nat /\ c + Len(rec) <= L /\ c # 0 /\ c \in Nat /\ n \in 0..Len(rec)
    BY <1>1, <1>2, <1>3
  <2> HIDE DEF c, rec, L
  <2> QED
    BY <2>1, Places
<1>5. finalized_history(st) = finalized_history(disk)
  BY <1>3 DEF finalized_history
<1>6. IsInjective(st.hist) /\ CoversTo(st, chain.fin[c].height)
  BY <1>2, <1>3 DEF ExactStore
<1>7. \A i, j \in 1..L : i <= j => chain.fin[i].height <= chain.fin[j].height
  <2> SUFFICES ASSUME NEW i \in 1..L, NEW j \in 1..L, i <= j PROVE chain.fin[i].height <= chain.fin[j].height
    OBVIOUS
  <2>1. CASE i = j
    BY <1>1, <2>1
  <2>2. CASE i < j
    BY <2>2 DEF ChainInv
  <2> QED
    BY <1>1, <2>1, <2>2
<1>8. chain.fin[c + 1].id \notin finalized_history(st)
  BY <1>2, <1>4, <1>5
<1>9. chain.fin[c + 1].height > chain.fin[c].height
  <2>1. ~(chain.fin[c + 1].height <= chain.fin[c].height)
    BY <1>4, <1>6, <1>8 DEF CoversTo
  <2>2. chain.fin[c + 1].height \in Nat /\ chain.fin[c].height \in Nat
    BY <1>1, <1>4
  <2> QED
    BY <2>1, <2>2
<1>10. \A i \in DOMAIN st.hist : ~(i > s)
  <2> SUFFICES ASSUME \E i \in DOMAIN st.hist : i > st.seq PROVE FALSE
    OBVIOUS
  <2>1. PICK j \in 1..L : chain.fin[j].height > chain.fin[c].height /\ \A i \in 1..j : chain.fin[i].id \in finalized_history(st)
    BY <1>6 DEF CoversTo
  <2>2. ~(j <= c)
    <3>1. chain.fin[j].height \in Nat /\ chain.fin[c].height \in Nat
      BY <1>1, <1>4
    <3>2. j <= c => chain.fin[j].height <= chain.fin[c].height
      BY <1>4, <1>7
    <3> QED
      BY <2>1, <3>1, <3>2, SMTT(20)
  <2>3. c + 1 \in 1..j
    BY <1>1, <1>3, <2>2
  <2> QED
    BY <1>8, <2>1, <2>3
<1>11. /\ DOMAIN u.hist = DOMAIN st.hist \cup D
       /\ \A i \in D : u.hist[i] = rec[i - s] /\ i - s \in 1..n
       /\ \A i \in DOMAIN st.hist : i \notin D => u.hist[i] = st.hist[i]
  BY <1>2, PutFacts
<1>12. \A i \in D : i \in Nat /\ i > s /\ i <= s + n
  BY <1>3
<1>13. \A i \in DOMAIN st.hist : i \in Nat /\ i \notin D /\ i <= s /\ i <= s + n /\ u.hist[i] = st.hist[i]
  <2>1. \A i \in DOMAIN st.hist : i \in Nat /\ i <= s /\ i <= s + n
    BY <1>3, <1>10
  <2>2. \A i \in DOMAIN st.hist : i \notin D
    BY <1>10, <1>12
  <2> QED
    BY <1>11, <2>1, <2>2
<1>14. \A i \in DOMAIN u.hist : i <= s + n
  BY <1>11, <1>12, <1>13
<1>15. \A i \in 1..n : i \in 1..Len(rec) /\ c + i \in 1..L
  BY <1>4
<1>16. \A i \in D : u.hist[i] = chain.fin[c + (i - s)].id /\ u.hist[i] \notin finalized_history(st) /\ c + (i - s) \in 1..L
  BY <1>2, <1>5, <1>11, <1>15
<1>17. IsInjective(u.hist)
  <2> SUFFICES ASSUME NEW a \in DOMAIN u.hist, NEW b \in DOMAIN u.hist, u.hist[a] = u.hist[b] PROVE a = b
    BY DEF IsInjective
  <2>1. CASE a \in DOMAIN st.hist /\ b \in DOMAIN st.hist
    BY <1>6, <1>13, <2>1 DEF IsInjective
  <2>2. CASE a \in D /\ b \in D
    <3>1. chain.fin[c + (a - s)].id = chain.fin[c + (b - s)].id /\ c + (a - s) \in 1..L /\ c + (b - s) \in 1..L
      BY <1>16, <2>2
    <3>2. ~(c + (a - s) < c + (b - s)) /\ ~(c + (b - s) < c + (a - s))
      BY <3>1 DEF ChainInv
    <3> QED
      BY <1>3, <1>12, <2>2, <3>2, SMTT(20)
  <2>3. CASE a \in D /\ b \in DOMAIN st.hist
    <3>1. u.hist[b] \in finalized_history(st)
      BY <1>13, <2>3 DEF finalized_history, Range
    <3> QED
      BY <1>16, <2>3, <3>1
  <2>4. CASE b \in D /\ a \in DOMAIN st.hist
    <3>1. u.hist[a] \in finalized_history(st)
      BY <1>13, <2>4 DEF finalized_history, Range
    <3> QED
      BY <1>16, <2>4, <3>1
  <2> QED
    BY <1>11, <2>1, <2>2, <2>3, <2>4
<1>18. finalized_history(st) \subseteq finalized_history(u)
  BY <1>11, <1>13 DEF finalized_history, Range
<1>19. \A j \in 1..L : chain.fin[j].height <= chain.fin[c].height => chain.fin[j].id \in finalized_history(u)
  BY <1>6, <1>18 DEF CoversTo
<1>20. ASSUME NEW i \in 1..(c + n) PROVE i \in 1..L /\ chain.fin[i].id \in finalized_history(u)
  <2>1. i \in 1..L
    BY <1>4
  <2>2. CASE i <= c
    <3>1. chain.fin[i].height <= chain.fin[c].height
      BY <1>4, <1>7, <2>1, <2>2
    <3> QED
      BY <1>19, <2>1, <3>1
  <2>3. CASE ~(i <= c)
    <3>0. i - c \in 1..n /\ c + (i - c) = i
      BY <1>4, <2>3
    <3>1. i - c \in 1..n /\ s + (i - c) \in D /\ (s + (i - c)) - s = i - c /\ c + (i - c) = i
      <4>1. s \in Nat /\ n \in Nat
        BY <1>3
      <4> HIDE DEF s, c
      <4>2. s + (i - c) \in (s + 1)..(s + n) /\ (s + (i - c)) - s = i - c
        BY <3>0, <4>1, Shifted
      <4> QED
        BY <3>0, <4>2
    <3>2. u.hist[s + (i - c)] = rec[i - c]
      BY <1>11, <3>1
    <3>3. rec[i - c] = chain.fin[i].id
      BY <1>2, <1>15, <3>1
    <3>4. s + (i - c) \in DOMAIN u.hist
      BY <1>11, <3>1
    <3>5. u.hist[s + (i - c)] \in finalized_history(u)
      BY <3>4 DEF finalized_history, Range
    <3> QED
      BY <2>1, <3>2, <3>3, <3>5
  <2> QED
    BY <2>2, <2>3
<1>21. CoversTo(u, chain.fin[c].height)
  <2>1. chain.fin[c + n].height > chain.fin[c].height
    <3>1. chain.fin[c + 1].height <= chain.fin[c + n].height
      BY <1>4, <1>7
    <3>2. chain.fin[c + 1].height \in Nat /\ chain.fin[c + n].height \in Nat /\ chain.fin[c].height \in Nat
      BY <1>1, <1>4
    <3> QED
      BY <3>2, <1>9, <3>1, SMTT(20)
  <2>2. \A i \in 1..(c + n) : chain.fin[i].id \in finalized_history(u)
    BY <1>20
  <2> QED
    BY <1>4, <1>19, <2>1, <2>2 DEF CoversTo
<1> QED
  BY <1>4, <1>14, <1>17, <1>20, <1>21
\* A history whose counter stands behind its records.
LEMMA CoversAll ==
    ASSUME NEW u, NEW g, \A i \in DOMAIN u.hist : ~(i > u.seq),
           \A j \in 1..Len(chain.fin) : chain.fin[j].height <= g => chain.fin[j].id \in finalized_history(u)
    PROVE  CoversTo(u, g)
  BY DEF CoversTo

LEMMA AppendExact ==
    ASSUME WsTypeOK, ChainInv, NEW st, IsStore(st), SameHistory(st, disk), ExactStore(st),
           NEW part, IsHistory(part), part.mode = "append", Len(part.records) # 0,
           NEW u, u = append_finalized_history(st, part.records)
    PROVE  /\ IsInjective(u.hist)
           /\ CoversTo(u, chain.fin[disk.cursor].height) /\ CoversTo(u, chain.fin[part.cursor].height)
<1> DEFINE rec == part.records
           n == Len(rec)
           w == PutRecords(st, rec, n)
<1>1. rec \in Seq(Nat) /\ n \in Nat /\ n \in 0..n /\ n # 0 /\ part.cursor = disk.cursor + n /\ Whole(part.cursor) /\ part.cursor # 0
  <2>1. rec \in Seq(Nat) /\ part.cursor = disk.cursor + n /\ Whole(part.cursor) /\ n # 0
    BY DEF IsHistory
  <2>2. n \in Nat /\ disk.cursor \in Nat
    BY <2>1 DEF WsTypeOK, IsStore
  <2> QED
    BY <2>1, <2>2
<1>2. st.seq \in Nat /\ DOMAIN w.hist \subseteq Nat
  BY <1>1, PutFacts DEF IsStore
<1>3. /\ IsInjective(w.hist)
      /\ \A i \in DOMAIN w.hist : i <= st.seq + n
      /\ \A i \in 1..(disk.cursor + n) : i \in 1..Len(chain.fin) /\ chain.fin[i].id \in finalized_history(w)
      /\ CoversTo(w, chain.fin[disk.cursor].height)
  BY <1>1, PutExact
<1>4. u.seq = st.seq + n /\ u.hist = w.hist
  BY <1>1, AppendFacts
<1> HIDE DEF w, n
<1>5. finalized_history(u) = finalized_history(w)
  BY <1>4 DEF finalized_history
<1>6. \A i \in DOMAIN u.hist : ~(i > u.seq)
  BY <1>1, <1>2, <1>3, <1>4
<1>7. CoversTo(u, chain.fin[disk.cursor].height)
  BY <1>3, <1>5, <1>6, CoversAll DEF CoversTo
<1>8. CoversTo(u, chain.fin[part.cursor].height)
  <2> SUFFICES ASSUME NEW j \in 1..Len(chain.fin), chain.fin[j].height <= chain.fin[part.cursor].height
               PROVE  chain.fin[j].id \in finalized_history(u)
    BY <1>6, CoversAll
  <2>1. j <= part.cursor
    BY <1>1 DEF Whole
  <2>2. j \in 1..(disk.cursor + n)
    BY <1>1, <2>1 DEF WsTypeOK, IsStore
  <2> QED
    BY <1>3, <1>5, <2>2
<1> QED
  BY <1>3, <1>4, <1>7, <1>8

\* A history that is written anew.
LEMMA AnewExact ==
    ASSUME WsTypeOK, ChainInv, NEW st, IsStore(st), NEW part, IsHistory(part), part.mode = "replace",
           NEW n \in 0..Len(part.records), NEW u, u = PutRecords(Emptied(st), part.records, n)
    PROVE  /\ IsInjective(u.hist) /\ DOMAIN u.hist = 1..n
           /\ \A i \in 1..n : i \in 1..Len(chain.fin) /\ u.hist[i] = chain.fin[i].id
<1> DEFINE rec == part.records
           w == Emptied(st)
           L == Len(chain.fin)
<1>1. IsStore(w) /\ w.seq = 0 /\ DOMAIN w.hist = {}
  BY EmptiedFacts
<1> HIDE DEF w
<1>2. rec \in Seq(Nat) /\ part.cursor \in 0..L /\ Len(rec) = part.cursor /\ \A i \in 1..part.cursor : rec[i] = chain.fin[i].id
  BY DEF IsHistory
<1>3. L \in Nat
  BY FinParts DEF WsTypeOK
<1>4. /\ DOMAIN u.hist = DOMAIN w.hist \cup (w.seq + 1)..(w.seq + n)
      /\ \A i \in (w.seq + 1)..(w.seq + n) : u.hist[i] = rec[i - w.seq] /\ i - w.seq \in 1..n
  <2>1. u = PutRecords(w, rec, n) /\ n \in 0..Len(rec)
    BY DEF w
  <2> HIDE DEF rec
  <2>2. Recorded(u, w, rec, n)
    BY <1>1, <1>2, <2>1, PutRows
  <2> QED
    BY <2>2 DEF Recorded
<1>5. n \in Nat /\ n <= part.cursor /\ part.cursor \in Nat
  BY <1>2, <1>3
<1>6. (w.seq + 1)..(w.seq + n) = 1..n
  BY <1>1, <1>5
<1>7. DOMAIN u.hist = 1..n
  BY <1>1, <1>4, <1>6
<1>8. \A i \in 1..n : u.hist[i] = rec[i - 0] /\ i - 0 = i /\ i \in 1..part.cursor /\ i \in 1..L
  <2>1. \A i \in 1..n : i - 0 = i /\ i \in 1..part.cursor /\ i \in 1..L
    <3> HIDE DEF L
    <3> QED
      BY <1>2, <1>3, <1>5
  <2>2. \A i \in 1..n : u.hist[i] = rec[i - 0]
    BY <1>1, <1>4, <1>6
  <2> QED
    BY <2>1, <2>2
<1>9. \A i \in 1..n : i \in 1..L /\ u.hist[i] = chain.fin[i].id
  BY <1>2, <1>8
<1>10. IsInjective(u.hist)
  <2> SUFFICES ASSUME NEW a \in 1..n, NEW b \in 1..n, u.hist[a] = u.hist[b] PROVE a = b
    BY <1>7 DEF IsInjective
  <2>1. a \in 1..L /\ b \in 1..L /\ chain.fin[a].id = chain.fin[b].id
    BY <1>9
  <2>2. ~(a < b) /\ ~(b < a)
    BY <2>1 DEF ChainInv
  <2> QED
    BY <1>5, <2>2
<1> QED
  BY <1>7, <1>9, <1>10

LEMMA ReplaceExact ==
    ASSUME WsTypeOK, ChainInv, NEW st, IsStore(st), NEW part, IsHistory(part), part.mode = "replace",
           NEW u, u = replace_finalized_history(st, part.records)
    PROVE  IsInjective(u.hist) /\ (part.cursor # 0 => CoversTo(u, chain.fin[part.cursor].height))
<1> DEFINE rec == part.records
           e == Emptied(st)
           w == PutRecords(e, rec, Len(rec))
<1>1. IsStore(e) /\ e.seq = 0
  BY EmptiedFacts
<1>2. rec \in Seq(Nat) /\ Len(rec) = part.cursor /\ Whole(part.cursor) /\ part.cursor \in Nat /\ Len(rec) \in 0..Len(rec)
  BY DEF IsHistory
<1>3. /\ IsInjective(w.hist) /\ DOMAIN w.hist = 1..Len(rec)
      /\ \A i \in 1..Len(rec) : i \in 1..Len(chain.fin) /\ w.hist[i] = chain.fin[i].id
  BY <1>2, AnewExact
<1>4. u.hist = w.hist /\ u.seq = 0 + Len(rec)
  BY <1>1, <1>2, AppendFacts DEF replace_finalized_history
<1> HIDE DEF w, e
<1>5. \A i \in DOMAIN u.hist : ~(i > u.seq)
  BY <1>2, <1>3, <1>4
<1>6. ASSUME part.cursor # 0 PROVE CoversTo(u, chain.fin[part.cursor].height)
  <2> SUFFICES ASSUME NEW j \in 1..Len(chain.fin), chain.fin[j].height <= chain.fin[part.cursor].height
               PROVE  chain.fin[j].id \in finalized_history(u)
    BY <1>5, CoversAll
  <2>1. j <= part.cursor
    BY <1>2, <1>6 DEF Whole
  <2>2. j \in 1..Len(rec)
    BY <1>2, <2>1
  <2>3. j \in DOMAIN u.hist /\ u.hist[j] = chain.fin[j].id
    BY <1>3, <1>4, <2>2
  <2> QED
    BY <2>3 DEF finalized_history, Range
<1> QED
  BY <1>3, <1>4, <1>6

\* The history that a result leaves.
LEMMA HistoryStage ==
    ASSUME WsTypeOK, ChainInv, NEW st, IsStore(st), SameHistory(st, disk), ExactStore(disk),
           NEW res, IsResult(res), NEW part, part = res.history, NEW u, u = ApplyHistory(st, res)
    PROVE  /\ IsInjective(u.hist)
           /\ part.mode # "none" /\ part.cursor # 0 => CoversTo(u, chain.fin[part.cursor].height)
           /\ part.mode # "replace" /\ disk.cursor # 0 => CoversTo(u, chain.fin[disk.cursor].height)
<1>1. IsHistory(part) /\ part.mode \in {"replace", "append", "none"} /\ part.records \in Seq(Nat)
  BY DEF IsResult, IsHistory
<1>2. ExactStore(st)
  BY ExactFollows
<1>3. CASE part.mode = "replace"
  <2>1. u = replace_finalized_history(st, part.records)
    BY <1>3 DEF ApplyHistory
  <2> QED
    BY <1>1, <1>3, <2>1, ReplaceExact
<1>4. CASE part.mode = "append" /\ part.records # <<>>
  <2>1. u = append_finalized_history(st, part.records)
    BY <1>4 DEF ApplyHistory
  <2>2. Len(part.records) # 0
    BY <1>1, <1>4
  <2> QED
    BY <1>1, <1>2, <1>4, <2>1, <2>2, AppendExact
<1>5. CASE part.mode # "replace" /\ ~(part.mode = "append" /\ part.records # <<>>)
  <2>1. u = st /\ st.cursor = disk.cursor
    BY <1>5 DEF ApplyHistory, SameHistory
  <2>2. part.mode # "none" => part.cursor = disk.cursor
    <3> SUFFICES ASSUME part.mode = "append", part.records = <<>> PROVE part.cursor = disk.cursor
      BY <1>1, <1>5
    <3>1. part.cursor = disk.cursor + Len(part.records) /\ Len(part.records) = 0 /\ disk.cursor \in Nat
      BY <1>1 DEF IsHistory, WsTypeOK, IsStore
    <3> QED
      BY <3>1
  <2> QED
    BY <1>2, <2>1, <2>2 DEF ExactStore
<1> QED
  BY <1>1, <1>3, <1>4, <1>5
\* A place in a block that the history covers.
LEMMA LowerCursor ==
    ASSUME WsTypeOK, ChainInv, NEW st, NEW at \in 1..Len(chain.fin), CoversTo(st, chain.fin[at].height),
           NEW c \in 0..Cardinality(UpTo(chain.fin[at].height)), c # 0
    PROVE  CoversTo(st, chain.fin[c].height)
<1> DEFINE g == chain.fin[at].height
           m == Cardinality(UpTo(g))
<1>0. chain.fin \in Seq(Finals)
  BY DEF WsTypeOK
<1>1. g \in Nat /\ g \in Int
  BY <1>0, FinParts
<1>2. m \in Nat /\ m <= Len(chain.fin)
  BY <1>0, UpToFinite
<1>3. UpTo(g) = 1..m
  <2>1. \A i, j \in 1..Len(chain.fin) : i < j => chain.fin[i].height <= chain.fin[j].height
    BY DEF ChainInv
  <2> QED
    BY <1>0, <1>1, <2>1, UpToIsPrefix
<1> HIDE DEF m, g
<1>4. c \in 0..m /\ CoversTo(st, g)
  BY DEF m, g
<1>5. c \in 1..m
  BY <1>2, <1>4
<1>6. c \in UpTo(g)
  BY <1>3, <1>5, Zenon
<1>7. c \in 1..Len(chain.fin) /\ chain.fin[c].height <= g
  BY <1>0, <1>6, FinParts DEF UpTo
<1>8. chain.fin[c].height \in Nat
  BY <1>0, <1>7, FinParts
<1> QED
  BY <1>1, <1>4, <1>7, <1>8, CoversLower

\* The store behind a result: its cursor stands in the chain, and it is exact if the store was.
LEMMA AppliedExact ==
    ASSUME WsTypeOK, ChainInv, RequestsInv, disk.cursor <= Len(chain.fin), NEW res, IsResult(res),
           NEW u, u = Applied(disk, res)
    PROVE  u.cursor <= Len(chain.fin) /\ (ExactStore(disk) => ExactStore(u))
<1> DEFINE part == res.history
           s1 == ApplySnapshot(disk, res)
           s2 == ApplyHistory(s1, res)
           s3 == ApplyCursor(s2, res)
<1>1. SameBooks(s1) /\ SameHistory(s1, disk) /\ IsStore(s1)
  BY SnapshotFacts DEF SameHistory, SameBooks
<1>2. u = ApplyRemovals(s3, res.gone \cup res.settled, res.gone)
  BY DEF Applied
<1> HIDE DEF s1
<1>3. SameBooks(s2) /\ s2.cursor = disk.cursor
  BY <1>1, ApplyHistoryFacts DEF SameHistory
<1>4. ASSUME ExactStore(disk)
      PROVE  /\ IsInjective(s2.hist)
             /\ part.mode # "none" /\ part.cursor # 0 => CoversTo(s2, chain.fin[part.cursor].height)
             /\ part.mode # "replace" /\ disk.cursor # 0 => CoversTo(s2, chain.fin[disk.cursor].height)
  BY <1>1, <1>4, HistoryStage
<1> HIDE DEF s2
<1>5. /\ SameBooks(s3) /\ s3.hist = s2.hist /\ s3.seq = s2.seq
      /\ s3.cursor = IF part.mode = "none" THEN s2.cursor ELSE part.cursor
  BY <1>3, ApplyCursorFacts
<1> HIDE DEF s3
<1>6. \A id \in res.gone \cup res.settled : MayLeave(id)
  BY DEF IsResult
<1>7. u.hist = s3.hist /\ u.seq = s3.seq /\ u.cursor = s3.cursor
  BY <1>2, <1>5, <1>6, RemovalsFacts
<1>8. part.cursor \in 0..Len(chain.fin)
  BY DEF IsResult, IsHistory
<1> HIDE DEF part
<1>9. u.cursor <= Len(chain.fin)
  BY <1>3, <1>5, <1>7, <1>8
<1>10. ASSUME ExactStore(disk) PROVE ExactStore(u)
  <2>1. IsInjective(u.hist)
    BY <1>4, <1>5, <1>7, <1>10
  <2>2. ASSUME u.cursor # 0 PROVE CoversTo(s2, chain.fin[u.cursor].height)
    <3>1. CASE part.mode = "none"
      BY <1>3, <1>4, <1>5, <1>7, <1>10, <2>2, <3>1
    <3>2. CASE part.mode # "none"
      BY <1>4, <1>5, <1>7, <1>10, <2>2, <3>2
    <3> QED
      BY <3>1, <3>2
  <2>3. ASSUME NEW g, CoversTo(s2, g) PROVE CoversTo(u, g)
    BY <1>5, <1>7, <2>3 DEF CoversTo, finalized_history
  <2> QED
    BY <2>1, <2>2, <2>3 DEF ExactStore
<1> QED
  BY <1>9, <1>10

LEMMA PutNone ==
    ASSUME NEW st, IsStore(st), NEW records \in Seq(Nat), NEW u, u = PutRecords(st, records, 0)
    PROVE  SameHistory(u, st)
<1>1. 0 \in 0..Len(records) /\ st.seq \in Nat
  BY DEF IsStore
<1>2. /\ IsStore(u) /\ u.cursor = st.cursor /\ u.seq = st.seq
      /\ DOMAIN u.hist = DOMAIN st.hist \cup (st.seq + 1)..(st.seq + 0)
      /\ \A i \in DOMAIN st.hist : i \notin (st.seq + 1)..(st.seq + 0) => u.hist[i] = st.hist[i]
  BY <1>1, PutFacts
<1>3. (st.seq + 1)..(st.seq + 0) = {}
  BY <1>1
<1>4. u.hist \in [DOMAIN u.hist -> Nat] /\ st.hist \in [DOMAIN st.hist -> Nat]
  BY <1>2 DEF IsStore
<1>5. DOMAIN u.hist = DOMAIN st.hist /\ \A i \in DOMAIN st.hist : u.hist[i] = st.hist[i]
  BY <1>2, <1>3
<1>6. u.hist = st.hist
  BY <1>4, <1>5
<1> QED
  BY <1>2, <1>6 DEF SameHistory

\* What a kill leaves of the history, unless one with a cursor is written anew.
LEMMA HistoryCutExact ==
    ASSUME WsTypeOK, ChainInv, NEW st, SameBooks(st), SameHistory(st, disk), ExactStore(disk),
           NEW res, IsResult(res), NEW u \in HistoryCut(st, res), res.history.mode = "replace" => disk.cursor = 0
    PROVE  ExactStore(u)
<1> DEFINE part == res.history
           rec == part.records
<1>1. IsHistory(part) /\ rec \in Seq(Nat) /\ IsStore(st) /\ ExactStore(st) /\ st.cursor = disk.cursor
  BY ExactFollows DEF IsResult, IsHistory, SameBooks, SameHistory
<1>2. u.cursor = disk.cursor
  BY <1>1, HistoryCutFacts
<1>3. CASE part.mode = "replace"
  <2>1. SUFFICES IsInjective(u.hist)
    BY <1>2, <1>3 DEF ExactStore
  <2>2. \/ \E n : u = [st EXCEPT !.hist = Without(@, 1..n)]
        \/ u \in AppendCut(Emptied(st), rec)
    BY <1>3 DEF HistoryCut, ReplaceCut
  <2>3. CASE \E n : u = [st EXCEPT !.hist = Without(@, 1..n)]
    <3>1. PICK n : u = [st EXCEPT !.hist = Without(@, 1..n)]
      BY <2>3
    <3>2. u.hist = Without(st.hist, 1..n)
      BY <1>1, <3>1, ErasedFacts
    <3>3. DOMAIN u.hist \subseteq DOMAIN st.hist /\ \A i \in DOMAIN u.hist : u.hist[i] = st.hist[i]
      BY <3>2 DEF Without, Restrict
    <3> QED
      BY <1>1, <3>3 DEF ExactStore, IsInjective
  <2>4. CASE u \in AppendCut(Emptied(st), rec)
    <3>1. PICK n \in 0..Len(rec) : u = PutRecords(Emptied(st), rec, n)
      BY <2>4 DEF AppendCut
    <3> QED
      BY <1>1, <1>3, <3>1, AnewExact
  <2> QED
    BY <2>2, <2>3, <2>4
<1>4. CASE part.mode = "append"
  <2>1. PICK n \in 0..Len(rec) : u = PutRecords(st, rec, n)
    BY <1>4 DEF HistoryCut, AppendCut
  <2>2. CASE n = 0
    BY <1>1, <2>1, <2>2, PutNone, ExactFollows
  <2>3. CASE n # 0
    <3>1. IsInjective(u.hist) /\ CoversTo(u, chain.fin[disk.cursor].height)
      BY <1>1, <1>4, <2>1, <2>3, PutExact
    <3> QED
      BY <1>2, <3>1 DEF ExactStore
  <2> QED
    BY <2>2, <2>3
<1>5. CASE part.mode # "replace" /\ part.mode # "append"
  <2>1. u = st
    BY <1>5 DEF HistoryCut
  <2> QED
    BY <1>1, <2>1
<1> QED
  BY <1>3, <1>4, <1>5
\* What a kill leaves of a result.
LEMMA CutExact ==
    ASSUME WsTypeOK, ChainInv, RequestsInv, disk.cursor <= Len(chain.fin), NEW res, IsResult(res),
           NEW u \in ApplyCut(disk, res)
    PROVE  /\ u.cursor <= Len(chain.fin)
           /\ ExactStore(disk) /\ (res.history.mode = "replace" => disk.cursor = 0) => ExactStore(u)
<1> DEFINE part == res.history
           s1 == ApplySnapshot(disk, res)
           s2 == ApplyHistory(s1, res)
           s3 == ApplyCursor(s2, res)
           lost == res.gone \cup res.settled
           plain == ExactStore(disk) /\ (part.mode = "replace" => disk.cursor = 0)
<1>0. chain.fin \in Seq(Finals) /\ Len(chain.fin) \in Nat /\ disk.cursor \in Nat
  BY DEF WsTypeOK, IsStore
<1>1. SameBooks(s1) /\ SameHistory(s1, disk) /\ IsStore(s1)
  BY SnapshotFacts DEF SameHistory, SameBooks
<1>2. \/ u = disk \/ u \in HistoryCut(s1, res) \/ u = s2 \/ u \in CursorCut(s2, res)
      \/ \E p \in SUBSET lost : \E q : u = ApplyRemovals(s3, p, q)
  BY DEF ApplyCut
<1> HIDE DEF s1
<1>3. SameBooks(s2) /\ s2.cursor = disk.cursor
  BY <1>1, ApplyHistoryFacts DEF SameHistory
<1>4. ASSUME ExactStore(disk)
      PROVE  /\ IsInjective(s2.hist)
             /\ part.mode # "none" /\ part.cursor # 0 => CoversTo(s2, chain.fin[part.cursor].height)
             /\ part.mode # "replace" /\ disk.cursor # 0 => CoversTo(s2, chain.fin[disk.cursor].height)
  BY <1>1, <1>4, HistoryStage
<1> HIDE DEF s2
<1>5. /\ SameBooks(s3) /\ s3.hist = s2.hist /\ s3.seq = s2.seq
      /\ s3.cursor = IF part.mode = "none" THEN s2.cursor ELSE part.cursor
  BY <1>3, ApplyCursorFacts
<1> HIDE DEF s3
<1>6. \A id \in lost : MayLeave(id)
  BY DEF IsResult
<1>7. part.cursor \in 0..Len(chain.fin)
  BY DEF IsResult, IsHistory
<1>8. ASSUME ExactStore(disk), u.hist = s2.hist, u.seq = s2.seq,
             u.cursor # 0 => CoversTo(s2, chain.fin[u.cursor].height)
      PROVE  ExactStore(u)
  BY <1>4, <1>8 DEF ExactStore, CoversTo, finalized_history
<1>9. CASE u = disk
  BY <1>9
<1>10. CASE u \in HistoryCut(s1, res)
  <2>1. u.cursor = disk.cursor
    BY <1>1, <1>10, HistoryCutFacts DEF SameHistory
  <2> QED
    BY <1>1, <1>10, <2>1, HistoryCutExact
<1>11. CASE u = s2
  <2>1. ASSUME plain PROVE ExactStore(u)
    BY <1>3, <1>4, <1>8, <1>11, <2>1
  <2> QED
    BY <1>3, <1>11, <2>1
<1>12. CASE u \in CursorCut(s2, res)
  <2>1. /\ u.hist = s2.hist /\ u.seq = s2.seq
        /\ \/ u.cursor = 0
           \/ /\ s2.cursor # 0 /\ part.mode # "none" /\ part.cursor # 0
              /\ u.cursor \in 0..Cardinality(UpTo(chain.fin[part.cursor].height))
    BY <1>0, <1>3, <1>12, CursorCutFacts
  <2>2. u.cursor <= Len(chain.fin)
    <3> DEFINE m == Cardinality(UpTo(chain.fin[part.cursor].height))
    <3>1. m \in Nat /\ m <= Len(chain.fin)
      BY <1>0, UpToFinite
    <3> HIDE DEF m
    <3>2. u.cursor = 0 \/ u.cursor \in 0..m
      BY <2>1 DEF m
    <3> QED
      BY <1>0, <3>1, <3>2
  <2>3. ASSUME plain, u.cursor # 0 PROVE CoversTo(s2, chain.fin[u.cursor].height)
    <3>1. part.cursor \in 1..Len(chain.fin)
      BY <1>7, <2>1, <2>3
    <3>2. CoversTo(s2, chain.fin[part.cursor].height)
      BY <1>4, <2>1, <2>3
    <3> QED
      BY <2>1, <2>3, <3>1, <3>2, LowerCursor
  <2> QED
    BY <1>8, <2>1, <2>2, <2>3
<1>13. CASE \E p \in SUBSET lost : \E q : u = ApplyRemovals(s3, p, q)
  <2>0. PICK p \in SUBSET lost : \E q : u = ApplyRemovals(s3, p, q)
    BY <1>13
  <2>1. PICK q : u = ApplyRemovals(s3, p, q)
    BY <2>0
  <2>2. \A id \in p : MayLeave(id)
    BY <1>6
  <2>3. u.hist = s3.hist /\ u.seq = s3.seq /\ u.cursor = s3.cursor
    BY <1>5, <2>1, <2>2, RemovalsFacts
  <2> HIDE DEF part
  <2>4. u.cursor <= Len(chain.fin)
    BY <1>0, <1>3, <1>5, <1>7, <2>3
  <2>5. ASSUME ExactStore(disk), part.mode = "replace" => disk.cursor = 0, u.cursor # 0 PROVE CoversTo(s2, chain.fin[u.cursor].height)
    <3>1. CASE part.mode = "none"
      BY <1>3, <1>4, <1>5, <2>3, <2>5, <3>1
    <3>2. CASE part.mode # "none"
      BY <1>4, <1>5, <2>3, <2>5, <3>2
    <3> QED
      BY <3>1, <3>2
  <2> QED
    BY <1>5, <1>8, <2>3, <2>4, <2>5 DEF part
<1> QED
  BY <1>2, <1>9, <1>10, <1>11, <1>12, <1>13

-----------------------------------------------------------------------------
(* The cursor.                                                                *)

LEMMA CursorStays ==
    ASSUME CursorInv, UNCHANGED <<chain, tornRebuild>>, SameHistory(disk', disk)
    PROVE  CursorInv'
<1>1. ExactStore(disk) => ExactStore(disk')
  BY ExactFollows
<1>2. ExactStore(disk') <=> ExactStore(disk)'
  BY DEF ExactStore, CoversTo, finalized_history
<1> QED
  BY <1>1, <1>2 DEF CursorInv, SameHistory

LEMMA ApplyCursorInv ==
    ASSUME WsTypeOK, ChainInv, RequestsInv, CursorInv, apply_refresh_result
    PROVE  CursorInv'
<1>1. PICK r \in refreshes :
          /\ should_apply_refresh_result(r)
          /\ \E res \in Results(r) :
               \/ disk' = Applied(disk, res) /\ UNCHANGED tornRebuild
               \/ /\ disk' \in ApplyCut(disk, res)
                  /\ tornRebuild' = \/ tornRebuild
                                    \/ /\ res.history.mode = "replace" /\ disk.cursor # 0 /\ disk' # disk
                                       /\ <<disk'.hist, disk'.seq, disk'.cursor>>
                                            # LET done == Applied(disk, res) IN <<done.hist, done.seq, done.cursor>>
  BY ZenonT(20) DEF apply_refresh_result
<1>2. PICK res \in Results(r) :
          \/ disk' = Applied(disk, res) /\ UNCHANGED tornRebuild
          \/ /\ disk' \in ApplyCut(disk, res)
             /\ tornRebuild' = \/ tornRebuild
                               \/ /\ res.history.mode = "replace" /\ disk.cursor # 0 /\ disk' # disk
                                  /\ <<disk'.hist, disk'.seq, disk'.cursor>>
                                       # LET done == Applied(disk, res) IN <<done.hist, done.seq, done.cursor>>
  BY <1>1
<1>3. disk.cursor <= Len(chain.fin) /\ (tornRebuild \/ ExactStore(disk)) /\ UNCHANGED chain
  BY DEF CursorInv, apply_refresh_result
<1>4. IsResult(res)
  <2>1. r.fresh
    BY <1>1 DEF should_apply_refresh_result
  <2> QED
    BY <1>3, <2>1, ResultFacts
<1>5. ExactStore(disk') <=> ExactStore(disk)'
  BY <1>3 DEF ExactStore, CoversTo, finalized_history
<1>6. CASE disk' = Applied(disk, res) /\ UNCHANGED tornRebuild
  <2>1. disk'.cursor <= Len(chain.fin) /\ (ExactStore(disk) => ExactStore(disk'))
    BY <1>3, <1>4, <1>6, AppliedExact
  <2> QED
    BY <1>3, <1>5, <1>6, <2>1 DEF CursorInv
<1>7. CASE /\ disk' \in ApplyCut(disk, res)
           /\ tornRebuild' = \/ tornRebuild
                             \/ /\ res.history.mode = "replace" /\ disk.cursor # 0 /\ disk' # disk
                                /\ <<disk'.hist, disk'.seq, disk'.cursor>>
                                     # LET done == Applied(disk, res) IN <<done.hist, done.seq, done.cursor>>
  <2>1. /\ disk'.cursor <= Len(chain.fin)
        /\ ExactStore(disk) /\ (res.history.mode = "replace" => disk.cursor = 0) => ExactStore(disk')
    BY <1>3, <1>4, <1>7, CutExact
  <2>2. ASSUME ExactStore(disk), ~tornRebuild', res.history.mode = "replace", disk.cursor # 0
        PROVE  ExactStore(disk')
    <3> DEFINE done == Applied(disk, res)
    <3>1. ExactStore(done)
      BY <1>3, <1>4, <2>2, AppliedExact
    <3>2. disk' = disk \/ <<disk'.hist, disk'.seq, disk'.cursor>> = <<done.hist, done.seq, done.cursor>>
      BY <1>7, <2>2
    <3> HIDE DEF done
    <3>3. disk' = disk \/ SameHistory(disk', done)
      BY <3>2 DEF SameHistory
    <3> QED
      BY <2>2, <3>1, <3>3, ExactFollows
  <2>3. tornRebuild => tornRebuild'
    BY <1>7
  <2> QED
    BY <1>3, <1>5, <2>1, <2>2, <2>3 DEF CursorInv
<1> QED
  BY <1>2, <1>6, <1>7

LEMMA BlockCursor ==
    ASSUME WsTypeOK, PoolInv, ChainInv, CursorInv, FinalizeWalletBlock
    PROVE  CursorInv'
<1> DEFINE c == disk.cursor
           L == Len(chain.fin)
           M == Len(chain'.fin)
<1>1. /\ L \in Nat /\ M \in Nat /\ L <= M /\ chain.tip \in Nat
      /\ \A i \in 1..L : chain'.fin[i] = chain.fin[i]
      /\ \A i \in 1..M : i \in 1..L \/ chain'.fin[i].height = chain.tip + 1
  BY Extended, WindowParts DEF Enters, WsTypeOK
<1>2. UNCHANGED <<disk, tornRebuild>> /\ c \in Nat /\ c <= L
  BY DEF FinalizeWalletBlock, CursorInv, WsTypeOK, IsStore
<1>3. \A i \in 1..L : chain.fin[i].height \in Nat /\ chain.fin[i].height <= chain.tip
  BY FinParts DEF WsTypeOK, ChainInv
<1>4. c <= M
  BY <1>1, <1>2
<1>5. ASSUME ExactStore(disk) PROVE ExactStore(disk)'
  <2>1. ASSUME c # 0 PROVE CoversTo(disk, chain.fin[c].height)'
    <3>1. c \in 1..L
      BY <1>1, <1>2, <2>1
    <3>2. chain'.fin[c] = chain.fin[c] /\ CoversTo(disk, chain.fin[c].height)
      BY <1>1, <1>5, <2>1, <3>1 DEF ExactStore
    <3>3. ASSUME NEW j \in 1..M, chain'.fin[j].height <= chain.fin[c].height
          PROVE  chain'.fin[j].id \in finalized_history(disk)
      <4>1. j \in 1..L
        <5>1. ~(chain'.fin[j].height = chain.tip + 1)
          BY <1>1, <1>3, <3>1, <3>3, SMTT(20)
        <5> QED
          BY <1>1, <5>1
      <4> QED
        BY <1>1, <3>2, <3>3, <4>1 DEF CoversTo
    <3>4. ASSUME \E i \in DOMAIN disk.hist : i > disk.seq
          PROVE  \E j \in 1..M : /\ chain'.fin[j].height > chain.fin[c].height
                                 /\ \A i \in 1..j : chain'.fin[i].id \in finalized_history(disk)
      <4>1. PICK j \in 1..L : chain.fin[j].height > chain.fin[c].height /\ \A i \in 1..j : chain.fin[i].id \in finalized_history(disk)
        BY <3>2, <3>4 DEF CoversTo
      <4>2. j \in 1..M /\ \A i \in 1..j : i \in 1..L
        BY <1>1
      <4>3. chain'.fin[j] = chain.fin[j] /\ \A i \in 1..j : chain'.fin[i].id \in finalized_history(disk)
        BY <1>1, <4>1, <4>2
      <4> QED
        BY <4>1, <4>2, <4>3
    <3>5. finalized_history(disk)' = finalized_history(disk)
      BY <1>2 DEF finalized_history
    <3> QED
      BY <1>2, <3>2, <3>3, <3>4, <3>5 DEF CoversTo
  <2>2. IsInjective(disk.hist)'
    BY <1>2, <1>5 DEF ExactStore, IsInjective
  <2> QED
    BY <1>2, <2>1, <2>2 DEF ExactStore
<1> QED
  BY <1>2, <1>4, <1>5 DEF CursorInv
LEMMA ConfirmCursor ==
    ASSUME BooksInv, CursorInv, ConfirmSend
    PROVE  CursorInv'
<1>0. SUFFICES SameHistory(disk', disk)
  <2>1. UNCHANGED <<chain, tornRebuild>>
    <3>1. ASSUME NEW t, NEW known, Submitted(t, known) PROVE UNCHANGED <<chain, tornRebuild>>
      BY <3>1 DEF Submitted
    <3> QED
      BY <3>1, Zenon DEF ConfirmSend
  <2> QED
    BY <1>0, <2>1, CursorStays
<1>1. PICK tx \in Txs : window.dialog = <<tx>>
  BY WindowParts DEF ConfirmSend
<1>2. Planned(tx) /\ window.dialog[1] = tx /\ window.tip \in Nat
  BY <1>1, WindowParts DEF BooksInv, DialogInv
<1>3. ASSUME NEW t, Planned(t), NEW known \in Nat, Submitted(t, known) PROVE SameHistory(disk', disk)
  BY <1>3, SendGrows DEF Submitted, Grown
<1>4. CASE disk' = disk
  BY <1>4 DEF SameHistory
<1>5. CASE \E v \in Heights : \E again \in PlainPlans(v) : Submitted(again, v)
  <2>1. PICK v \in Heights : \E again \in PlainPlans(v) : Submitted(again, v)
    BY <1>5
  <2>2. PICK again \in PlainPlans(v) : Submitted(again, v)
    BY <2>1
  <2>3. nextId <= limits.ids /\ v \in Nat
    BY <1>2, WindowParts DEF Planned, Heights
  <2>4. Planned(again)
    BY <2>3, PlanFacts
  <2> QED
    BY <1>3, <2>2, <2>3, <2>4
<1>6. CASE disk' \in RecordCut(disk, tx, window.tip)
  BY <1>2, <1>6, CutGrows DEF Grown
<1> QED
  BY <1>2, <1>3, <1>4, <1>5, <1>6 DEF ConfirmSend

LEMMA CancelCursor ==
    ASSUME BooksInv, CursorInv, cancel_timed_send
    PROVE  CursorInv'
<1>1. PICK tx \in disk.timed : CancelUnanswered(tx) \/ CancelTaken(tx)
  BY CancelStep
<1>2. window.tip \in Nat /\ UNCHANGED <<chain, tornRebuild>>
  BY CancelStep, WindowParts
<1>3. CASE CancelUnanswered(tx)
  <2>1. SameHistory(disk', disk)
    BY <1>3 DEF CancelUnanswered, SameHistory
  <2> QED
    BY <1>2, <2>1, CursorStays
<1>4. CASE CancelTaken(tx)
  <2>1. disk' \in CancelCut(disk, tx, nextId, window.tip) \cup {RecordCancel(disk, tx, nextId, window.tip)}
    BY <1>4 DEF CancelTaken
  <2>2. Cancelled(disk', tx, nextId, window.tip)
    BY <1>2, <2>1, CancelFacts
  <2>3. SameHistory(disk', disk)
    BY <2>2 DEF Cancelled
  <2> QED
    BY <1>2, <2>3, CursorStays
<1> QED
  BY <1>1, <1>3, <1>4

-----------------------------------------------------------------------------
(* The inductive invariant.                                                   *)

LEMMA WalletInitially ==
    ASSUME WsInit
    PROVE  WalletInv
<1>1. chain.tip = 1 /\ chain.fin = <<>> /\ chain = [tip |-> 1, fin |-> <<>>] /\ Len(chain.fin) = 0
  BY DEF WsInit
<1>2. /\ disk = [snap |-> 0, hist |-> <<>>, seq |-> 0, cursor |-> 0, sent |-> {}, pend |-> <<>>, timed |-> {}]
      /\ disk.hist = <<>> /\ disk.pend = <<>> /\ disk.timed = {} /\ disk.cursor = 0
      /\ DOMAIN disk.hist = {} /\ DOMAIN disk.pend = {}
  BY DEF WsInit
<1>3. finalized_history(disk) = {} /\ FinalIds = {}
  BY <1>1, <1>2 DEF finalized_history, Range, FinalIds
<1>4. IsStore(disk)
  <2>1. disk.hist \in [DOMAIN disk.hist -> Nat] /\ disk.pend \in [DOMAIN disk.pend -> Holds]
    BY <1>2
  <2> QED
    BY <1>2, <2>1 DEF IsStore
<1>5. WindowOK(window) /\ window.dialog = <<>> /\ window.cancel = <<>>
  BY DEF WsInit, WindowOK, Opened
<1>6. \A r \in refreshes : IsRequest(r) /\ UpToDate(r)
  BY RequestFacts DEF WsInit, UpToDate
<1>7. WsTypeOK
  <2>1. chain \in [tip : Nat \ {0}, fin : Seq(Finals)]
    BY <1>1
  <2>2. IsFiniteSet(pool) /\ pool \subseteq Txs
    BY FS_EmptySet DEF WsInit
  <2> QED
    BY <1>4, <1>5, <1>6, <2>1, <2>2 DEF WsInit, WsTypeOK
<1>8. DialogInv
  BY <1>5 DEF DialogInv
<1>9. HoldsInv /\ KeptInv
  BY <1>2 DEF WsInit, HoldsInv, KeptInv
<1>10. RequestsInv
  BY <1>3, <1>6 DEF RequestsInv
<1>11. PoolInv /\ ChainInv
  BY <1>1 DEF WsInit, PoolInv, ChainInv
<1>12. CursorInv
  BY <1>1, <1>2 DEF CursorInv, ExactStore, IsInjective
<1> QED
  BY <1>7, <1>8, <1>9, <1>10, <1>11, <1>12 DEF WalletInv

LEMMA WalletStep ==
    ASSUME WalletInv, [WsNext /\ UNCHANGED limits]_wsVars
    PROVE  WalletInv'
<1>0. BooksInv /\ PoolInv /\ ChainInv /\ CursorInv /\ WsTypeOK /\ RequestsInv /\ disk.cursor <= Len(chain.fin)
  BY DEF WalletInv, BooksInv, CursorInv
<1>1. SUFFICES BooksInv' /\ PoolInv' /\ ChainInv' /\ CursorInv'
  BY DEF WalletInv, BooksInv
<1>2. ASSUME disk' = disk, UNCHANGED <<chain, pool, nextId, tornRebuild, limits>>
      PROVE  PoolInv' /\ ChainInv' /\ CursorInv'
  <2>1. SameHistory(disk', disk)
    BY <1>2 DEF SameHistory
  <2> QED
    BY <1>0, <1>2, <2>1, NamesStay, CursorStays
<1>3. CASE FinalizeWalletBlock /\ UNCHANGED limits
  BY <1>0, <1>3, BlockBooks, BlockChain, BlockCursor
<1>4. CASE poll_finalized_tip_status /\ UNCHANGED limits
  <2>1. disk' = disk /\ UNCHANGED <<chain, pool, nextId, tornRebuild, limits>>
    BY <1>4, Zenon DEF poll_finalized_tip_status
  <2> QED
    BY <1>0, <1>2, <1>4, <2>1, PollBooks
<1>5. CASE (Refresh \/ DropResult) /\ UNCHANGED limits
  BY <1>0, <1>2, <1>5, RefreshBooks DEF Refresh, DropResult
<1>6. CASE apply_refresh_result /\ UNCHANGED limits
  <2>1. PoolInv' /\ ChainInv'
    BY <1>0, <1>6, NamesStay DEF apply_refresh_result
  <2> QED
    BY <1>0, <1>6, <2>1, ApplyBooks, ApplyCursorInv
<1>7. CASE PlanSend /\ UNCHANGED limits
  BY <1>0, <1>2, <1>7, PlanBooks DEF PlanSend
<1>8. CASE ConfirmSend /\ UNCHANGED limits
  BY <1>0, <1>8, ConfirmBooks, ConfirmNames, ConfirmCursor
<1>a. CASE (ListTimedSends \/ ChooseTimedSend) /\ UNCHANGED limits
  <2>1. disk' = disk /\ UNCHANGED <<chain, pool, nextId, tornRebuild, limits>>
    BY <1>a, Zenon DEF ListTimedSends, ChooseTimedSend
  <2> QED
    BY <1>0, <1>2, <1>a, <2>1, ChooseBooks
<1>9. CASE cancel_timed_send /\ UNCHANGED limits
  BY <1>0, <1>9, CancelBooks, CancelNames, CancelCursor
<1>10. CASE StartWallet /\ UNCHANGED limits
  BY <1>0, <1>2, <1>10, StartBooks DEF StartWallet
<1>11. CASE UNCHANGED wsVars
  <2>1. BooksInv'
    BY <1>0, <1>11 DEF wsVars, BooksInv, WsTypeOK, DialogInv, Planned, HoldsInv, Apart, KeptInv, FinalIds,
                       RequestsInv, UpToDate, finalized_history
  <2> QED
    BY <1>0, <1>2, <1>11, <2>1 DEF wsVars
<1> QED
  BY <1>3, <1>4, <1>5, <1>6, <1>7, <1>8, <1>a, <1>9, <1>10, <1>11 DEF WsNext

LEMMA HoldsSettle ==
    ASSUME WalletInv
    PROVE  HeldUntilGivenUp
<1> DEFINE live == {k \in kept : k.id \notin FinalIds /\ chain.tip < k.dated + MinTipDelta}
<1>1. \A k \in live : k.id \in DOMAIN disk.pend /\ disk.pend[k.id].coins = k.coins /\ disk.pend[k.id].created = k.dated
  <2> SUFFICES ASSUME NEW k \in live
               PROVE  k.id \in DOMAIN disk.pend /\ disk.pend[k.id].coins = k.coins /\ disk.pend[k.id].created = k.dated
    OBVIOUS
  <2>1. k.id \in DOMAIN disk.pend /\ disk.pend[k.id] = [coins |-> k.coins, created |-> k.dated]
    BY DEF WalletInv, KeptInv
  <2> QED
    BY <2>1
<1>2. \A k \in live : k = [id |-> k.id, coins |-> k.coins, dated |-> k.dated]
  BY DEF WalletInv, WsTypeOK
<1> HIDE DEF live
<1>3. ASSUME NEW k \in live PROVE k.coins \subseteq pending_wallet_reserved_outpoints(disk)
  <2>1. k.id \in DOMAIN disk.pend /\ disk.pend[k.id].coins = k.coins
    BY <1>1, <1>3
  <2> QED
    BY <2>1 DEF pending_wallet_reserved_outpoints
<1>4. ASSUME NEW k \in live, NEW l \in live \ {k}
      PROVE  k.coins \cap l.coins = {} \/ {k.id, l.id} \cap unheld # {}
  <2>1. k.id \in DOMAIN disk.pend /\ l.id \in DOMAIN disk.pend /\ disk.pend[k.id].coins = k.coins /\ disk.pend[l.id].coins = l.coins
        /\ disk.pend[k.id].created = k.dated /\ disk.pend[l.id].created = l.dated
    BY <1>1
  <2>2. k.id # l.id
    <3> SUFFICES ASSUME k.id = l.id PROVE FALSE
      OBVIOUS
    <3>1. k.coins = l.coins /\ k.dated = l.dated
      BY <2>1
    <3>2. k = l
      BY <1>2, <3>1
    <3> QED
      BY <3>2
  <2> QED
    BY <2>1, <2>2 DEF WalletInv, HoldsInv, Apart
<1> QED
  BY <1>3, <1>4 DEF HeldUntilGivenUp, live

LEMMA CursorCovers ==
    ASSUME WalletInv
    PROVE  HistoryExact
<1> SUFFICES ASSUME ExactStore(disk), NEW i \in 1..disk.cursor PROVE chain.fin[i].id \in finalized_history(disk)
  BY DEF WalletInv, CursorInv, HistoryExact, ExactStore
<1>1. disk.cursor \in Nat /\ chain.fin \in Seq(Finals) /\ Len(chain.fin) \in Nat /\ disk.cursor <= Len(chain.fin)
  BY DEF WalletInv, WsTypeOK, IsStore, CursorInv
<1>2. i \in 1..Len(chain.fin) /\ disk.cursor \in 1..Len(chain.fin) /\ (i < disk.cursor \/ i = disk.cursor) /\ disk.cursor # 0
  BY <1>1
<1>3. chain.fin[i].height <= chain.fin[disk.cursor].height
  <2>1. chain.fin[i].height \in Nat
    BY <1>1, <1>2, FinParts
  <2>2. CASE i < disk.cursor
    BY <1>2, <2>2 DEF WalletInv, ChainInv
  <2>3. CASE i = disk.cursor
    BY <2>1, <2>3
  <2> QED
    BY <1>2, <2>2, <2>3
<1> QED
  BY <1>2, <1>3 DEF ExactStore, CoversTo

\* The wallet's books stay in order, whatever refresh, send, cancellation, block or kill comes
\* next: the invariant that the two theorems below rest on.
THEOREM WalletInvariant == WsSpec => []WalletInv
<1>1. WsInit => WalletInv
  BY WalletInitially
<1>2. WalletInv /\ [WsNext /\ UNCHANGED limits]_wsVars => WalletInv'
  BY WalletStep
<1> QED
  BY <1>1, <1>2, PTL DEF WsSpec

\* A send that submit_send or cancel_timed_send recorded keeps its coins reserved until it is
\* final or old enough to be given up, and two such sends never spend one coin, for any coins,
\* refreshes under way, late servers and kills between two writes of the store.
THEOREM CoinsReserved == WsSpec => []HeldUntilGivenUp
<1>1. WalletInv => HeldUntilGivenUp
  BY HoldsSettle
<1> QED
  BY <1>1, WalletInvariant, PTL

\* The stored history has what its cursor has passed, each transaction once, for any blocks,
\* answers and kills in apply_refresh_result, but for one while a history with a cursor is
\* written anew.
THEOREM HistoryIsExact == WsSpec => []HistoryExact
<1>1. WalletInv => HistoryExact
  BY CursorCovers
<1> QED
  BY <1>1, WalletInvariant, PTL
================================================================================
