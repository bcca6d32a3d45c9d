------------------------------ MODULE ChainProofs ------------------------------
(* Theorems about the components that finalized blocks drive, and about timed   *)
(* release and the memory pool, which share their lemmas on sums.               *)
EXTENDS AvailabilityOperators, CommitteeCheckpoints, MonetarySettlement, AdaptiveControls, TimeSignatures,
        TimedRelease, Mempool, FiniteSetTheorems, WellFoundedInduction, TLAPS

-------------------------------------------------------------------------------
(* Time signatures: an honest signer signs only what is final at its node, and   *)
(* no node is ahead of the chain.                                                *)
SigningInv ==
    /\ chainTip \in Nat
    /\ nodeTip \in [Signers -> Nat] /\ \A n \in Signers : nodeTip[n] <= chainTip
    /\ \A s \in sent : s[2] \in EarlySigners \/ (s[1] \in Nat /\ s[1] <= chainTip)

LEMMA SigningStep ==
    ASSUME SigningInv, [TsNext]_tsVars
    PROVE  SigningInv'
<1>1. ASSUME NEW n \in HonestSigners, Turn(n)
      PROVE  SigningInv'
  <2>1. n \in Signers /\ nodeTip[n] \in Nat /\ chainTip \in Nat /\ nodeTip[n] <= chainTip
    BY DEF SigningInv, HonestSigners
  <2>2. UNCHANGED <<chainTip, nodeTip>>
    BY <1>1 DEF Turn
  <2>3. ASSUME NEW s \in sent'
        PROVE  s \in sent \/ (s[1] \in Nat /\ s[1] <= chainTip)
    <3>1. CASE s \in sent
      BY <3>1
    <3>2. CASE s = <<nodeTip[n], n>>
      BY <2>1, <3>2
    <3>3. ASSUME NEW o \in pending_long_openings(n), s = <<o.unlock, n>>
          PROVE  s[1] \in Nat /\ s[1] <= chainTip
      <4>1. o.unlock < nodeTip[n] + 1 /\ o.unlock \in Nat
        BY <3>3, TimeSignaturesAssumption DEF pending_long_openings
      <4> QED
        BY <2>1, <3>3, <4>1
    <3>4. sent' = sent \cup (IF nodeTip[n] > own[n] /\ n \in SignersOf[nodeTip[n]] THEN {<<nodeTip[n], n>>} ELSE {})
                       \cup {<<o.unlock, n>> : o \in {o \in pending_long_openings(n) : n \in o.keys}}
      BY <1>1, Zenon DEF Turn, HeightToSign
    <3> QED
      BY <3>2, <3>3, <3>4
  <2> QED
    BY <2>2, <2>3 DEF SigningInv
<1>2. ASSUME NEW n \in HonestSigners, BlockBy(n)
      PROVE  SigningInv'
  BY <1>2 DEF BlockBy, SigningInv
<1>3. ASSUME NEW n \in HonestSigners, FollowChain(n)
      PROVE  SigningInv'
  BY <1>3 DEF FollowChain, SigningInv, HonestSigners
<1>4. ASSUME NEW n \in HonestSigners, RestartSigner(n)
      PROVE  SigningInv'
  BY <1>4 DEF RestartSigner, SigningInv
<1>5. ASSUME NEW n \in HonestSigners, NEW s \in sent, handle_time_signature(n, s[1], s[2])
      PROVE  SigningInv'
  BY <1>5 DEF handle_time_signature, SigningInv
<1>6. CASE UNCHANGED tsVars
  BY <1>6 DEF tsVars, SigningInv
<1> QED
  BY <1>1, <1>2, <1>3, <1>4, <1>5, <1>6 DEF TsNext

\* The signatures of a height that is not final are those of the early signers.
LEMMA EarlyOnly ==
    ASSUME SigningInv
    PROVE  SecretUntilFinal
<1> SUFFICES ASSUME NEW due \in (chainTip + 1)..FinalHeights,
                    NEW keys \in {SignersOf[due]} \cup {o.keys : o \in {p \in Openings : p.unlock = due}}
             PROVE  Cardinality({v \in keys : <<due, v>> \in sent}) < time_signature_threshold(keys)
  BY DEF SecretUntilFinal
<1>1. chainTip \in Nat /\ FinalHeights \in Nat /\ due \in 1..FinalHeights /\ due > chainTip
  BY TimeSignaturesAssumption DEF SigningInv
<1>2. keys \in {SignersOf[h] : h \in 1..FinalHeights} \cup {o.keys : o \in Openings}
  BY <1>1
<1>3. keys \subseteq Signers /\ Cardinality(keys \cap EarlySigners) < time_signature_threshold(keys)
  BY <1>2, TimeSignaturesAssumption
<1>4. IsFiniteSet(keys \cap EarlySigners) /\ IsFiniteSet(keys)
  BY <1>3, FS_Subset, TimeSignaturesAssumption
<1>5. {v \in keys : <<due, v>> \in sent} \subseteq keys \cap EarlySigners
  BY <1>1 DEF SigningInv
<1>6. /\ Cardinality({v \in keys : <<due, v>> \in sent}) <= Cardinality(keys \cap EarlySigners)
      /\ Cardinality({v \in keys : <<due, v>> \in sent}) \in Nat
  BY <1>4, <1>5, FS_Subset, FS_CardinalityType
<1>7. time_signature_threshold(keys) \in Nat /\ Cardinality(keys \cap EarlySigners) \in Nat
  BY <1>4, FS_CardinalityType DEF time_signature_threshold, Within!quorum_threshold
<1> QED
  BY <1>3, <1>6, <1>7

\* Nothing opens early: before a height is final no key set's quorum has signed it, for every
\* number of signers, heights, locks and restarts, as long as the early signers are in none of
\* the key sets a quorum.
THEOREM NothingOpensEarly == TsSpec => []SecretUntilFinal
<1>1. TsInit => SigningInv
  BY TimeSignaturesAssumption DEF TsInit, SigningInv
<1>2. SigningInv /\ [TsNext]_tsVars => SigningInv'
  BY SigningStep
<1>3. SigningInv => SecretUntilFinal
  BY EarlyOnly
<1> QED
  BY <1>1, <1>2, <1>3, PTL DEF TsSpec
-------------------------------------------------------------------------------
(* Availability: an operator counts only after its warm-up.                      *)

\* Induction over the numbers, for a set of them.
LEMMA Counting ==
    ASSUME NEW S, 0 \in S, \A n \in S : n \in Nat => n + 1 \in S
    PROVE  Nat \subseteq S
<1> SUFFICES ASSUME NEW T, T = Nat \ S, T # {}
             PROVE  FALSE
  OBVIOUS
<1>0. T \subseteq Nat
  OBVIOUS
<1>1. PICK x \in T : \A y \in T : ~(<<y, x>> \in OpToRel(<, Nat))
  BY <1>0, NatLessThanWellFounded, WFMin
<1>2. \A y \in T : ~(y < x)
  BY <1>0, <1>1 DEF OpToRel
<1>3. x \in Nat /\ x # 0 /\ x - 1 \in Nat /\ x - 1 < x
  OBVIOUS
<1>4. PICK w \in Nat : w = x - 1
  BY <1>3
<1>5. w \in S /\ w + 1 = x
  BY <1>2, <1>3, <1>4
<1> QED
  BY <1>5

\* It has served: what it takes to leave WARMUP.
Served(s) == s.successful_audits >= MinAudits /\ s.warmup_epochs >= WarmupEpochs
Earned(s) == s \in OperatorState /\ (s.status # "WARMUP" => s.was_ever_active /\ Served(s))
AllEarned(ops) == \A o \in DOMAIN ops : Earned(ops[o])

LEMMA ActivateEarned ==
    ASSUME NEW s \in OperatorState, Served(s)
    PROVE  Earned(Activate(s)) /\ Activate(s).bonded = s.bonded
<1>1. PICK b \in BOOLEAN : b = TRUE
  OBVIOUS
<1>2. PICK t : t = [s EXCEPT !.status = "ACTIVE", !.was_ever_active = b, !.recovery = 0]
  OBVIOUS
<1>3. Activate(s) = t
  BY <1>1, <1>2, Zenon DEF Activate
<1>4. /\ t \in OperatorState /\ t.was_ever_active = b /\ t.bonded = s.bonded
      /\ t.successful_audits = s.successful_audits /\ t.warmup_epochs = s.warmup_epochs
  BY <1>2 DEF OperatorState
<1>5. t.was_ever_active /\ Served(t)
  BY <1>1, <1>4 DEF Served
<1> QED
  BY <1>3, <1>4, <1>5 DEF Earned

LEMMA StatusEarned ==
    ASSUME NEW s, Earned(s), NEW threshold
    PROVE  Earned(update_operator_status(s, threshold)) /\ update_operator_status(s, threshold).bonded = s.bonded
<1> DEFINE u == update_operator_status(s, threshold)
<1>0. s \in OperatorState
  BY DEF Earned
<1>1. CASE s.status = "WARMUP" /\ warmup_complete(s)
  <2>1. u = Activate(s) /\ Served(s)
    BY <1>1 DEF update_operator_status, warmup_complete, Served
  <2> QED
    BY <1>0, <2>1, ActivateEarned
<1>2. CASE ~(s.status = "WARMUP" /\ warmup_complete(s)) /\ recovered(s, threshold)
  <2>1. PICK t : t = Activate(s)
    OBVIOUS
  <2>2. PICK x : x = IF s.score >= EligibleScore THEN s.score ELSE EligibleScore
    OBVIOUS
  <2>3. u = [t EXCEPT !.score = x]
    BY <1>2, <2>1, <2>2 DEF update_operator_status
  <2>4. Served(s)
    BY <1>2 DEF recovered, Earned
  <2>5. Earned(t) /\ t.bonded = s.bonded
    BY <1>0, <2>1, <2>4, ActivateEarned
  <2>6. x \in Nat /\ t \in OperatorState
    BY <1>0, <2>2, <2>5, AvailabilityAssumption DEF Earned, OperatorState
  <2>7. /\ u \in OperatorState /\ u.status = t.status /\ u.was_ever_active = t.was_ever_active
        /\ u.successful_audits = t.successful_audits /\ u.warmup_epochs = t.warmup_epochs
        /\ u.bonded = t.bonded
    BY <2>3, <2>6 DEF OperatorState
  <2> QED
    BY <2>5, <2>7 DEF Earned, Served
<1>3. CASE /\ ~(s.status = "WARMUP" /\ warmup_complete(s)) /\ ~recovered(s, threshold)
           /\ s.status = "PROBATION" /\ s.score >= EligibleScore /\ s.bonded
  <2>1. u = Activate(s) /\ Served(s)
    BY <1>3 DEF update_operator_status, Earned
  <2> QED
    BY <1>0, <2>1, ActivateEarned
<1>4. CASE /\ ~(s.status = "WARMUP" /\ warmup_complete(s)) /\ ~recovered(s, threshold)
           /\ ~(s.status = "PROBATION" /\ s.score >= EligibleScore /\ s.bonded)
           /\ s.status = "ACTIVE" /\ (s.score < EligibleScore \/ ~s.bonded)
  <2>1. u = [s EXCEPT !.status = "PROBATION", !.recovery = 0]
    BY <1>4 DEF update_operator_status
  <2> HIDE DEF u
  <2>2. /\ u \in OperatorState /\ u.was_ever_active = s.was_ever_active
        /\ u.successful_audits = s.successful_audits /\ u.warmup_epochs = s.warmup_epochs
        /\ u.bonded = s.bonded
    BY <1>0, <2>1 DEF OperatorState
  <2> USE DEF u
  <2> QED
    BY <1>4, <2>2 DEF Earned, Served
<1>5. CASE /\ ~(s.status = "WARMUP" /\ warmup_complete(s)) /\ ~recovered(s, threshold)
           /\ ~(s.status = "PROBATION" /\ s.score >= EligibleScore /\ s.bonded)
           /\ ~(s.status = "ACTIVE" /\ (s.score < EligibleScore \/ ~s.bonded))
  <2>1. u = s
    BY <1>5 DEF update_operator_status
  <2> QED
    BY <2>1
<1> QED
  BY <1>1, <1>2, <1>3, <1>4, <1>5

LEMMA AuditEarned ==
    ASSUME NEW s, Earned(s), NEW count \in Nat, NEW threshold
    PROVE  /\ Earned(apply_epoch_audit_outcomes(s, count, threshold))
           /\ apply_epoch_audit_outcomes(s, count, threshold).bonded = s.bonded
<1>2. PICK outcomes : outcomes = live_epoch_audit_outcomes(count, s.status = "PROBATION" /\ s.was_ever_active)
  OBVIOUS
<1>3. outcomes \in Nat
  BY <1>2, AvailabilityAssumption DEF live_epoch_audit_outcomes
<1>4. PICK score : score = (s.score * AlphaPercent) \div 100 + outcomes
  OBVIOUS
<1>5. PICK recovery : recovery = IF (s.status = "PROBATION" /\ s.was_ever_active) /\ s.bonded
                                 THEN IF outcomes > 0 THEN s.recovery + 1 ELSE 0
                                 ELSE IF s.status # "ACTIVE" THEN 0 ELSE s.recovery
  OBVIOUS
<1>1. PICK audits, epochs : audits = s.successful_audits + outcomes /\ epochs = s.warmup_epochs + 1
  OBVIOUS
<1>6. PICK a : a = [s EXCEPT !.score = score, !.successful_audits = audits,
                             !.warmup_epochs = epochs, !.retained = count, !.recovery = recovery]
  OBVIOUS
<1>7. apply_epoch_audit_outcomes(s, count, threshold) = update_operator_status(a, threshold)
  BY <1>1, <1>2, <1>4, <1>5, <1>6, ZenonT(40) DEF apply_epoch_audit_outcomes
<1>8. s \in OperatorState /\ s.score \in Nat /\ s.successful_audits \in Nat /\ s.warmup_epochs \in Nat
      /\ s.recovery \in Nat
  BY DEF Earned, OperatorState
<1>9. score \in Nat
  <2>1. s.score * AlphaPercent \in Nat
    BY <1>8, AvailabilityAssumption
  <2>2. \A x \in Nat : x \div 100 \in Nat
    OBVIOUS
  <2> QED
    BY <1>3, <1>4, <2>1, <2>2
<1>10. recovery \in Nat
  BY <1>5, <1>8
<1>11. /\ a \in OperatorState /\ a.status = s.status /\ a.was_ever_active = s.was_ever_active
       /\ a.bonded = s.bonded /\ a.successful_audits = audits /\ a.warmup_epochs = epochs
  <2>1. audits \in Nat /\ epochs \in Nat
    BY <1>1, <1>3, <1>8
  <2> QED
    BY <1>6, <1>8, <1>9, <1>10, <2>1 DEF OperatorState
<1>12. Served(s) => Served(a)
  BY <1>1, <1>3, <1>8, <1>11, AvailabilityAssumption DEF Served
<1>13. Earned(a)
  BY <1>11, <1>12 DEF Earned
<1> QED
  BY <1>7, <1>11, <1>13, StatusEarned
LEMMA NewIsEarned == Earned(NewOperator)
<1>1. PICK b \in BOOLEAN : b = FALSE
  OBVIOUS
<1>2. PICK n : n = [ status |-> "WARMUP", bonded |-> b, score |-> 0, successful_audits |-> 0, warmup_epochs |-> 0,
                     retained |-> 0, was_ever_active |-> b, recovery |-> 0 ]
  OBVIOUS
<1>3. NewOperator = n
  BY <1>1, <1>2, Zenon DEF NewOperator
<1>4. n \in OperatorState /\ n.status = "WARMUP"
  BY <1>2 DEF OperatorState
<1> QED
  BY <1>3, <1>4 DEF Earned

LEMMA BondEarned ==
    ASSUME NEW s, Earned(s), NEW bond \in BOOLEAN, NEW t, t = [s EXCEPT !.bonded = bond]
    PROVE  Earned(t) /\ t.bonded = bond
<1>1. s \in OperatorState
  BY DEF Earned
<1>2. /\ t \in OperatorState /\ t.status = s.status /\ t.was_ever_active = s.was_ever_active
      /\ t.successful_audits = s.successful_audits /\ t.warmup_epochs = s.warmup_epochs
      /\ t.bonded = bond
  BY <1>1 DEF OperatorState
<1> QED
  BY <1>2 DEF Earned, Served

\* A registry: its operators, and whether the bond of each is enough.
Bonds(registry) == \A o \in DOMAIN registry : registry[o] \in BOOLEAN

\* Every registered operator, audited once, with the bond of the registry.
Refreshed(ops, registry) ==
    /\ DOMAIN ops = DOMAIN registry
    /\ \A o \in DOMAIN ops : Earned(ops[o]) /\ ops[o].bonded = registry[o]

LEMMA RefreshEarned ==
    ASSUME NEW ops, AllEarned(ops), NEW registry, Bonds(registry), NEW holders, IsFiniteSet(DOMAIN holders), NEW i
    PROVE  Refreshed(refresh_live_availability_state(ops, registry, holders, i), registry)
<1> DEFINE new == refresh_live_availability_state(ops, registry, holders, i)
           entry(o) == with_current_bond(ops, registry)[o]
           count(o) == assigned_prefix_count(holders, i, o)
           threshold == probation_recovery_threshold_epochs(Cardinality(DOMAIN registry))
<1>1. new = [o \in DOMAIN registry |-> apply_epoch_audit_outcomes(entry(o), count(o), threshold)]
  BY Zenon DEF refresh_live_availability_state
<1>2. ASSUME NEW o \in DOMAIN registry
      PROVE  Earned(entry(o)) /\ entry(o).bonded = registry[o]
  <2>1. PICK s : s = IF o \in DOMAIN ops THEN ops[o] ELSE NewOperator
    OBVIOUS
  <2>2. Earned(s)
    BY <2>1, NewIsEarned DEF AllEarned
  <2>3. entry(o) = [s EXCEPT !.bonded = registry[o]]
    BY <2>1 DEF with_current_bond
  <2>4. registry[o] \in BOOLEAN
    BY DEF Bonds
  <2> HIDE DEF entry
  <2> QED
    BY <2>2, <2>3, <2>4, BondEarned
<1>3. ASSUME NEW o
      PROVE  count(o) \in Nat
  <2>1. {x \in DOMAIN holders : x[1] = i /\ o \in holders[x]} \subseteq DOMAIN holders
    OBVIOUS
  <2>2. IsFiniteSet({x \in DOMAIN holders : x[1] = i /\ o \in holders[x]})
    BY <2>1, FS_Subset
  <2> QED
    BY <2>2, FS_CardinalityType DEF assigned_prefix_count
<1> HIDE DEF entry, count, threshold, new
<1>4. ASSUME NEW o \in DOMAIN registry
      PROVE  Earned(new[o]) /\ new[o].bonded = registry[o]
  <2>1. new[o] = apply_epoch_audit_outcomes(entry(o), count(o), threshold)
    BY <1>1
  <2> QED
    BY <1>2, <1>3, <2>1, AuditEarned
<1>5. DOMAIN new = DOMAIN registry
  BY <1>1
<1> QED
  BY <1>4, <1>5 DEF Refreshed, new

\* The iterations of the loop, one after the other.
Unrolled(ops, registry, holders, n) ==
    CHOOSE step : step = [i \in 0..n |-> IF i = 0 THEN ops
                                         ELSE refresh_live_availability_state(step[i - 1], registry, holders, i)]

LEMMA LoopRuns ==
    ASSUME NEW ops, NEW registry, NEW holders, NEW n \in Nat, NEW loop, loop = Unrolled(ops, registry, holders, n)
    PROVE  loop = [i \in 0..n |-> IF i = 0 THEN ops
                                  ELSE refresh_live_availability_state(loop[i - 1], registry, holders, i)]
<1> DEFINE Iterate(before, i) == refresh_live_availability_state(before, registry, holders, i)
           Runs(step, k) == step = [i \in 0..k |-> IF i = 0 THEN ops ELSE Iterate(step[i - 1], i)]
           S == {k \in Nat : \E step : Runs(step, k)}
<1> HIDE DEF Iterate
<1>1. 0 \in S
  <2>1. Runs([i \in 0..0 |-> ops], 0)
    OBVIOUS
  <2> QED
    BY <2>1
<1>2. ASSUME NEW k \in S, k \in Nat
      PROVE  k + 1 \in S
  <2>1. PICK step : Runs(step, k)
    BY <1>2
  <2> DEFINE longer == [i \in 0..(k + 1) |-> IF i = k + 1 THEN Iterate(step[k], k + 1) ELSE step[i]]
  <2>2. \A i \in 0..k : longer[i] = step[i]
    BY <1>2
  <2>3. longer[k + 1] = Iterate(step[k], k + 1)
    BY <1>2
  <2>4. ASSUME NEW i \in 0..(k + 1)
        PROVE  longer[i] = IF i = 0 THEN ops ELSE Iterate(longer[i - 1], i)
    <3>1. CASE i = k + 1
      <4>1. i # 0 /\ i - 1 = k /\ k \in 0..k
        BY <1>2, <3>1
      <4> QED
        BY <2>2, <2>3, <3>1, <4>1
    <3>2. CASE i # k + 1
      <4>1. i \in 0..k
        BY <1>2, <3>2
      <4>2. step[i] = IF i = 0 THEN ops ELSE Iterate(step[i - 1], i)
        BY <2>1, <4>1
      <4>3. i # 0 => i - 1 \in 0..k
        BY <1>2, <4>1
      <4> QED
        BY <2>2, <4>1, <4>2, <4>3
    <3> QED
      BY <3>1, <3>2
  <2>5. longer = [i \in 0..(k + 1) |-> longer[i]]
    OBVIOUS
  <2> HIDE DEF longer
  <2>6. Runs(longer, k + 1)
    BY <2>4, <2>5
  <2> QED
    BY <1>2, <2>6
<1>3. n \in S
  BY <1>1, <1>2, Counting
<1>4. \E step : Runs(step, n)
  BY <1>3
<1> QED
  BY <1>4, Zenon DEF Unrolled, Iterate

LEMMA LoopEarned ==
    ASSUME NEW ops, AllEarned(ops), NEW registry, Bonds(registry), NEW holders, IsFiniteSet(DOMAIN holders), NEW n \in Nat
    PROVE  LET new == advance_live_availability_epoch(ops, registry, holders, n)
           IN  /\ n = 0 => new = ops
               /\ n # 0 => Refreshed(new, registry)
<1>1. PICK step : step = Unrolled(ops, registry, holders, n)
  OBVIOUS
<1>2. step = [i \in 0..n |-> IF i = 0 THEN ops
                             ELSE refresh_live_availability_state(step[i - 1], registry, holders, i)]
  BY <1>1, LoopRuns
<1>3. advance_live_availability_epoch(ops, registry, holders, n) = step[n]
  BY <1>1, Zenon DEF advance_live_availability_epoch, Unrolled
<1> DEFINE S == {k \in Nat : k <= n => AllEarned(step[k])}
<1>4. step[0] = ops
  BY <1>2
<1>5. ASSUME NEW i \in 1..n
      PROVE  step[i] = refresh_live_availability_state(step[i - 1], registry, holders, i)
  BY <1>2
<1>6. ASSUME NEW i \in 1..n, AllEarned(step[i - 1])
      PROVE  Refreshed(step[i], registry)
  <2>1. PICK before : before = step[i - 1]
    OBVIOUS
  <2>2. step[i] = refresh_live_availability_state(before, registry, holders, i)
    BY <1>5, <2>1
  <2>3. Refreshed(refresh_live_availability_state(before, registry, holders, i), registry)
    BY <1>6, <2>1, RefreshEarned
  <2> QED
    BY <2>2, <2>3
<1>7. 0 \in S
  BY <1>4
<1>8. ASSUME NEW k \in S, k \in Nat
      PROVE  k + 1 \in S
  <2>1. ASSUME k + 1 <= n
        PROVE  AllEarned(step[k + 1])
    <3>1. k + 1 \in 1..n /\ (k + 1) - 1 = k /\ k <= n
      BY <1>8, <2>1
    <3>2. AllEarned(step[(k + 1) - 1])
      BY <1>8, <3>1
    <3>3. Refreshed(step[k + 1], registry)
      BY <1>6, <3>1, <3>2
    <3> QED
      BY <3>3 DEF Refreshed, AllEarned
  <2> QED
    BY <1>8, <2>1
<1>9. Nat \subseteq S
  BY <1>7, <1>8, Counting
<1>10. ASSUME n # 0
       PROVE  Refreshed(step[n], registry)
  <2>1. n \in 1..n /\ n - 1 \in Nat /\ n - 1 <= n
    BY <1>10
  <2>2. AllEarned(step[n - 1])
    BY <1>9, <2>1
  <2> QED
    BY <1>6, <2>1, <2>2
<1> QED
  BY <1>3, <1>4, <1>10
\* Epochs start in order, and none after the block it is the epoch of.
LEMMA EpochStarts ==
    ASSUME NEW h \in Nat
    PROVE  /\ committee_epoch_start(h + 1) \in Nat /\ committee_epoch_start(h + 1) <= h + 1
           /\ committee_epoch_start(h + 2) \in Nat
           /\ committee_epoch_start(h + 1) <= committee_epoch_start(h + 2)
<1>1. EpochBlocks \in Nat /\ EpochBlocks > 0
  BY AvailabilityAssumption
<1>2. PICK p, q : p = h \div EpochBlocks /\ q = (h + 1) \div EpochBlocks
  OBVIOUS
<1>3. /\ p \in Nat /\ p * EpochBlocks <= h /\ h < (p + 1) * EpochBlocks
      /\ q \in Nat /\ h + 1 < (q + 1) * EpochBlocks
  BY <1>1, <1>2
<1>4. p * EpochBlocks \in Nat /\ q * EpochBlocks \in Nat
  BY <1>1, <1>3
<1>5. p <= q
  <2> SUFFICES ASSUME p >= q + 1
               PROVE  FALSE
    BY <1>3
  <2>1. p * EpochBlocks >= (q + 1) * EpochBlocks
    BY <1>1, <1>3
  <2> QED
    BY <1>1, <1>3, <2>1
<1>6. p * EpochBlocks <= q * EpochBlocks
  BY <1>1, <1>3, <1>5
<1>7. /\ committee_epoch_start(h + 1) = p * EpochBlocks + 1
      /\ committee_epoch_start(h + 2) = q * EpochBlocks + 1
  <2>1. (h + 1) - 1 = h /\ (h + 2) - 1 = h + 1
    OBVIOUS
  <2> QED
    BY <1>2, <2>1 DEF committee_epoch_start
<1> QED
  BY <1>3, <1>4, <1>6, <1>7

\* When an epoch is about to start, every entry is of the last refresh.
AvailabilityInv ==
    /\ height \in Nat /\ current_epoch = committee_epoch_start(height + 1)
    /\ Bonds(bonds) /\ IsFiniteSet(retained_prefixes) /\ AllEarned(operators)
    /\ AtEpochStart /\ height > 0 => Refreshed(operators, bonds) /\ validate_availability_state(operators)

LEMMA AvailabilityStart == AvInit => AvailabilityInv
<1> SUFFICES ASSUME AvInit
             PROVE  AvailabilityInv
  OBVIOUS
<1>1. height = 0 /\ current_epoch = 1 /\ retained_prefixes = {}
  BY DEF AvInit
<1>2. committee_epoch_start(1) = 1
  <2>1. 0 \div EpochBlocks = 0
    BY AvailabilityAssumption
  <2> QED
    BY <2>1, AvailabilityAssumption DEF committee_epoch_start
<1>3. PICK b \in BOOLEAN : b = TRUE
  OBVIOUS
<1>4. bonds = [o \in GenesisOperators |-> b] /\ operators = [o \in GenesisOperators |-> [NewOperator EXCEPT !.bonded = b]]
  BY <1>3, Zenon DEF AvInit
<1>5. PICK n : n = [NewOperator EXCEPT !.bonded = b]
  OBVIOUS
<1>6. Earned(n)
  BY <1>5, NewIsEarned, BondEarned
<1>7. AllEarned(operators)
  <2>1. operators = [o \in GenesisOperators |-> n]
    BY <1>4, <1>5
  <2> QED
    BY <1>6, <2>1 DEF AllEarned
<1>8. Bonds(bonds)
  BY <1>4 DEF Bonds
<1> QED
  BY <1>1, <1>2, <1>7, <1>8, FS_EmptySet DEF AvailabilityInv

LEMMA RegistryTyped ==
    ASSUME Bonds(bonds), NEW registry \in BondsAfterBlock
    PROVE  Bonds(registry)
<1>1. CASE registry = bonds
  BY <1>1
<1>2. ASSUME NEW p \in Operators, NEW b \in BOOLEAN,
             registry = [o \in Registered \cup {p} |-> IF o = p THEN b ELSE bonds[o]]
      PROVE  Bonds(registry)
  BY <1>2 DEF Bonds, Registered
<1> DEFINE With(p, b) == [o \in Registered \cup {p} |-> IF o = p THEN b ELSE bonds[o]]
<1>3. registry \in {bonds} \cup {With(p, b) : p \in Operators, b \in BOOLEAN}
  BY DEF BondsAfterBlock
<1> HIDE DEF With
<1>4. registry = bonds \/ \E p \in Operators, b \in BOOLEAN : registry = With(p, b)
  BY <1>3
<1> QED
  BY <1>1, <1>2, <1>4 DEF With

LEMMA AvailabilityStep ==
    ASSUME AvailabilityInv, [AvNext]_avVars
    PROVE  AvailabilityInv'
<1>1. CASE UNCHANGED avVars
  BY <1>1 DEF avVars, AvailabilityInv, AtEpochStart
<1>2. ASSUME NEW records \in BOOLEAN, NEW registry \in BondsAfterBlock, ApplyBlock(records, registry)
      PROVE  AvailabilityInv'
  <2> DEFINE next == committee_epoch_start(height + 2)
             iterations == next - current_epoch
             prefixes == update_availability_from_frontier(records)
             slots == {x \in (1..iterations) \X prefixes : Live(x[2], current_epoch + x[1])}
             Advanced(holders) == advance_live_availability_epoch(operators, registry, holders, iterations)
  <2>1. PICK holders \in Assignments(slots, DOMAIN registry) :
          IF validate_availability_state(Advanced(holders))
          THEN /\ height' = height + 1 /\ bonds' = registry /\ operators' = Advanced(holders)
               /\ retained_prefixes' = IF iterations = 0 THEN prefixes ELSE expire_retained_prefixes(prefixes, next)
               /\ current_epoch' = next
          ELSE UNCHANGED <<height, bonds, operators, retained_prefixes, current_epoch>>
    BY <1>2, Zenon DEF ApplyBlock
  <2>2. CASE UNCHANGED <<height, bonds, operators, retained_prefixes, current_epoch>>
    BY <2>2 DEF AvailabilityInv, AtEpochStart
  <2>3. CASE /\ validate_availability_state(Advanced(holders))
             /\ height' = height + 1 /\ bonds' = registry /\ operators' = Advanced(holders)
             /\ retained_prefixes' = IF iterations = 0 THEN prefixes ELSE expire_retained_prefixes(prefixes, next)
             /\ current_epoch' = next
    <3>1. height \in Nat /\ current_epoch = committee_epoch_start(height + 1) /\ Bonds(registry)
          /\ AllEarned(operators) /\ IsFiniteSet(retained_prefixes)
      BY RegistryTyped DEF AvailabilityInv
    <3>2. /\ iterations \in Nat /\ current_epoch <= height + 1 /\ next \in Nat /\ current_epoch \in Nat
      BY <3>1, EpochStarts
    <3>3. IsFiniteSet(prefixes)
      BY <3>1, FS_AddElement DEF update_availability_from_frontier
    <3>4. IsFiniteSet(retained_prefixes')
      <4>1. retained_prefixes' \subseteq prefixes
        BY <2>3 DEF expire_retained_prefixes
      <4> QED
        BY <3>3, <4>1, FS_Subset
    <3>5. IsFiniteSet(slots)
      <4> HIDE DEF iterations, prefixes
      <4>1. IsFiniteSet(1..iterations)
        BY <3>2, FS_Interval
      <4>2. IsFiniteSet((1..iterations) \X prefixes)
        BY <3>3, <4>1, FS_Product
      <4>3. slots \subseteq (1..iterations) \X prefixes
        OBVIOUS
      <4> QED
        BY <4>2, <4>3, FS_Subset
    <3>6. DOMAIN holders = slots
      <4> HIDE DEF slots
      <4> QED
        BY <2>1 DEF Assignments
    <3> HIDE DEF iterations, prefixes, slots, next
    <3>7. /\ iterations = 0 => Advanced(holders) = operators
          /\ iterations # 0 => Refreshed(Advanced(holders), registry)
      BY <3>1, <3>2, <3>5, <3>6, LoopEarned
    <3> HIDE DEF Advanced
    <3>8. AllEarned(operators')
      BY <2>3, <3>1, <3>7 DEF Refreshed, AllEarned
    <3>9. current_epoch' = committee_epoch_start(height' + 1) /\ height' \in Nat
      <4>1. height' + 1 = height + 2
        BY <2>3, <3>1
      <4> QED
        BY <2>3, <3>1, <4>1 DEF next
    <3>10. ASSUME AtEpochStart'
           PROVE  Refreshed(operators', bonds') /\ validate_availability_state(operators')
      <4>1. next = height + 2
        BY <2>3, <3>1, <3>9, <3>10 DEF AtEpochStart
      <4>2. iterations # 0
        BY <3>1, <3>2, <4>1 DEF iterations
      <4> QED
        BY <2>3, <3>7, <4>2
    <3> QED
      BY <2>3, <3>1, <3>4, <3>8, <3>9, <3>10 DEF AvailabilityInv
  <2> QED
    BY <2>1, <2>2, <2>3
<1> QED
  BY <1>1, <1>2 DEF AvNext

\* Nobody counts without having served the warm-up, and who is eligible when a committee is
\* drawn has its bond now and a score of its own, for every number of operators, every length
\* of an epoch and every assignment of the prefixes.
THEOREM EligibilityEarned == AvSpec => []EligibleIsEarned
<1>1. AvailabilityInv => EligibleIsEarned
  <2> SUFFICES ASSUME AvailabilityInv, NEW o \in DOMAIN operators
               PROVE  /\ operators[o].status # "WARMUP" =>
                           /\ operators[o].was_ever_active
                           /\ operators[o].successful_audits >= MinAudits
                           /\ operators[o].warmup_epochs >= WarmupEpochs
                      /\ AtEpochStart /\ height > 0 /\ operator_is_eligible(operators[o]) =>
                           bonds[o] /\ operators[o].score >= EligibleScore
    BY DEF EligibleIsEarned
  <2>1. Earned(operators[o])
    BY DEF AvailabilityInv, AllEarned
  <2>2. ASSUME AtEpochStart, height > 0, operator_is_eligible(operators[o])
        PROVE  bonds[o] /\ operators[o].score >= EligibleScore
    <3>1. Refreshed(operators, bonds) /\ validate_availability_state(operators)
      BY <2>2 DEF AvailabilityInv
    <3>2. operators[o].bonded /\ operators[o].status = "ACTIVE"
      BY <2>2 DEF operator_is_eligible
    <3>3. operators[o].bonded = bonds[o]
      BY <3>1 DEF Refreshed
    <3>4. ~(operators[o].score < EligibleScore)
      BY <3>1, <3>2 DEF validate_availability_state, operator_state_status_is_idempotent
    <3>5. operators[o].score \in Nat
      BY <2>1 DEF Earned, OperatorState
    <3> QED
      BY <3>2, <3>3, <3>4, <3>5, AvailabilityAssumption
  <2> QED
    BY <2>1, <2>2 DEF Earned, Served
<1> QED
  BY <1>1, AvailabilityStart, AvailabilityStep, PTL DEF AvSpec
-------------------------------------------------------------------------------
(* Committee checkpoints: the target moves after a streak only.                  *)

LEMMA OperatorsFinite ==
    ASSUME NEW S \in SUBSET Validators
    PROVE  IsFiniteSet(S) /\ IsFiniteSet(OperatorsOf(S)) /\ Cardinality(OperatorsOf(S)) \in Nat
<1>1. IsFiniteSet(S)
  BY FS_Subset, CheckpointAssumption
<1> DEFINE f == [v \in S |-> OperatorOf[v]]
<1>2. f \in Surjection(S, OperatorsOf(S))
  BY DEF Surjection, OperatorsOf
<1> HIDE DEF f
<1>3. IsFiniteSet(OperatorsOf(S))
  BY <1>1, <1>2, FS_Surjection
<1> QED
  BY <1>1, <1>3, FS_CardinalityType

LEMMA DepthTyped ==
    ASSUME NEW status, NEW available
    PROVE  qualified_depth_at_checkpoint(status, available) \in Nat
<1> DEFINE S == {v \in Validators : committee_eligibility_at_checkpoint(v, status, available, TRUE)}
<1>0. S \in SUBSET Validators
  OBVIOUS
<1> HIDE DEF S
<1>1. Cardinality(OperatorsOf(S)) \in Nat
  BY <1>0, OperatorsFinite
<1> QED
  BY <1>1, Zenon DEF qualified_depth_at_checkpoint, S

\* The latest k entries of the history.
Latest(q, k, d) == k \in Nat /\ k <= Len(q) /\ \A i \in 1..Len(q) : i > Len(q) - k => q[i] = d

Depths == {"grace", "deep", "shallow", "between"}

StreakInv ==
    /\ depths \in Seq(Depths) /\ Len(depths) <= History + 1
    /\ checkpoint.expand \in 0..ExpandEpochs /\ Latest(depths, checkpoint.expand, "deep")
    /\ checkpoint.contract \in 0..ContractEpochs /\ Latest(depths, checkpoint.contract, "shallow")

LEMMA HistoryLonger ==
    /\ History \in Nat /\ ExpandEpochs \in Nat /\ ContractEpochs \in Nat
    /\ ExpandEpochs >= 1 /\ ContractEpochs >= 1 /\ ExpandEpochs <= History /\ ContractEpochs <= History
  BY CheckpointAssumption DEF History

\* One more entry, and the oldest one forgotten.
Extended(q, d) == LET longer == Append(q, d) IN IF Len(longer) > History + 1 THEN Tail(longer) ELSE longer

LEMMA StreakGrows ==
    ASSUME NEW q \in Seq(Depths), Len(q) <= History + 1, NEW d \in Depths, NEW n, n = Extended(q, d)
    PROVE  /\ n \in Seq(Depths) /\ Len(n) <= History + 1 /\ Len(n) >= 1 /\ n[Len(n)] = d
           /\ Latest(n, 0, "deep") /\ Latest(n, 0, "shallow")
           /\ \A k : Latest(q, k, d) /\ k < History => Latest(n, k + 1, d)
           /\ \A k : Latest(q, k, d) /\ 1 <= k /\ k <= History => Latest(n, k, d)
<1>0. History \in Nat /\ History >= 1
  BY HistoryLonger
<1>1. PICK longer : longer = Append(q, d)
  OBVIOUS
<1>2. /\ longer \in Seq(Depths) /\ Len(longer) = Len(q) + 1 /\ Len(q) \in Nat /\ longer[Len(q) + 1] = d
      /\ \A i \in 1..Len(q) : longer[i] = q[i]
  BY <1>1
<1>3. n = IF Len(longer) > History + 1 THEN Tail(longer) ELSE longer
  BY <1>1 DEF Extended
<1>4. PICK drop \in {0, 1} : drop = IF Len(longer) > History + 1 THEN 1 ELSE 0
  OBVIOUS
<1>5. /\ n \in Seq(Depths) /\ Len(n) = Len(q) + 1 - drop
      /\ \A i \in 1..Len(n) : n[i] = longer[i + drop]
  BY <1>2, <1>3, <1>4
<1>6. Len(n) \in Nat /\ Len(n) >= 1 /\ Len(n) <= History + 1 /\ n[Len(n)] = d /\ (drop = 1 => Len(q) = History + 1)
  BY <1>0, <1>2, <1>4, <1>5
<1>7. ASSUME NEW k \in Nat, Latest(q, k, d), NEW i \in 1..Len(n), i > Len(n) - (k + 1)
      PROVE  n[i] = d
  <2>1. n[i] = longer[i + drop]
    BY <1>5
  <2>2. CASE i = Len(n)
    BY <1>6, <2>2
  <2>3. CASE i # Len(n)
    <3>1. PICK j : j = i + drop
      OBVIOUS
    <3>2. j \in 1..Len(q) /\ j > Len(q) - k
      BY <1>2, <1>4, <1>5, <1>6, <1>7, <2>3, <3>1
    <3> QED
      BY <1>2, <1>7, <2>1, <3>1, <3>2 DEF Latest
  <2> QED
    BY <2>2, <2>3
<1>8. ASSUME NEW k, Latest(q, k, d), k < History
      PROVE  Latest(n, k + 1, d)
  <2>1. k \in Nat /\ k <= Len(q)
    BY <1>8 DEF Latest
  <2>2. k + 1 \in Nat /\ k + 1 <= Len(n)
    BY <1>0, <1>2, <1>4, <1>5, <1>6, <1>8, <2>1
  <2> QED
    BY <1>7, <1>8, <2>1, <2>2 DEF Latest
<1>9. ASSUME NEW k, Latest(q, k, d), 1 <= k, k <= History
      PROVE  Latest(n, k, d)
  <2>1. k \in Nat /\ k <= Len(q)
    BY <1>9 DEF Latest
  <2>2. k <= Len(n)
    BY <1>0, <1>2, <1>4, <1>5, <1>6, <1>9, <2>1
  <2>3. ASSUME NEW i \in 1..Len(n), i > Len(n) - k
        PROVE  n[i] = d
    <3>1. i > Len(n) - (k + 1)
      BY <1>6, <2>1, <2>3
    <3> QED
      BY <1>7, <1>9, <2>1, <3>1
  <2> QED
    BY <2>1, <2>2, <2>3 DEF Latest
<1>10. Latest(n, 0, "deep") /\ Latest(n, 0, "shallow")
  BY <1>6 DEF Latest
<1> QED
  BY <1>5, <1>6, <1>8, <1>9, <1>10

\* One more epoch: the streaks and the target it leaves.
LEMMA StreakMoves ==
    ASSUME NEW prior, NEW q \in Seq(Depths), Len(q) <= History + 1,
           prior.expand \in 0..ExpandEpochs, Latest(q, prior.expand, "deep"),
           prior.contract \in 0..ContractEpochs, Latest(q, prior.contract, "shallow"),
           NEW status, NEW available,
           NEW a, a = adaptive_parameters(prior, status, qualified_depth_at_checkpoint(status, available)),
           NEW n, n = Extended(q, DepthOf(status, available))
    PROVE  /\ n \in Seq(Depths) /\ Len(n) <= History + 1
           /\ a.expand \in 0..ExpandEpochs /\ Latest(n, a.expand, "deep")
           /\ a.contract \in 0..ContractEpochs /\ Latest(n, a.contract, "shallow")
           /\ a.target = LargeTarget /\ prior.target # LargeTarget => a.expand = ExpandEpochs
           /\ a.target = SmallTarget /\ prior.target = LargeTarget /\ n[Len(n)] # "grace" => a.contract = ContractEpochs
<1>1. PICK depth, d : depth = qualified_depth_at_checkpoint(status, available) /\ d = DepthOf(status, available)
  OBVIOUS
<1>2. depth \in Nat
  BY <1>1, DepthTyped
<1>3. d = IF bootstrap_availability_grace_active(status) THEN "grace"
          ELSE IF depth >= ExpandDepth THEN "deep" ELSE IF depth <= ContractDepth THEN "shallow" ELSE "between"
  BY <1>1 DEF DepthOf
<1>4. d \in Depths
  BY <1>3 DEF Depths
<1>5. /\ n \in Seq(Depths) /\ Len(n) <= History + 1 /\ n[Len(n)] = d
      /\ Latest(n, 0, "deep") /\ Latest(n, 0, "shallow")
      /\ \A k : Latest(q, k, d) /\ k < History => Latest(n, k + 1, d)
      /\ \A k : Latest(q, k, d) /\ 1 <= k /\ k <= History => Latest(n, k, d)
  BY <1>1, <1>4, StreakGrows
<1>6. /\ SmallTarget \in Nat /\ LargeTarget \in Nat /\ LargeTarget > SmallTarget /\ SmallTarget >= 1
      /\ ContractDepth \in Nat /\ ExpandDepth \in Nat /\ ContractDepth < ExpandDepth
      /\ History \in Nat /\ ExpandEpochs \in Nat /\ ContractEpochs \in Nat
      /\ ExpandEpochs >= 1 /\ ContractEpochs >= 1 /\ ExpandEpochs <= History /\ ContractEpochs <= History
  BY HistoryLonger, CheckpointAssumption
<1>7. CASE bootstrap_availability_grace_active(status)
  <2>1. a.target = 1 /\ a.expand = 0 /\ a.contract = 0
    BY <1>7 DEF adaptive_parameters
  <2> QED
    BY <1>3, <1>5, <1>6, <1>7, <2>1
<1>8. CASE ~bootstrap_availability_grace_active(status)
  <2>1. PICK target : target = IF prior.target \in {SmallTarget, LargeTarget} THEN prior.target ELSE SmallTarget
    OBVIOUS
  <2>2. PICK expand : expand = IF target = SmallTarget /\ depth >= ExpandDepth
                               THEN Fewer(ExpandEpochs, prior.expand + 1) ELSE 0
    OBVIOUS
  <2>3. PICK contract : contract = IF target = LargeTarget /\ depth <= ContractDepth
                                   THEN Fewer(ContractEpochs, prior.contract + 1) ELSE 0
    OBVIOUS
  <2>4. /\ a.target = IF expand >= ExpandEpochs THEN LargeTarget
                      ELSE IF contract >= ContractEpochs THEN SmallTarget ELSE target
        /\ a.expand = expand /\ a.contract = contract
    BY <1>1, <1>8, <2>1, <2>2, <2>3 DEF adaptive_parameters, derive_adaptive_committee_target
  <2>5. expand \in 0..ExpandEpochs /\ Latest(n, expand, "deep")
    <3>1. CASE target = SmallTarget /\ depth >= ExpandDepth
      <4>1. d = "deep" /\ expand = Fewer(ExpandEpochs, prior.expand + 1)
        BY <1>3, <1>8, <2>2, <3>1
      <4>2. CASE prior.expand < ExpandEpochs
        <5>1. expand = prior.expand + 1
          BY <1>6, <4>1, <4>2 DEF Fewer
        <5> QED
          BY <1>5, <1>6, <4>1, <4>2, <5>1
      <4>3. CASE prior.expand = ExpandEpochs
        <5>1. expand = prior.expand
          BY <1>6, <4>1, <4>3 DEF Fewer
        <5> QED
          BY <1>5, <1>6, <4>1, <4>3, <5>1
      <4> QED
        BY <1>6, <4>2, <4>3
    <3>2. CASE ~(target = SmallTarget /\ depth >= ExpandDepth)
      BY <1>5, <1>6, <2>2, <3>2
    <3> QED
      BY <3>1, <3>2
  <2>6. contract \in 0..ContractEpochs /\ Latest(n, contract, "shallow")
    <3>1. CASE target = LargeTarget /\ depth <= ContractDepth
      <4>1. d = "shallow" /\ contract = Fewer(ContractEpochs, prior.contract + 1)
        BY <1>2, <1>3, <1>6, <1>8, <2>3, <3>1
      <4>2. CASE prior.contract < ContractEpochs
        <5>1. contract = prior.contract + 1
          BY <1>6, <4>1, <4>2 DEF Fewer
        <5> QED
          BY <1>5, <1>6, <4>1, <4>2, <5>1
      <4>3. CASE prior.contract = ContractEpochs
        <5>1. contract = prior.contract
          BY <1>6, <4>1, <4>3 DEF Fewer
        <5> QED
          BY <1>5, <1>6, <4>1, <4>3, <5>1
      <4> QED
        BY <1>6, <4>2, <4>3
    <3>2. CASE ~(target = LargeTarget /\ depth <= ContractDepth)
      BY <1>5, <1>6, <2>3, <3>2
    <3> QED
      BY <3>1, <3>2
  <2> QED
    BY <1>5, <1>6, <2>1, <2>4, <2>5, <2>6
<1> QED
  BY <1>7, <1>8

\* What the derived checkpoints keep of the parameters.
LEMMA DerivedParameters ==
    ASSUME NEW prior, NEW status, NEW available, NEW next \in derive_next_epoch_checkpoint(prior, status, available),
           NEW a, a = adaptive_parameters(prior, status, qualified_depth_at_checkpoint(status, available))
    PROVE  next.target = a.target /\ next.expand = a.expand /\ next.contract = a.contract
  BY DEF derive_next_epoch_checkpoint

LEMMA StreakStart == CkInit => StreakInv
<1> SUFFICES ASSUME CkInit PROVE StreakInv
  OBVIOUS
<1>1. PICK a : a = adaptive_parameters(NoCheckpoint, GenesisStatus, qualified_depth_at_checkpoint(GenesisStatus, {}))
  OBVIOUS
<1>2. checkpoint.target = a.target /\ checkpoint.expand = a.expand /\ checkpoint.contract = a.contract
  BY <1>1, DerivedParameters DEF CkInit
<1>3. PICK d : d = DepthOf(GenesisStatus, {})
  OBVIOUS
<1>4. depths = Extended(<<>>, d)
  BY <1>3, HistoryLonger DEF Extended, CkInit
<1>5. PICK q : q = <<>> /\ q \in Seq(Depths)
  <2>1. <<>> \in Seq(Depths)
    BY SMT
  <2> QED
    BY <2>1, Zenon
<1>6. Len(q) = 0 /\ Len(q) <= History + 1 /\ Latest(q, 0, "deep") /\ Latest(q, 0, "shallow")
  BY <1>5, HistoryLonger DEF Latest
<1>7. PICK prior : prior = NoCheckpoint
  OBVIOUS
<1>8. prior.expand = 0 /\ prior.contract = 0 /\ 0 \in 0..ExpandEpochs /\ 0 \in 0..ContractEpochs
  BY <1>7, HistoryLonger DEF NoCheckpoint
<1>9. /\ depths \in Seq(Depths) /\ Len(depths) <= History + 1
      /\ a.expand \in 0..ExpandEpochs /\ Latest(depths, a.expand, "deep")
      /\ a.contract \in 0..ContractEpochs /\ Latest(depths, a.contract, "shallow")
  <2>0. PICK status, available : status = GenesisStatus /\ available = {}
    OBVIOUS
  <2>1. a = adaptive_parameters(prior, status, qualified_depth_at_checkpoint(status, available))
    BY <1>1, <1>7, <2>0, Zenon
  <2>2. depths = Extended(q, DepthOf(status, available))
    BY <1>3, <1>4, <1>5, <2>0, Zenon
  <2>3. /\ prior.expand \in 0..ExpandEpochs /\ Latest(q, prior.expand, "deep")
        /\ prior.contract \in 0..ContractEpochs /\ Latest(q, prior.contract, "shallow")
    BY <1>6, <1>8, Zenon
  <2>4. q \in Seq(Depths) /\ Len(q) <= History + 1
    BY <1>5, <1>6, Zenon
  <2> QED
    BY <2>1, <2>2, <2>3, <2>4, StreakMoves
<1> QED
  BY <1>2, <1>9 DEF StreakInv

\* A step that keeps a checkpoint, and what the streaks are after it.
LEMMA StreakStep ==
    ASSUME StreakInv, [CkNext]_ckVars
    PROVE  /\ StreakInv'
           /\ checkpoint'.target = LargeTarget /\ checkpoint.target # LargeTarget => checkpoint'.expand = ExpandEpochs
           /\ checkpoint'.target = SmallTarget /\ checkpoint.target = LargeTarget /\ depths'[Len(depths')] # "grace"
                => checkpoint'.contract = ContractEpochs
<1>0. SmallTarget # LargeTarget
  BY CheckpointAssumption
<1>1. CASE UNCHANGED <<checkpoint, depths>>
  BY <1>0, <1>1 DEF StreakInv
<1>2. ASSUME NEW status, NEW available, NEW next \in derive_next_epoch_checkpoint(checkpoint, status, available),
             checkpoint' = next, depths' = Extended(depths, DepthOf(status, available))
      PROVE  /\ StreakInv'
             /\ checkpoint'.target = LargeTarget /\ checkpoint.target # LargeTarget => checkpoint'.expand = ExpandEpochs
             /\ checkpoint'.target = SmallTarget /\ checkpoint.target = LargeTarget /\ depths'[Len(depths')] # "grace"
                  => checkpoint'.contract = ContractEpochs
  <2>1. PICK a : a = adaptive_parameters(checkpoint, status, qualified_depth_at_checkpoint(status, available))
    OBVIOUS
  <2>2. checkpoint'.target = a.target /\ checkpoint'.expand = a.expand /\ checkpoint'.contract = a.contract
    BY <1>2, <2>1, DerivedParameters
  <2>3. /\ depths' \in Seq(Depths) /\ Len(depths') <= History + 1
        /\ a.expand \in 0..ExpandEpochs /\ Latest(depths', a.expand, "deep")
        /\ a.contract \in 0..ContractEpochs /\ Latest(depths', a.contract, "shallow")
        /\ a.target = LargeTarget /\ checkpoint.target # LargeTarget => a.expand = ExpandEpochs
        /\ a.target = SmallTarget /\ checkpoint.target = LargeTarget /\ depths'[Len(depths')] # "grace"
             => a.contract = ContractEpochs
    BY <1>2, <2>1, StreakMoves DEF StreakInv
  <2> QED
    BY <2>2, <2>3 DEF StreakInv
<1>3. CASE CkNext
  <2>1. PICK status, available : NextEpoch(status, available)
    BY <1>3 DEF CkNext
  <2> QED
    BY <1>1, <1>2, <2>1 DEF NextEpoch, Extended
<1> QED
  BY <1>1, <1>3 DEF ckVars

LEMMA LatestOnly ==
    ASSUME NEW q \in Seq(Depths), NEW k \in Nat, k >= 1, NEW d, Latest(q, k, d)
    PROVE  Len(q) >= k /\ {q[i] : i \in (Len(q) - k + 1)..Len(q)} = {d}
<1>1. Len(q) \in Nat /\ k <= Len(q) /\ \A i \in 1..Len(q) : i > Len(q) - k => q[i] = d
  BY DEF Latest
<1>2. ASSUME NEW i \in (Len(q) - k + 1)..Len(q)
      PROVE  q[i] = d
  BY <1>1
<1>3. Len(q) \in (Len(q) - k + 1)..Len(q)
  BY <1>1
<1> QED
  BY <1>1, <1>2, <1>3

\* The committee grows only after ExpandEpochs consecutive deep epochs and shrinks only after
\* ContractEpochs consecutive shallow ones, whatever the registry and the availability do in
\* between and however many epochs the history has forgotten
\* (derive_adaptive_committee_target, canonical_derivation.cpp).
THEOREM TargetsNeedStreaks == CkSpec => TargetNeedsStreak
<1>1. ASSUME StreakInv, [CkNext]_ckVars
      PROVE  LET last(n) == {depths'[i] : i \in (Len(depths') - n + 1)..Len(depths')}
             IN  /\ (checkpoint'.target = LargeTarget /\ checkpoint.target # LargeTarget
                       => Len(depths') >= ExpandEpochs /\ last(ExpandEpochs) = {"deep"})
                 /\ (checkpoint'.target = SmallTarget /\ checkpoint.target = LargeTarget
                       /\ depths'[Len(depths')] # "grace"
                       => Len(depths') >= ContractEpochs /\ last(ContractEpochs) = {"shallow"})
  <2>1. /\ StreakInv'
        /\ checkpoint'.target = LargeTarget /\ checkpoint.target # LargeTarget => checkpoint'.expand = ExpandEpochs
        /\ checkpoint'.target = SmallTarget /\ checkpoint.target = LargeTarget /\ depths'[Len(depths')] # "grace"
             => checkpoint'.contract = ContractEpochs
    BY <1>1, StreakStep
  <2>2. /\ depths' \in Seq(Depths) /\ Latest(depths', checkpoint'.expand, "deep")
        /\ Latest(depths', checkpoint'.contract, "shallow")
    BY <2>1 DEF StreakInv
  <2>3. checkpoint'.target = LargeTarget /\ checkpoint.target # LargeTarget
          => Len(depths') >= ExpandEpochs /\ {depths'[i] : i \in (Len(depths') - ExpandEpochs + 1)..Len(depths')} = {"deep"}
    <3>1. ASSUME checkpoint'.expand = ExpandEpochs
          PROVE  Len(depths') >= ExpandEpochs
                   /\ {depths'[i] : i \in (Len(depths') - ExpandEpochs + 1)..Len(depths')} = {"deep"}
      <4>1. Latest(depths', ExpandEpochs, "deep")
        BY <2>2, <3>1, Zenon
      <4> QED
        BY <2>2, <4>1, LatestOnly, HistoryLonger
    <3> QED
      BY <2>1, <3>1, Zenon
  <2>4. checkpoint'.target = SmallTarget /\ checkpoint.target = LargeTarget /\ depths'[Len(depths')] # "grace"
          => Len(depths') >= ContractEpochs
               /\ {depths'[i] : i \in (Len(depths') - ContractEpochs + 1)..Len(depths')} = {"shallow"}
    <3>1. ASSUME checkpoint'.contract = ContractEpochs
          PROVE  Len(depths') >= ContractEpochs
                   /\ {depths'[i] : i \in (Len(depths') - ContractEpochs + 1)..Len(depths')} = {"shallow"}
      <4>1. Latest(depths', ContractEpochs, "shallow")
        BY <2>2, <3>1, Zenon
      <4> QED
        BY <2>2, <4>1, LatestOnly, HistoryLonger
    <3> QED
      BY <2>1, <3>1, Zenon
  <2> QED
    BY <2>3, <2>4, Zenon
<1>2. StreakInv /\ [CkNext]_ckVars => StreakInv'
  BY StreakStep
<1> QED
  BY <1>1, <1>2, StreakStart, PTL DEF CkSpec, TargetNeedsStreak
-------------------------------------------------------------------------------
(* Committee checkpoints: there is a committee, and everybody in it leads.        *)

LEMMA LeastMember ==
    ASSUME NEW S \in SUBSET Nat, S # {}
    PROVE  Least(S) \in S
<1>1. PICK x \in S : \A y \in S : ~ (<<y, x>> \in OpToRel(<, Nat))
  BY NatLessThanWellFounded, WFMin
<1>2. \A y \in S : ~(y < x)
  BY <1>1 DEF OpToRel
<1>3. \A y \in S : x <= y
  BY <1>2
<1> QED
  BY <1>3, Zenon DEF Least

\* Members of different operators are as many as their operators.
LEMMA OnePerOperator ==
    ASSUME NEW S \in SUBSET Validators, \A v, w \in S : OperatorOf[v] = OperatorOf[w] => v = w
    PROVE  Cardinality(OperatorsOf(S)) = Cardinality(S)
<1> DEFINE f == [v \in S |-> OperatorOf[v]]
<1>1. f \in Surjection(S, OperatorsOf(S))
  BY DEF Surjection, OperatorsOf
<1>2. f \in Injection(S, OperatorsOf(S))
  BY <1>1 DEF Surjection, Injection, IsInjective
<1> HIDE DEF f
<1> QED
  BY <1>1, <1>2, FS_Surjection, OperatorsFinite

CandidatesAmong(E) == {Least({v \in E : OperatorOf[v] = o}) : o \in OperatorsOf(E)}

\* One candidate per operator, and every operator of an eligible validator has one.
LEMMA Candidates ==
    ASSUME NEW E \in SUBSET Validators, NEW C, C = CandidatesAmong(E)
    PROVE  /\ C \in SUBSET E /\ OperatorsOf(C) = OperatorsOf(E)
           /\ \A v, w \in C : OperatorOf[v] = OperatorOf[w] => v = w
<1> DEFINE ofOperator(o) == {v \in E : OperatorOf[v] = o}
<1>1. ASSUME NEW o \in OperatorsOf(E)
      PROVE  Least(ofOperator(o)) \in E /\ OperatorOf[Least(ofOperator(o))] = o
  <2>1. ofOperator(o) \in SUBSET Nat /\ ofOperator(o) # {}
    BY CheckpointAssumption DEF OperatorsOf
  <2>2. Least(ofOperator(o)) \in ofOperator(o)
    BY <2>1, LeastMember
  <2> QED
    BY <2>2
<1>2. C = {Least(ofOperator(o)) : o \in OperatorsOf(E)}
  BY DEF CandidatesAmong
<1> HIDE DEF ofOperator
<1>3. C \in SUBSET E
  BY <1>1, <1>2
<1>4. ASSUME NEW v \in C
      PROVE  OperatorOf[v] \in OperatorsOf(E) /\ v = Least(ofOperator(OperatorOf[v]))
  BY <1>1, <1>2
<1>5. ASSUME NEW o \in OperatorsOf(E)
      PROVE  \E v \in C : OperatorOf[v] = o
  BY <1>1, <1>2
<1>6. OperatorsOf(C) = OperatorsOf(E)
  BY <1>4, <1>5 DEF OperatorsOf
<1>7. ASSUME NEW v \in C, NEW w \in C, OperatorOf[v] = OperatorOf[w]
      PROVE  v = w
  BY <1>4, <1>7
<1> QED
  BY <1>3, <1>6, <1>7

LEMMA Drawn ==
    ASSUME NEW C \in SUBSET Validators, C # {}, NEW size \in Nat, size >= 1,
           NEW S \in select_finalized_committee(C, size)
    PROVE  S \in SUBSET C /\ S # {} /\ Cardinality(S) = Fewer(size, Cardinality(C))
<1>1. S \in SUBSET C /\ Cardinality(S) = Fewer(size, Cardinality(C))
  BY DEF select_finalized_committee
<1>2. IsFiniteSet(C) /\ Cardinality(C) \in Nat /\ Cardinality(C) # 0
  BY OperatorsFinite, FS_CardinalityType, FS_EmptySet
<1>3. Cardinality(S) # 0
  BY <1>1, <1>2 DEF Fewer
<1> QED
  BY <1>1, <1>3, FS_EmptySet

\* Whoever is eligible in NORMAL mode.
Enforced(status, available) == {v \in Validators : committee_eligibility_at_checkpoint(v, status, available, TRUE)}

LEMMA CountedCanSit ==
    ASSUME NEW status, NEW available
    PROVE  /\ count_eligible_operators_at_checkpoint(status, available)
                = Cardinality(OperatorsOf(Enforced(status, available)))
           /\ Enforced(status, available) \in SUBSET Active(status)
<1>1. Enforced(status, available) = {v \in Active(status) : v \in Genesis \/ OperatorOf[v] \in available}
  BY DEF Enforced, committee_eligibility_at_checkpoint, Active
<1>2. {o \in OperatorsOf(Active(status)) : o \in available \/ \E g \in Genesis \cap Active(status) : OperatorOf[g] = o}
        = OperatorsOf(Enforced(status, available))
  BY <1>1 DEF OperatorsOf
<1> QED
  BY <1>1, <1>2 DEF count_eligible_operators_at_checkpoint

LEMMA TargetPositive ==
    ASSUME NEW prior, NEW status, NEW depth, NEW a, a = adaptive_parameters(prior, status, depth)
    PROVE  /\ a.target \in Nat /\ a.target >= 1 /\ a.min_eligible \in Nat /\ a.min_eligible >= a.target
<1>1. /\ SmallTarget \in Nat /\ SmallTarget >= 1 /\ LargeTarget \in Nat /\ LargeTarget >= 1 /\ EligibleMargin \in Nat
  BY CheckpointAssumption
<1>2. CASE bootstrap_availability_grace_active(status)
  <2>1. a.target = 1 /\ a.min_eligible = 1
    BY <1>2 DEF adaptive_parameters
  <2> QED
    BY <2>1
<1>3. CASE ~bootstrap_availability_grace_active(status)
  <2>1. a.target \in {SmallTarget, LargeTarget} /\ a.min_eligible = a.target + EligibleMargin
    BY <1>3 DEF adaptive_parameters, derive_adaptive_committee_target, derive_adaptive_min_eligible
  <2> QED
    BY <1>1, <2>1
<1> QED
  BY <1>2, <1>3

\* The committee of NORMAL mode is full and has one member per operator.
Full(next) ==
    /\ Cardinality(next.members) = Fewer(MaxCommittee, next.target)
    /\ Cardinality(OperatorsOf(next.members)) = Cardinality(next.members)

\* Somebody is active: a committee is drawn.
LEMMA DrawnCommittee ==
    ASSUME NEW prior, NEW status, NEW available, Active(status) # {},
           NEW next \in derive_next_epoch_checkpoint(prior, status, available)
    PROVE  /\ next.members \in SUBSET Validators /\ next.members # {}
           /\ next.mode = "NORMAL" => Full(next)
<1>1. PICK a : a = adaptive_parameters(prior, status, qualified_depth_at_checkpoint(status, available))
  OBVIOUS
<1>2. PICK eligible : eligible = count_eligible_operators_at_checkpoint(status, available)
  OBVIOUS
<1>3. PICK decision : decision = decide_availability_committee_mode(prior, eligible, a.min_eligible)
  OBVIOUS
<1>4. PICK size : size = Fewer(MaxCommittee, a.target)
  OBVIOUS
<1>5. /\ a.target \in Nat /\ a.target >= 1 /\ a.min_eligible \in Nat /\ a.min_eligible >= a.target
      /\ size \in Nat /\ size >= 1 /\ size <= a.target
  <2>1. a.target \in Nat /\ a.target >= 1 /\ a.min_eligible \in Nat /\ a.min_eligible >= a.target
    BY <1>1, TargetPositive
  <2> QED
    BY <1>4, <2>1, CheckpointAssumption DEF Fewer
<1>6. PICK enforce \in BOOLEAN : enforce = (decision.mode = "NORMAL")
  OBVIOUS
<1> DEFINE E == {v \in Validators : committee_eligibility_at_checkpoint(v, status, available, enforce)}
<1>7. E \in SUBSET Validators
  OBVIOUS
<1>8. /\ enforce = TRUE => E = Enforced(status, available)
      /\ enforce = FALSE => E = Active(status)
  BY Zenon DEF Enforced, Active, committee_eligibility_at_checkpoint
<1>9. PICK C : C = finalized_committee_candidates(status, available, enforce)
  OBVIOUS
<1>10. C = CandidatesAmong(E)
  BY <1>9, Zenon DEF finalized_committee_candidates, CandidatesAmong
<1>11. PICK c : c = finalized_committee_candidates(status, available, decision.mode = "NORMAL")
  OBVIOUS
<1>12. c = C
  BY <1>6, <1>9, <1>11, Zenon
<1> HIDE DEF E
<1>13. /\ C \in SUBSET E /\ OperatorsOf(C) = OperatorsOf(E)
       /\ \A v, w \in C : OperatorOf[v] = OperatorOf[w] => v = w
  BY <1>7, <1>10, Candidates
<1>14. C \in SUBSET Validators /\ (E # {} => C # {})
  BY <1>7, <1>13 DEF OperatorsOf
<1>15. decision.mode = "NORMAL" => C # {} /\ Cardinality(C) >= a.min_eligible
  <2> SUFFICES ASSUME decision.mode = "NORMAL" PROVE C # {} /\ Cardinality(C) >= a.min_eligible
    OBVIOUS
  <2>1. enforce = TRUE
    BY <1>6, Zenon
  <2>2. E = Enforced(status, available)
    BY <1>8, <2>1, Zenon
  <2>3. Cardinality(OperatorsOf(E)) = eligible
    BY <1>2, <2>2, CountedCanSit, Zenon
  <2>4. Cardinality(OperatorsOf(C)) = Cardinality(C)
    BY <1>13, <1>14, OnePerOperator
  <2>5. Cardinality(C) = eligible /\ eligible \in Nat
    BY <1>7, <1>13, <2>3, <2>4, OperatorsFinite
  <2>6. ~(eligible < a.min_eligible)
    BY <1>3 DEF decide_availability_committee_mode
  <2>7. Cardinality(C) >= a.min_eligible /\ Cardinality(C) >= 1
    BY <1>5, <2>5, <2>6
  <2> QED
    BY <2>7, FS_EmptySet
<1>16. C # {}
  <2>1. CASE decision.mode = "NORMAL"
    BY <1>15, <2>1
  <2>2. CASE decision.mode # "NORMAL"
    <3>1. enforce = FALSE
      BY <1>6, <2>2, Zenon
    <3> QED
      BY <1>8, <1>14, <3>1, Zenon
  <2> QED
    BY <2>1, <2>2
<1>17. /\ next.members \in select_finalized_committee(C, size)
       /\ next.mode = decision.mode /\ next.target = a.target
  <2>1. PICK kind : kind = mode_of(status, available, decision)
    OBVIOUS
  <2>2. kind = decision
    BY <1>11, <1>12, <1>16, <2>1 DEF mode_of
  <2>3. PICK S \in committees(status, available, decision.mode, size) :
          /\ next.members = S /\ next.mode = kind.mode /\ next.target = a.target
    BY <1>1, <1>2, <1>3, <1>4, <2>1 DEF derive_next_epoch_checkpoint
  <2>4. committees(status, available, decision.mode, size) = select_finalized_committee(C, size)
    BY <1>11, <1>12, <1>16 DEF committees
  <2> QED
    BY <2>2, <2>3, <2>4, Zenon
<1>18. /\ next.members \in SUBSET C /\ next.members # {}
       /\ Cardinality(next.members) = Fewer(size, Cardinality(C))
  BY <1>5, <1>14, <1>16, <1>17, Drawn
<1>19. ASSUME next.mode = "NORMAL"
       PROVE  Full(next)
  <2>1. Cardinality(C) >= size /\ Cardinality(C) \in Nat
    <3>1. Cardinality(C) \in Nat
      BY <1>14, OperatorsFinite, FS_CardinalityType
    <3> QED
      BY <1>5, <1>15, <1>17, <1>19, <3>1
  <2>2. Cardinality(next.members) = size
    BY <1>5, <1>18, <2>1 DEF Fewer
  <2>3. Cardinality(OperatorsOf(next.members)) = Cardinality(next.members)
    BY <1>13, <1>14, <1>18, OnePerOperator
  <2> QED
    BY <1>4, <1>17, <2>2, <2>3, Zenon DEF Full
<1> QED
  BY <1>14, <1>18, <1>19

\* Nobody is active: the escape, or former members.
LEMMA NobodyActive ==
    ASSUME NEW prior, NEW status, NEW available, Active(status) = {},
           checkpoint.members \in SUBSET Validators, prior_members \in SUBSET Validators,
           NEW next \in derive_next_epoch_checkpoint(prior, status, available)
    PROVE  /\ next.members \in SUBSET Validators /\ next.mode = "FALLBACK"
           /\ next.members = {} => ~ \E v \in Validators : status[v] \notin {"BANNED", "ONBOARDING"}
<1>1. PICK decision, size, S :
        /\ S \in committees(status, available, decision.mode, size) /\ next.members = S
        /\ next.mode = mode_of(status, available, decision).mode
  BY DEF derive_next_epoch_checkpoint
<1>2. PICK c : c = finalized_committee_candidates(status, available, decision.mode = "NORMAL")
  OBVIOUS
<1>3. c = {}
  <2>1. PICK enforce \in BOOLEAN : enforce = (decision.mode = "NORMAL")
    OBVIOUS
  <2>2. {v \in Validators : committee_eligibility_at_checkpoint(v, status, available, enforce)} = {}
    BY Zenon DEF Active, committee_eligibility_at_checkpoint
  <2>3. finalized_committee_candidates(status, available, enforce) = {}
    BY <2>2 DEF finalized_committee_candidates, OperatorsOf
  <2> QED
    BY <1>2, <2>1, <2>3, Zenon
<1>4. next.mode = "FALLBACK"
  BY <1>1, <1>2, <1>3 DEF mode_of
<1> DEFINE bonded == {v \in Validators : status[v] \notin {"BANNED", "ONBOARDING"}}
<1>5. CASE bonded # {}
  <2>1. Least(bonded) \in bonded
    BY <1>5, LeastMember, CheckpointAssumption
  <2>2. empty_active_set_escape(status) = {Least(bonded)}
    BY <1>5 DEF empty_active_set_escape
  <2>3. S = {Least(bonded)}
    BY <1>1, <1>2, <1>3, <2>2 DEF committees
  <2> QED
    BY <1>1, <1>4, <2>1, <2>3
<1>6. CASE bonded = {}
  <2>1. empty_active_set_escape(status) = {}
    BY <1>6 DEF empty_active_set_escape
  <2>2. S \in emergency_fallback_committee_members(status)
    BY <1>1, <1>2, <1>3, <2>1 DEF committees
  <2>3. S \in SUBSET Validators
    BY <2>2 DEF emergency_fallback_committee_members, select_finalized_committee
  <2> QED
    BY <1>1, <1>4, <1>6, <2>3
<1> QED
  BY <1>5, <1>6

\* A permutation reaches every member.
LEMMA PermutationReaches ==
    ASSUME NEW S, IsFiniteSet(S), NEW n, n = Cardinality(S), NEW p \in Permutation(S)
    PROVE  n \in Nat /\ p \in [1..n -> S] /\ \A s \in S : \E k \in 1..n : p[k] = s
<1>1. n \in Nat /\ p \in [1..n -> S]
  BY FS_CardinalityType DEF Permutation
<1>2. p \in Injection(1..n, S)
  BY <1>1 DEF Permutation, Injection, IsInjective
<1>3. Cardinality(1..n) = n
  BY <1>1, FS_Interval
<1>4. p \in Surjection(1..n, S)
  BY <1>2, <1>3, FS_Injection
<1> QED
  BY <1>1, <1>4 DEF Surjection

LEMMA LaterRounds ==
    ASSUME NEW n \in Nat, NEW i \in Nat, i < n, NEW turn \in 1..3, NEW round, round = turn * n + i
    PROVE  ~(round < n) /\ (round - n) % n = i
<1>1. CASE turn = 1
  <2>1. round = n + i /\ (n + i - n) % n = i
    BY <1>1
  <2> QED
    BY <2>1
<1>2. CASE turn = 2
  <2>1. round = n + n + i /\ (n + n + i - n) % n = i
    BY <1>2
  <2> QED
    BY <2>1
<1>3. CASE turn = 3
  <2>1. round = n + n + n + i /\ (n + n + n + i - n) % n = i
    BY <1>3
  <2> QED
    BY <2>1
<1> QED
  BY <1>1, <1>2, <1>3

Leaders(schedule, ranked, turn, n) ==
    {canonical_leader_for_height_round(schedule, ranked, turn * n + i, n) : i \in 0..(n - 1)}

\* In each n rounds every member leads: by the schedule in the first, by rank later.
LEMMA EverybodyLeads ==
    ASSUME NEW S, IsFiniteSet(S), NEW n, n = Cardinality(S),
           NEW schedule \in Permutation(S), NEW ranked \in Permutation(S), NEW turn \in 0..3
    PROVE  Leaders(schedule, ranked, turn, n) = S
<1>1. n \in Nat /\ schedule \in [1..n -> S] /\ ranked \in [1..n -> S]
  BY PermutationReaches
<1>2. PICK p \in {schedule, ranked} : p = IF turn = 0 THEN schedule ELSE ranked
  OBVIOUS
<1>3. ASSUME NEW i \in 0..(n - 1)
      PROVE  canonical_leader_for_height_round(schedule, ranked, turn * n + i, n) = p[1 + i]
  <2>1. i \in Nat /\ i < n
    BY <1>1
  <2>2. CASE turn = 0
    <3>1. turn * n + i = i
      BY <1>1, <2>1, <2>2
    <3> QED
      BY <1>2, <2>1, <2>2, <3>1 DEF canonical_leader_for_height_round
  <2>3. CASE turn # 0
    <3>1. PICK round : round = turn * n + i
      OBVIOUS
    <3>2. ~(round < n) /\ (round - n) % n = i
      <4>1. turn \in 1..3
        BY <2>3
      <4> QED
        BY <1>1, <2>1, <3>1, <4>1, LaterRounds, Zenon
    <3>3. canonical_leader_for_height_round(schedule, ranked, round, n) = p[1 + i]
      BY <1>2, <2>3, <3>2, Zenon DEF canonical_leader_for_height_round, ticket_pow_fallback_member
    <3> QED
      BY <3>1, <3>3, Zenon
  <2> QED
    BY <2>2, <2>3
<1>4. Leaders(schedule, ranked, turn, n) = {p[1 + i] : i \in 0..(n - 1)}
  BY <1>3, Zenon DEF Leaders
<1>5. p \in [1..n -> S] /\ \A s \in S : \E k \in 1..n : p[k] = s
  BY <1>2, PermutationReaches
<1>6. ASSUME NEW s \in S
      PROVE  \E i \in 0..(n - 1) : p[1 + i] = s
  <2>1. PICK k \in 1..n : p[k] = s
    BY <1>5
  <2>2. PICK i \in 0..(n - 1) : 1 + i = k
    <3>1. k - 1 \in 0..(n - 1) /\ 1 + (k - 1) = k
      BY <1>1
    <3> QED
      BY <3>1
  <2> QED
    BY <2>1, <2>2
<1>7. ASSUME NEW i \in 0..(n - 1)
      PROVE  p[1 + i] \in S
  BY <1>1, <1>5
<1>8. {p[1 + i] : i \in 0..(n - 1)} = S
  BY <1>6, <1>7
<1> QED
  BY <1>4, <1>8, Zenon

\* The inductive invariant: a committee has been found in every epoch so far, and it is full
\* if it was drawn in NORMAL mode.
FormedInv ==
    /\ ~halted
    /\ checkpoint.members \in SUBSET Validators /\ prior_members \in SUBSET Validators
    /\ checkpoint.mode = "NORMAL" => Full(checkpoint)

LEMMA FormedStart == CkInit => FormedInv
<1> SUFFICES ASSUME CkInit PROVE FormedInv
  OBVIOUS
<1>1. PICK status, available : status = GenesisStatus /\ available = {}
  OBVIOUS
<1>2. Active(status) # {}
  BY <1>1, CheckpointAssumption DEF Active, GenesisStatus
<1>3. checkpoint \in derive_next_epoch_checkpoint(NoCheckpoint, status, available) /\ prior_members = {} /\ ~halted
  BY <1>1, Zenon DEF CkInit
<1>4. checkpoint.members \in SUBSET Validators /\ (checkpoint.mode = "NORMAL" => Full(checkpoint))
  BY <1>2, <1>3, DrawnCommittee, Zenon
<1> QED
  BY <1>3, <1>4 DEF FormedInv

LEMMA FormedStep ==
    ASSUME FormedInv, [CkNext]_ckVars
    PROVE  FormedInv'
<1>1. CASE UNCHANGED ckVars
  BY <1>1, Zenon DEF FormedInv, Full, ckVars, OperatorsOf
<1>2. CASE CkNext
  <2>1. PICK status, available : NextEpoch(status, available)
    BY <1>2 DEF CkNext
  <2>2. PICK next \in derive_next_epoch_checkpoint(checkpoint, status, available) :
          IF next.members = {}
          THEN /\ halted' = (\E v \in Validators : status[v] \notin {"BANNED", "ONBOARDING"})
               /\ UNCHANGED <<checkpoint, prior_members, depths>>
          ELSE /\ checkpoint' = next
               /\ prior_members' = checkpoint.members
               /\ UNCHANGED halted
    BY <2>1, Zenon DEF NextEpoch
  <2>3. /\ next.members \in SUBSET Validators /\ (next.mode = "NORMAL" => Full(next))
        /\ next.members = {} => ~ \E v \in Validators : status[v] \notin {"BANNED", "ONBOARDING"}
    <3>1. CASE Active(status) # {}
      BY <2>2, <3>1, DrawnCommittee, Zenon
    <3>2. CASE Active(status) = {}
      <4>1. /\ next.members \in SUBSET Validators /\ next.mode = "FALLBACK"
            /\ next.members = {} => ~ \E v \in Validators : status[v] \notin {"BANNED", "ONBOARDING"}
        <5>1. checkpoint.members \in SUBSET Validators /\ prior_members \in SUBSET Validators
          BY DEF FormedInv
        <5> QED
          BY <2>2, <3>2, <5>1, NobodyActive
      <4> QED
        BY <4>1
    <3> QED
      BY <3>1, <3>2
  <2>4. CASE next.members = {}
    <3>1. ~halted' /\ checkpoint' = checkpoint /\ prior_members' = prior_members
      BY <2>2, <2>3, <2>4, Zenon
    <3> QED
      BY <3>1, Zenon DEF FormedInv, Full, OperatorsOf
  <2>5. CASE next.members # {}
    <3>1. halted' = halted /\ checkpoint' = next /\ prior_members' = checkpoint.members
      BY <2>2, <2>5, Zenon
    <3> QED
      BY <2>3, <3>1, Zenon DEF FormedInv, Full, OperatorsOf
  <2> QED
    BY <2>4, <2>5
<1> QED
  BY <1>1, <1>2 DEF ckVars

\* The chain never stops for want of a committee while somebody who is not banned has a bond; a
\* committee of NORMAL mode is full, one member per operator; every member leads once in each n
\* rounds, for any schedule and any tickets (derive_next_epoch_checkpoint_from_state and
\* canonical_leader_for_height_round).
THEOREM CommitteesFormed == CkSpec => []CommitteeFormed
<1>1. FormedInv => CommitteeFormed
  <2> SUFFICES ASSUME FormedInv PROVE CommitteeFormed
    OBVIOUS
  <2> DEFINE n == Cardinality(checkpoint.members)
  <2>1. IsFiniteSet(checkpoint.members)
    BY OperatorsFinite DEF FormedInv
  <2>2. ASSUME NEW schedule \in Permutation(checkpoint.members), NEW ranked \in Permutation(checkpoint.members),
               NEW turn \in 0..3
        PROVE  {canonical_leader_for_height_round(schedule, ranked, turn * n + i, n) : i \in 0..(n - 1)}
                 = checkpoint.members
    <3>1. PICK S, m : S = checkpoint.members /\ m = n
      OBVIOUS
    <3>2. Leaders(schedule, ranked, turn, m) = S
      <4>1. IsFiniteSet(S) /\ m = Cardinality(S) /\ schedule \in Permutation(S) /\ ranked \in Permutation(S)
        BY <2>1, <2>2, <3>1, Zenon
      <4> QED
        BY <4>1, EverybodyLeads, Zenon
    <3> QED
      BY <3>1, <3>2, Zenon DEF Leaders
  <2>3. ~halted /\ (checkpoint.mode = "NORMAL" =>
                       n = Fewer(MaxCommittee, checkpoint.target) /\ Cardinality(OperatorsOf(checkpoint.members)) = n)
    BY Zenon DEF FormedInv, Full
  <2> QED
    BY <2>2, <2>3, Zenon DEF CommitteeFormed
<1> QED
  BY <1>1, FormedStart, FormedStep, PTL DEF CkSpec
-------------------------------------------------------------------------------
(* Sums.  The fold of the library is a recursive function over the subsets of   *)
(* the domain; it is the additive function, whatever the order it takes.        *)

LEMMA OneLess ==
    ASSUME NEW T, IsFiniteSet(T), NEW n \in Nat, Cardinality(T) = n + 1
    PROVE  T # {} /\ \A x \in T : Cardinality(T \ {x}) = n
<1>1. T # {}
  BY FS_EmptySet
<1>2. ASSUME NEW x \in T
      PROVE  Cardinality(T \ {x}) = n
  <2>1. Cardinality(T \ {x}) = Cardinality(T) - 1
    BY FS_RemoveElement
  <2> QED
    BY <2>1
<1> QED
  BY <1>1, <1>2

\* Induction over the subsets of a finite set, for a set of them.
LEMMA Gathering ==
    ASSUME NEW S, IsFiniteSet(S), NEW P, {} \in P,
           \A T \in SUBSET S : \A x \in S : T \in P /\ x \notin T => T \cup {x} \in P
    PROVE  S \in P
<1> DEFINE N == {n \in Nat : \A T \in SUBSET S : Cardinality(T) = n => T \in P}
<1>0. ASSUME NEW T \in SUBSET S
      PROVE  IsFiniteSet(T) /\ Cardinality(T) \in Nat
  BY FS_Subset, FS_CardinalityType
<1>1. 0 \in N
  BY <1>0, FS_EmptySet
<1>2. ASSUME NEW n \in N, n \in Nat
      PROVE  n + 1 \in N
  <2>1. ASSUME NEW T \in SUBSET S, Cardinality(T) = n + 1
        PROVE  T \in P
    <3>1. T # {}
      BY <2>1, FS_EmptySet
    <3>2. PICK x \in T : TRUE
      BY <3>1
    <3>3. PICK U : U = T \ {x}
      OBVIOUS
    <3>4. Cardinality(U) = n
      BY <1>0, <1>2, <2>1, <3>2, <3>3, OneLess, Zenon
    <3>5. U \in SUBSET S /\ x \in S /\ x \notin U /\ T = U \cup {x}
      BY <3>3
    <3>6. U \in P
      BY <3>4, <3>5
    <3> QED
      BY <3>5, <3>6
  <2> QED
    BY <2>1
<1>3. N \in SUBSET Nat /\ Nat \subseteq N
  BY <1>1, <1>2, Counting
<1> QED
  BY <1>0, <1>3

Adds(F, fun, S) ==
    /\ F \in [SUBSET S -> Int] /\ F[{}] = 0
    /\ \A s \in SUBSET S : \A c \in s : F[s] = fun[c] + F[s \ {c}]

LEMMA AdditiveExists ==
    ASSUME NEW S, IsFiniteSet(S), NEW fun \in [S -> Int]
    PROVE  \E F : Adds(F, fun, S)
<1> DEFINE P == {T \in SUBSET S : \E F : Adds(F, fun, T)}
<1>1. {} \in P
  <2>1. Adds([s \in SUBSET {} |-> 0], fun, {})
    BY DEF Adds
  <2> QED
    BY <2>1
<1>2. ASSUME NEW T \in SUBSET S, NEW x \in S, T \in P, x \notin T
      PROVE  T \cup {x} \in P
  <2>1. PICK F : Adds(F, fun, T)
    BY <1>2
  <2>2. PICK U : U = T \cup {x}
    OBVIOUS
  <2> DEFINE G == [s \in SUBSET U |-> IF x \in s THEN fun[x] + F[s \ {x}] ELSE F[s]]
  <2>3. ASSUME NEW s \in SUBSET U
        PROVE  /\ s \ {x} \in SUBSET T /\ (x \notin s => s \in SUBSET T)
               /\ G[s] = (IF x \in s THEN fun[x] + F[s \ {x}] ELSE F[s]) /\ G[s] \in Int
    <3>1. s \ {x} \in SUBSET T /\ (x \notin s => s \in SUBSET T)
      BY <2>2
    <3>2. fun[x] \in Int /\ F[s \ {x}] \in Int /\ (x \notin s => F[s] \in Int)
      BY <2>1, <3>1 DEF Adds
    <3> QED
      BY <3>1, <3>2
  <2>4. G \in [SUBSET U -> Int]
    BY <2>3
  <2>5. G[{}] = 0
    BY <2>1, <2>3 DEF Adds
  <2> HIDE DEF G
  <2>6. ASSUME NEW s \in SUBSET U, NEW c \in s
        PROVE  G[s] = fun[c] + G[s \ {c}]
    <3>1. PICK r, o : r = s \ {c} /\ o = s \ {x}
      OBVIOUS
    <3>2. r \in SUBSET U /\ o \in SUBSET T
      BY <2>3, <3>1
    <3>3. CASE x \notin s
      <4>1. G[s] = F[s] /\ s \in SUBSET T /\ x \notin r
        BY <2>3, <3>1, <3>3
      <4>2. G[r] = F[r]
        BY <2>3, <3>2, <4>1
      <4>3. F[s] = fun[c] + F[r]
        BY <2>1, <3>1, <4>1 DEF Adds
      <4> QED
        BY <3>1, <4>1, <4>2, <4>3
    <3>4. CASE x \in s /\ c = x
      <4>1. G[s] = fun[x] + F[r] /\ x \notin r
        BY <2>3, <3>1, <3>4
      <4>2. G[r] = F[r]
        BY <2>3, <3>2, <4>1
      <4> QED
        BY <3>1, <3>4, <4>1, <4>2
    <3>5. CASE x \in s /\ c # x
      <4>1. PICK p : p = o \ {c}
        OBVIOUS
      <4>2. p = r \ {x} /\ x \in r /\ c \in o /\ p \in SUBSET T
        BY <3>1, <3>2, <3>5, <4>1
      <4>3. G[s] = fun[x] + F[o] /\ G[r] = fun[x] + F[p]
        BY <2>3, <3>1, <3>2, <3>5, <4>2
      <4>4. F[o] = fun[c] + F[p] /\ F[p] \in Int
        BY <2>1, <3>2, <4>1, <4>2 DEF Adds
      <4>5. c \in S /\ fun[c] \in Int /\ fun[x] \in Int
        BY <2>2
      <4> QED
        BY <3>1, <4>3, <4>4, <4>5
    <3> QED
      BY <3>3, <3>4, <3>5
  <2>7. Adds(G, fun, U)
    BY <2>4, <2>5, <2>6 DEF Adds
  <2> QED
    BY <2>2, <2>7
<1>3. S \in P
  BY <1>1, <1>2, Gathering
<1> QED
  BY <1>3

Fold(fun, S) ==
    CHOOSE iter : iter = [s \in SUBSET S |-> IF s = {} THEN 0
                                             ELSE fun[CHOOSE x \in s : TRUE] + iter[s \ {CHOOSE x \in s : TRUE}]]

LEMMA FoldAdds ==
    ASSUME NEW S, IsFiniteSet(S), NEW fun \in [S -> Int], NEW F, Adds(F, fun, S)
    PROVE  Fold(fun, S)[S] = F[S]
<1> DEFINE first(s) == CHOOSE x \in s : TRUE
           Runs(iter) == iter = [s \in SUBSET S |-> IF s = {} THEN 0 ELSE fun[first(s)] + iter[s \ {first(s)}]]
<1>1. ASSUME NEW s, s # {}
      PROVE  first(s) \in s
  BY <1>1
<1>2. Fold(fun, S) = CHOOSE iter : Runs(iter)
  BY DEF Fold
<1> HIDE DEF first
<1>3. Runs(F)
  <2>1. ASSUME NEW s \in SUBSET S
        PROVE  F[s] = IF s = {} THEN 0 ELSE fun[first(s)] + F[s \ {first(s)}]
    BY <1>1 DEF Adds
  <2>2. F = [s \in SUBSET S |-> F[s]]
    BY DEF Adds
  <2> QED
    BY <2>1, <2>2
<1>4. PICK g : g = Fold(fun, S) /\ Runs(g)
  BY <1>2, <1>3, Zenon
<1> DEFINE N == {n \in Nat : \A T \in SUBSET S : Cardinality(T) = n => g[T] = F[T]}
<1>5. ASSUME NEW T \in SUBSET S
      PROVE  IsFiniteSet(T) /\ Cardinality(T) \in Nat
  BY FS_Subset, FS_CardinalityType
<1>6. 0 \in N
  <2>1. ASSUME NEW T \in SUBSET S, Cardinality(T) = 0
        PROVE  g[T] = F[T]
    <3>1. T = {}
      BY <1>5, <2>1, FS_EmptySet
    <3> QED
      BY <1>4, <3>1 DEF Adds
  <2> QED
    BY <2>1
<1>7. ASSUME NEW n \in N, n \in Nat
      PROVE  n + 1 \in N
  <2>1. ASSUME NEW T \in SUBSET S, Cardinality(T) = n + 1
        PROVE  g[T] = F[T]
    <3>1. T # {}
      BY <1>5, <1>7, <2>1, OneLess, Zenon
    <3>2. PICK x \in T : x = first(T)
      BY <1>1, <3>1
    <3>3. PICK U : U = T \ {x}
      OBVIOUS
    <3>4. Cardinality(U) = n /\ U \in SUBSET S
      <4>1. Cardinality(U) = n
        BY <1>5, <1>7, <2>1, <3>2, <3>3, OneLess, Zenon
      <4> QED
        BY <3>3, <4>1
    <3>5. g[U] = F[U]
      BY <1>7, <3>4
    <3>6. g[T] = fun[x] + g[U]
      BY <1>4, <3>1, <3>2, <3>3
    <3>7. F[T] = fun[x] + F[U]
      BY <3>3 DEF Adds
    <3> QED
      BY <3>5, <3>6, <3>7
  <2> QED
    BY <2>1
<1>8. Nat \subseteq N
  BY <1>6, <1>7, Counting
<1>9. g[S] = F[S]
  BY <1>5, <1>8
<1> QED
  BY <1>4, <1>9

\* A sum is the value of any additive function.
LEMMA SumAdds ==
    ASSUME NEW S, IsFiniteSet(S), NEW fun \in [S -> Int], NEW F, Adds(F, fun, S)
    PROVE  SumFunction(fun) = F[S] /\ SumFunction(fun) \in Int
<1>1. Fold(fun, S)[S] = F[S]
  BY FoldAdds
<1>2. DOMAIN fun = S
  OBVIOUS
<1>3. SumFunction(fun) = Fold(fun, DOMAIN fun)[DOMAIN fun]
  BY Zenon DEF SumFunction, SumFunctionOnSet, FoldFunctionOnSet, MapThenFoldSet, Fold
<1>4. F[S] \in Int
  BY DEF Adds
<1> QED
  BY <1>1, <1>2, <1>3, <1>4, Zenon

LEMMA SumZero ==
    ASSUME NEW S, IsFiniteSet(S), NEW fun \in [S -> Int], \A m \in S : fun[m] = 0
    PROVE  SumFunction(fun) = 0
<1> DEFINE F == [s \in SUBSET S |-> 0]
<1>1. Adds(F, fun, S)
  BY DEF Adds
<1>2. F[S] = 0
  OBVIOUS
<1> HIDE DEF F
<1> QED
  BY <1>1, <1>2, SumAdds

LEMMA SumPlus ==
    ASSUME NEW S, IsFiniteSet(S), NEW f \in [S -> Int], NEW g \in [S -> Int],
           NEW h, h = [m \in S |-> f[m] + g[m]]
    PROVE  SumFunction(h) = SumFunction(f) + SumFunction(g)
<1>1. PICK F, G : Adds(F, f, S) /\ Adds(G, g, S)
  BY AdditiveExists
<1> DEFINE H == [s \in SUBSET S |-> F[s] + G[s]]
<1>2. ASSUME NEW s \in SUBSET S
      PROVE  H[s] = F[s] + G[s] /\ F[s] \in Int /\ G[s] \in Int
  BY <1>1 DEF Adds
<1>3. H \in [SUBSET S -> Int] /\ H[{}] = 0
  BY <1>1, <1>2 DEF Adds
<1> HIDE DEF H
<1>4. ASSUME NEW s \in SUBSET S, NEW c \in s
      PROVE  H[s] = h[c] + H[s \ {c}]
  <2>1. PICK r \in SUBSET S : r = s \ {c}
    OBVIOUS
  <2>2. F[s] = f[c] + F[r] /\ G[s] = g[c] + G[r]
    BY <1>1, <2>1 DEF Adds
  <2>3. h[c] = f[c] + g[c] /\ f[c] \in Int /\ g[c] \in Int
    OBVIOUS
  <2> QED
    BY <1>2, <2>1, <2>2, <2>3
<1>5. Adds(H, h, S) /\ h \in [S -> Int]
  <2>1. Adds(H, h, S)
    BY <1>3, <1>4, Zenon DEF Adds
  <2>2. \A m \in S : f[m] + g[m] \in Int
    OBVIOUS
  <2> QED
    BY <2>1, <2>2
<1>6. SumFunction(h) = H[S] /\ SumFunction(f) = F[S] /\ SumFunction(g) = G[S]
  BY <1>1, <1>5, SumAdds
<1> QED
  BY <1>2, <1>6

LEMMA SumUpdate ==
    ASSUME NEW S, IsFiniteSet(S), NEW f \in [S -> Int], NEW x \in S, NEW g \in [S -> Int],
           \A m \in S : m # x => g[m] = f[m]
    PROVE  SumFunction(g) = SumFunction(f) + g[x] - f[x] /\ SumFunction(f) \in Int
<1> DEFINE d == [m \in S |-> IF m = x THEN g[x] - f[x] ELSE 0]
           D == [s \in SUBSET S |-> IF x \in s THEN g[x] - f[x] ELSE 0]
<1>1. g[x] \in Int /\ f[x] \in Int /\ g[x] - f[x] \in Int
  OBVIOUS
<1>2. d \in [S -> Int] /\ D \in [SUBSET S -> Int] /\ D[{}] = 0
  BY <1>1
<1>3. ASSUME NEW s \in SUBSET S, NEW c \in s
      PROVE  D[s] = d[c] + D[s \ {c}]
  BY <1>1
<1>4. g = [m \in S |-> f[m] + d[m]]
  <2>1. ASSUME NEW m \in S
        PROVE  g[m] = f[m] + d[m]
    BY <1>1
  <2> QED
    BY <2>1
<1>5. D[S] = g[x] - f[x]
  OBVIOUS
<1> HIDE DEF d, D
<1>6. Adds(D, d, S)
  BY <1>2, <1>3 DEF Adds
<1>7. SumFunction(d) = g[x] - f[x]
  BY <1>2, <1>5, <1>6, SumAdds
<1>8. SumFunction(g) = SumFunction(f) + SumFunction(d)
  BY <1>2, <1>4, SumPlus
<1>9. SumFunction(f) \in Int
  BY AdditiveExists, SumAdds
<1> QED
  BY <1>1, <1>7, <1>8, <1>9

LEMMA SumNatural ==
    ASSUME NEW S, IsFiniteSet(S), NEW f \in [S -> Nat]
    PROVE  SumFunction(f) \in Nat
<1>0. f \in [S -> Int]
  OBVIOUS
<1>1. PICK F : Adds(F, f, S)
  BY <1>0, AdditiveExists
<1> DEFINE P == {T \in SUBSET S : F[T] \in Nat}
<1>2. {} \in P
  BY <1>1 DEF Adds
<1>3. ASSUME NEW T \in SUBSET S, NEW x \in S, T \in P, x \notin T
      PROVE  T \cup {x} \in P
  <2>1. PICK U \in SUBSET S : U = T \cup {x}
    OBVIOUS
  <2>2. x \in U /\ U \ {x} = T
    BY <1>3, <2>1
  <2>3. F[U] = f[x] + F[T]
    BY <1>1, <2>2 DEF Adds
  <2>4. f[x] \in Nat /\ F[T] \in Nat
    BY <1>3
  <2>5. F[U] \in Nat
    BY <2>3, <2>4
  <2> QED
    BY <2>1, <2>5
<1>4. S \in P
  BY <1>2, <1>3, Gathering
<1> QED
  BY <1>0, <1>1, <1>4, SumAdds

-------------------------------------------------------------------------------
(* Money: no unit is made or lost.                                              *)

LEMMA SharesOf ==
    ASSUME NEW a \in Nat, NEW p \in 0..100
    PROVE  Percent(a, p) \in Nat /\ Percent(a, p) <= a
<1>1. PICK c : c = a * p
  OBVIOUS
<1>2. c \in Nat /\ c <= 100 * a
  <2>1. c = a * 100 - a * (100 - p) /\ a * (100 - p) \in Nat /\ c \in Nat
    BY <1>1
  <2> QED
    BY <2>1
<1>3. c \div 100 \in Nat /\ c \div 100 <= a
  BY <1>2
<1> QED
  BY <1>1, <1>3 DEF Percent

\* The member that gets the remainder is there.
LEMMA LastScorer ==
    ASSUME NEW score \in [Members -> Nat], NEW w \in Members, score[w] > 0
    PROVE  (CHOOSE m \in Members : score[m] > 0 /\ \A n \in Members : score[n] > 0 => n <= m) \in Members
<1> DEFINE W == {m \in Members : score[m] > 0}
           P == {T \in SUBSET Members : T \cap W # {} => \E m \in T \cap W : \A n \in T \cap W : n <= m}
<1>0. IsFiniteSet(Members) /\ Members \subseteq Nat
  BY MonetaryAssumption
<1>1. {} \in P
  OBVIOUS
<1>2. ASSUME NEW T \in SUBSET Members, NEW x \in Members, T \in P, x \notin T
      PROVE  T \cup {x} \in P
  <2>1. x \in Nat /\ \A n \in T : n \in Nat
    BY <1>0
  <2>2. CASE x \notin W
    BY <1>2, <2>2
  <2>3. CASE x \in W /\ T \cap W = {}
    BY <2>1, <2>3
  <2>4. CASE x \in W /\ T \cap W # {}
    <3>1. PICK m \in T \cap W : \A n \in T \cap W : n <= m
      BY <1>2, <2>4
    <3>2. CASE x <= m
      BY <3>1, <3>2
    <3>3. CASE m <= x
      <4>1. \A n \in T \cap W : n <= x
        BY <2>1, <3>1, <3>3
      <4> QED
        BY <2>1, <2>4, <4>1
    <3> QED
      BY <2>1, <3>2, <3>3
  <2> QED
    BY <2>2, <2>3, <2>4
<1>3. Members \in P
  BY <1>0, <1>1, <1>2, Gathering
<1>4. \E m \in Members : score[m] > 0 /\ \A n \in Members : score[n] > 0 => n <= m
  BY <1>3
<1> QED
  BY <1>4

\* A pool is paid out to the last unit, whatever the divisions leave over.
LEMMA PoolPaidOut ==
    ASSUME NEW units \in Nat, NEW score \in [Members -> Nat], NEW leader \in Members,
           NEW d, d = distribute_pool(units, score, leader)
    PROVE  d \in [Members -> Int] /\ SumFunction(d) = units
<1>0. IsFiniteSet(Members)
  BY MonetaryAssumption
<1>1. PICK total : total = SumFunction(score)
  OBVIOUS
<1>2. total \in Nat
  BY <1>0, <1>1, SumNatural
<1>3. CASE total = 0
  <2>1. d = [m \in Members |-> IF m = leader THEN units ELSE 0]
    BY <1>1, <1>3 DEF distribute_pool
  <2> DEFINE z == [m \in Members |-> 0]
  <2>2. z \in [Members -> Int] /\ d \in [Members -> Int] /\ d[leader] = units /\ z[leader] = 0
        /\ \A m \in Members : (m # leader => d[m] = z[m]) /\ z[m] = 0
    BY <2>1
  <2> HIDE DEF z
  <2>3. SumFunction(d) = SumFunction(z) + d[leader] - z[leader]
    BY <1>0, <2>2, SumUpdate
  <2>4. SumFunction(z) = 0
    BY <1>0, <2>2, SumZero
  <2> QED
    BY <2>2, <2>3, <2>4
<1>4. CASE total # 0
  <2>1. PICK w \in Members : score[w] > 0
    <3> SUFFICES ASSUME \A m \in Members : ~(score[m] > 0) PROVE FALSE
      OBVIOUS
    <3>1. \A m \in Members : score[m] = 0
      OBVIOUS
    <3>2. score \in [Members -> Int]
      OBVIOUS
    <3> QED
      BY <1>0, <1>1, <1>4, <3>1, <3>2, SumZero
  <2>2. PICK last : last = CHOOSE m \in Members : score[m] > 0 /\ \A n \in Members : score[n] > 0 => n <= m
    OBVIOUS
  <2>3. last \in Members
    BY <2>1, <2>2, LastScorer
  <2>4. PICK share : share = [m \in Members |-> IF total = 0 THEN 0 ELSE (units * score[m]) \div total]
    OBVIOUS
  <2>5. share \in [Members -> Int]
    <3>1. ASSUME NEW m \in Members
          PROVE  (units * score[m]) \div total \in Int
      <4>1. PICK c : c = units * score[m]
        OBVIOUS
      <4>2. c \in Nat
        BY <4>1
      <4>3. c \div total \in Int
        BY <1>2, <1>4, <4>2
      <4> QED
        BY <4>1, <4>3
    <3> QED
      BY <1>4, <2>4, <3>1
  <2>6. PICK rest : rest = units - SumFunction(share)
    OBVIOUS
  <2>7. d = [share EXCEPT ![last] = @ + rest]
    BY <1>1, <1>4, <2>2, <2>4, <2>6 DEF distribute_pool
  <2>8. SumFunction(share) \in Int /\ rest \in Int
    BY <1>0, <2>3, <2>5, <2>6, SumUpdate
  <2>9. d \in [Members -> Int] /\ d[last] = share[last] + rest /\ \A m \in Members : m # last => d[m] = share[m]
    BY <2>3, <2>5, <2>7, <2>8
  <2>10. SumFunction(d) = SumFunction(share) + d[last] - share[last]
    BY <1>0, <2>3, <2>5, <2>9, SumUpdate
  <2>11. share[last] \in Int
    BY <2>3, <2>5
  <2> QED
    BY <2>6, <2>8, <2>9, <2>10, <2>11
<1> QED
  BY <1>3, <1>4

Rewards ==
    [ total: Nat, accrual: Nat, fees: Nat, recycled: Nat,
      score: [Members -> Nat], expected: [Members -> Nat], observed: [Members -> Nat] ]

LEMMA ScoresNatural ==
    ASSUME NEW r \in Rewards
    PROVE  settlement_scores(r) \in [Members -> Nat]
<1>0. ThresholdPercent \in Nat
  <2>1. ThresholdPercent \in 0..100
    BY MonetaryAssumption
  <2> QED
    BY <2>1
<1>1. ASSUME NEW m \in Members
      PROVE  LET percent == IF r.expected[m] = 0 THEN 100
                            ELSE (Lesser(r.observed[m], r.expected[m]) * 100) \div r.expected[m]
             IN  apply_participation_penalty(r.score[m], percent) \in Nat
  <2>1. PICK e, o, c : e = r.expected[m] /\ o = Lesser(r.observed[m], e) /\ c = r.score[m]
    OBVIOUS
  <2>2. e \in Nat /\ o \in Nat /\ c \in Nat
    BY <2>1 DEF Rewards, Lesser
  <2>3. PICK percent : percent = IF e = 0 THEN 100 ELSE (o * 100) \div e
    OBVIOUS
  <2>4. percent \in Nat
    BY <2>2, <2>3
  <2>5. apply_participation_penalty(c, percent) \in Nat
    <3>1. PICK k : k = c * percent
      OBVIOUS
    <3>2. k \in Nat
      BY <2>2, <2>4, <3>1
    <3>3. ThresholdPercent # 0 => k \div ThresholdPercent \in Nat
      BY <1>0, <3>2
    <3> QED
      BY <2>2, <3>1, <3>3 DEF apply_participation_penalty
  <2> QED
    BY <2>1, <2>3, <2>5, Zenon
<1> QED
  BY <1>1 DEF settlement_scores

\* The settlement pays everything but the reserve's share of the fees, and the subsidy.
LEMMA SettlementPays ==
    ASSUME NEW r \in Rewards, NEW subsidy \in Nat, NEW leader \in Members, NEW committee,
           NEW paid, paid = compute_epoch_settlement_payout(r, subsidy, leader, committee)
    PROVE  /\ paid = r.total + r.fees - fee_reserve_share_units(r.fees) + subsidy
           /\ fee_reserve_share_units(r.fees) \in Nat /\ fee_reserve_share_units(r.fees) <= r.fees
<1>0. IsFiniteSet(Members)
  BY MonetaryAssumption
<1>1. PICK onboarding : onboarding = IF committee = {} THEN 0 ELSE onboarding_reward_units(r.total)
  OBVIOUS
<1>2. PICK fees : fees = r.fees - fee_reserve_share_units(r.fees)
  OBVIOUS
<1>3. r.total \in Nat /\ r.fees \in Nat
  BY DEF Rewards
<1>4. fee_reserve_share_units(r.fees) \in Nat /\ fee_reserve_share_units(r.fees) <= r.fees /\ fees \in Nat
  <2>1. fee_reserve_share_units(r.fees) \in Nat /\ fee_reserve_share_units(r.fees) <= r.fees
    BY <1>3, SharesOf, MonetaryAssumption DEF fee_reserve_share_units
  <2> QED
    BY <1>2, <1>3, <2>1
<1>5. onboarding \in Nat /\ onboarding <= r.total
  <2>1. onboarding_reward_units(r.total) \in Nat /\ onboarding_reward_units(r.total) <= r.total
    BY <1>3, SharesOf, MonetaryAssumption DEF onboarding_reward_units
  <2> QED
    BY <1>1, <1>3, <2>1
<1>6. PICK units : units = r.total - onboarding + fees + subsidy
  OBVIOUS
<1>7. units \in Nat
  BY <1>3, <1>4, <1>5, <1>6
<1>8. PICK validators : validators = distribute_pool(units, settlement_scores(r), leader)
  OBVIOUS
<1>9. PICK seats : seats = [m \in Members |-> IF m \in committee THEN 1 ELSE 0]
  OBVIOUS
<1>10. seats \in [Members -> Nat]
  BY <1>9
<1>11. PICK joiners : joiners = distribute_pool(onboarding, seats, leader)
  OBVIOUS
<1>12. validators \in [Members -> Int] /\ SumFunction(validators) = units
  <2>1. PICK score \in [Members -> Nat] : score = settlement_scores(r)
    BY ScoresNatural
  <2> QED
    BY <1>7, <1>8, <2>1, PoolPaidOut
<1>13. joiners \in [Members -> Int] /\ SumFunction(joiners) = onboarding
  BY <1>5, <1>10, <1>11, PoolPaidOut
<1>14. PICK all : all = [m \in Members |-> validators[m] + joiners[m]]
  OBVIOUS
<1>15. SumFunction(all) = units + onboarding
  BY <1>0, <1>12, <1>13, <1>14, SumPlus
<1>16. paid = SumFunction(all)
  BY <1>1, <1>2, <1>6, <1>8, <1>9, <1>11, <1>14, Zenon DEF compute_epoch_settlement_payout
<1> QED
  BY <1>2, <1>3, <1>4, <1>5, <1>6, <1>15, <1>16

LEMMA EmissionEnds == EmissionBlocks \in Nat /\ BlocksPerYear \in Nat /\ BlocksPerYear >= 1 /\ Len(YearBudget) \in Nat
<1>1. BlocksPerYear \in Nat /\ BlocksPerYear >= 1 /\ Len(YearBudget) \in Nat
  BY MonetaryAssumption
<1>2. PICK n \in Nat, B \in Nat : n = Len(YearBudget) /\ B = BlocksPerYear
  BY <1>1
<1>3. n * B \in Nat
  OBVIOUS
<1> QED
  BY <1>1, <1>2, <1>3 DEF EmissionBlocks

LEMMA YearInRange ==
    ASSUME NEW h \in Nat, h < EmissionBlocks, NEW year, year = h \div BlocksPerYear
    PROVE  year \in Nat /\ year < Len(YearBudget)
<1>1. PICK n, B, r : n = Len(YearBudget) /\ B = BlocksPerYear /\ r = h % B
  OBVIOUS
<1>2. n \in Nat /\ B \in Nat /\ B >= 1 /\ year \in Nat /\ r \in Nat /\ h = year * B + r
  BY <1>1, EmissionEnds
<1>3. h < n * B
  BY <1>1 DEF EmissionBlocks
<1>4. ~(year >= n)
  <2> SUFFICES ASSUME year >= n PROVE FALSE
    OBVIOUS
  <2>1. year * B = n * B + (year - n) * B
    BY <1>2
  <2>2. (year - n) * B >= 0
    BY <1>2
  <2>3. PICK a, b, c \in Int : a = year * B /\ b = n * B /\ c = (year - n) * B
    BY <1>2
  <2> QED
    BY <1>2, <1>3, <2>1, <2>2, <2>3
<1> QED
  BY <1>1, <1>2, <1>4

LEMMA RewardNatural ==
    ASSUME NEW h \in Nat
    PROVE  reward_units(h) \in Nat
<1>1. BlocksPerYear \in Nat /\ BlocksPerYear >= 1 /\ YearBudget \in Seq(Nat) /\ EmissionBlocks \in Nat
  BY MonetaryAssumption, EmissionEnds
<1>2. CASE h >= EmissionBlocks
  BY <1>2 DEF reward_units
<1>3. CASE ~(h >= EmissionBlocks)
  <2>1. PICK year, r : year = h \div BlocksPerYear /\ r = h % BlocksPerYear
    OBVIOUS
  <2>2. year \in Nat /\ year < Len(YearBudget)
    <3>1. h < EmissionBlocks
      BY <1>1, <1>3
    <3> QED
      BY <2>1, <3>1, YearInRange, Zenon
  <2>3. PICK budget : budget = YearBudget[1 + year]
    OBVIOUS
  <2>4. budget \in Nat
    BY <1>1, <2>2, <2>3
  <2>5. budget \div BlocksPerYear \in Nat
    BY <1>1, <2>4
  <2>6. reward_units(h) = (budget \div BlocksPerYear) + (IF r < budget % BlocksPerYear THEN 1 ELSE 0)
    BY <1>3, <2>1, <2>3 DEF reward_units
  <2> QED
    BY <2>5, <2>6
<1> QED
  BY <1>2, <1>3

LEMMA Divided ==
    ASSUME NEW B \in Nat, B >= 1, NEW g \in Nat
    PROVE  g \div B \in Nat /\ g % B \in Nat /\ g % B < B
  OBVIOUS

LEMMA Quotient ==
    ASSUME NEW B \in Nat, B >= 1, NEW y \in Nat, NEW s \in Nat, s < B, NEW g, g = y * B + s
    PROVE  g \in Nat /\ g \div B = y /\ g % B = s
<1>1. PICK a : a = y * B
  OBVIOUS
<1>2. a \in Nat /\ g = a + s /\ g \in Nat
  BY <1>1
<1>3. PICK q, r : q = g \div B /\ r = g % B
  OBVIOUS
<1>4. q \in Nat /\ r \in Nat /\ r < B /\ g = q * B + r
  BY <1>2, <1>3
<1>5. PICK b, c : b = q * B /\ c = (q - y) * B
  OBVIOUS
<1>6. b = a + c /\ b \in Nat /\ c \in Int
  BY <1>1, <1>4, <1>5
<1>7. ~(q > y)
  <2> SUFFICES ASSUME q > y PROVE FALSE
    OBVIOUS
  <2>1. c >= B
    BY <1>4, <1>5
  <2> QED
    BY <1>2, <1>4, <1>5, <1>6, <2>1
<1>8. ~(q < y)
  <2> SUFFICES ASSUME q < y PROVE FALSE
    OBVIOUS
  <2>1. (y - q) * B >= B /\ c = -((y - q) * B)
    BY <1>4, <1>5
  <2> QED
    BY <1>2, <1>4, <1>5, <1>6, <2>1
<1>9. q = y
  BY <1>4, <1>7, <1>8
<1> QED
  BY <1>1, <1>2, <1>3, <1>4, <1>9

\* One more block adds its reward to the year it is in and to no other year.
LEMMA YearStep ==
    ASSUME NEW h \in Nat, NEW year \in Nat, year < Len(YearBudget), NEW g, g = h + 1
    PROVE  /\ emitted_in_year(h, year) \in Int
           /\ emitted_in_year(g, year) = emitted_in_year(h, year)
                + (IF g < EmissionBlocks /\ g \div BlocksPerYear = year THEN reward_units(g) ELSE 0)
<1>1. PICK B, n : B = BlocksPerYear /\ n = Len(YearBudget)
  OBVIOUS
<1>2. B \in Nat /\ B >= 1 /\ n \in Nat /\ year < n
  BY <1>1, MonetaryAssumption
<1>3. PICK base, last : base = year * B /\ last = n * B
  OBVIOUS
<1>4. base \in Nat /\ last \in Nat /\ (year + 1) * B = base + B /\ base + B <= last
  <2>1. base \in Nat /\ last \in Nat /\ (year + 1) * B = base + B
    BY <1>2, <1>3
  <2>2. (n - (year + 1)) * B \in Nat
    BY <1>2
  <2>3. last = (year + 1) * B + (n - (year + 1)) * B
    BY <1>2, <1>3
  <2>4. PICK c \in Nat : c = (n - (year + 1)) * B
    BY <2>2
  <2> QED
    BY <1>2, <2>1, <2>3, <2>4
<1>5. PICK budget, each, left : budget = YearBudget[year + 1] /\ each = budget \div B /\ left = budget % B
  OBVIOUS
<1>6. budget \in Nat /\ each \in Nat /\ left \in Nat /\ left < B
  <2>1. budget \in Nat
    BY <1>1, <1>2, <1>5, MonetaryAssumption
  <2> QED
    BY <1>2, <1>5, <2>1, Divided, Zenon
<1>7. PICK lo : lo = Greater(1, base)
  OBVIOUS
<1>8. lo \in Nat /\ lo >= 1 /\ lo >= base /\ (lo = 1 \/ lo = base) /\ lo - base \in Nat
  BY <1>4, <1>7 DEF Greater
<1>9. ASSUME NEW k \in Nat, NEW hi, hi = (IF k < base + B THEN k ELSE base + B - 1)
      PROVE  emitted_in_year(k, year) =
               IF lo > hi THEN 0
               ELSE each * (hi - base - (lo - base) + 1)
                      + (IF lo - base < left THEN Lesser(hi - base, left - 1) - (lo - base) + 1 ELSE 0)
  <2>1. hi = Lesser(Lesser(k, last - 1), (base + B) - 1)
    BY <1>2, <1>4, <1>9 DEF Lesser
  <2> QED
    BY <1>1, <1>3, <1>4, <1>5, <1>7, <2>1, Zenon DEF emitted_in_year, EmissionBlocks
<1>10. PICK eg, eh : eg = emitted_in_year(g, year) /\ eh = emitted_in_year(h, year)
  OBVIOUS
<1>11. g \in Nat /\ EmissionBlocks = last
  BY <1>1, <1>3 DEF EmissionBlocks
<1>12. eh \in Int
  <2>1. PICK hi : hi = IF h < base + B THEN h ELSE base + B - 1
    OBVIOUS
  <2>2. hi \in Int
    BY <1>2, <1>4, <2>1
  <2>3. each * (hi - base - (lo - base) + 1) \in Int
    BY <1>4, <1>6, <1>8, <2>2
  <2>4. Lesser(hi - base, left - 1) - (lo - base) + 1 \in Int
    BY <1>4, <1>6, <1>8, <2>2 DEF Lesser
  <2>5. eh = IF lo > hi THEN 0
             ELSE each * (hi - base - (lo - base) + 1)
                    + (IF lo - base < left THEN Lesser(hi - base, left - 1) - (lo - base) + 1 ELSE 0)
    BY <1>9, <1>10, <2>1
  <2> QED
    BY <2>3, <2>4, <2>5
<1>13. CASE g < lo
  <2>1. eg = 0 /\ eh = 0
    BY <1>2, <1>4, <1>8, <1>9, <1>10, <1>11, <1>13
  <2>2. g < base
    BY <1>4, <1>8, <1>11, <1>13
  <2>3. g \div B # year
    <3> SUFFICES ASSUME g \div B = year PROVE FALSE
      OBVIOUS
    <3>1. g = (g \div B) * B + (g % B) /\ g % B \in Nat
      BY <1>2, <1>11
    <3> QED
      BY <1>3, <1>4, <1>11, <2>2, <3>1
  <2> QED
    BY <1>1, <1>10, <2>1, <2>3
<1>14. CASE lo <= g /\ g < base + B
  <2>1. PICK r : r = g - base
    OBVIOUS
  <2>2. r \in Nat /\ r < B /\ g = year * B + r
    BY <1>2, <1>3, <1>4, <1>8, <1>11, <1>14, <2>1
  <2>3. g \div B = year /\ g % B = r
    BY <1>2, <2>2, Quotient, ZenonT(60)
  <2>4. g < last
    BY <1>2, <1>4, <1>11, <1>14
  <2>5. reward_units(g) = each + (IF r < left THEN 1 ELSE 0)
    <3>1. 1 + year = year + 1
      OBVIOUS
    <3>2. ~(g >= EmissionBlocks)
      BY <1>4, <1>11, <2>4
    <3> QED
      BY <1>1, <1>5, <2>3, <3>1, <3>2 DEF reward_units
  <2>6. PICK from : from = lo - base
    OBVIOUS
  <2>7. from \in Nat /\ from <= r
    BY <1>4, <1>8, <1>11, <1>14, <2>1, <2>6
  <2>8. eg = each * (r - from + 1) + (IF from < left THEN Lesser(r, left - 1) - from + 1 ELSE 0)
    BY <1>4, <1>8, <1>9, <1>10, <1>11, <1>14, <2>1, <2>6
  <2>9. eh = IF from > r - 1 THEN 0
             ELSE each * (r - 1 - from + 1) + (IF from < left THEN Lesser(r - 1, left - 1) - from + 1 ELSE 0)
    <3>1. h < base + B /\ h = base + (r - 1) /\ (lo > h <=> from > r - 1) /\ h - base = r - 1
      BY <1>2, <1>4, <1>8, <1>11, <1>14, <2>1, <2>6
    <3> QED
      BY <1>9, <1>10, <2>6, <3>1
  <2>10. PICK x : x = each * (r - from)
    OBVIOUS
  <2>11. x \in Int /\ each * (r - from + 1) = x + each /\ each * (r - 1 - from + 1) = x /\ (from = r => x = 0)
    BY <1>6, <2>2, <2>7, <2>10
  <2>12. eg = eh + each + (IF r < left THEN 1 ELSE 0)
    <3>1. CASE from = r
      BY <1>6, <2>2, <2>7, <2>8, <2>9, <2>11, <3>1 DEF Lesser
    <3>2. CASE from # r /\ from < left
      BY <1>6, <2>2, <2>7, <2>8, <2>9, <2>11, <3>2 DEF Lesser
    <3>3. CASE from # r /\ ~(from < left)
      BY <1>6, <2>2, <2>7, <2>8, <2>9, <2>11, <3>3 DEF Lesser
    <3> QED
      BY <3>1, <3>2, <3>3
  <2> QED
    BY <1>1, <1>6, <1>10, <1>11, <1>12, <2>3, <2>4, <2>5, <2>12
<1>15. CASE base + B <= g
  <2>1. eg = eh
    <3>1. PICK hi : hi = base + B - 1
      OBVIOUS
    <3>2. hi = (IF g < base + B THEN g ELSE base + B - 1) /\ hi = (IF h < base + B THEN h ELSE base + B - 1)
      BY <1>2, <1>4, <1>11, <1>15, <3>1
    <3> QED
      BY <1>9, <1>10, <1>11, <3>2
  <2>2. g \div B # year
    <3> SUFFICES ASSUME g \div B = year PROVE FALSE
      OBVIOUS
    <3>1. g = (g \div B) * B + (g % B) /\ g % B < B /\ g % B \in Nat
      BY <1>2, <1>11
    <3> QED
      BY <1>2, <1>3, <1>4, <1>11, <1>15, <3>1
  <2> QED
    BY <1>1, <1>10, <1>12, <2>1, <2>2
<1> QED
  BY <1>2, <1>4, <1>8, <1>10, <1>11, <1>12, <1>13, <1>14, <1>15

InYears(h) == [y \in 1..Len(YearBudget) |-> emitted_in_year(h, y - 1)]

LEMMA EmissionTyped ==
    ASSUME NEW h \in Nat
    PROVE  InYears(h) \in [1..Len(YearBudget) -> Int] /\ Len(YearBudget) \in Nat /\ IsFiniteSet(1..Len(YearBudget))
<1>1. Len(YearBudget) \in Nat
  BY MonetaryAssumption
<1>2. ASSUME NEW y \in 1..Len(YearBudget)
      PROVE  emitted_in_year(h, y - 1) \in Int
  <2>1. PICK year \in Nat : year = y - 1
    BY <1>1
  <2>2. year < Len(YearBudget)
    BY <1>1, <2>1
  <2>3. emitted_in_year(h, year) \in Int
    BY <2>2, YearStep
  <2> QED
    BY <2>1, <2>3
<1>3. IsFiniteSet(1..Len(YearBudget))
  BY <1>1, FS_Interval
<1> QED
  BY <1>1, <1>2, <1>3 DEF InYears

LEMMA EmissionStep ==
    ASSUME NEW h \in Nat
    PROVE  SumFunction(InYears(h + 1)) = SumFunction(InYears(h)) + reward_units(h + 1) /\ SumFunction(InYears(h)) \in Int
<1>1. PICK n, g : n = Len(YearBudget) /\ g = h + 1
  OBVIOUS
<1>2. PICK before, after : before = InYears(h) /\ after = InYears(g)
  OBVIOUS
<1>3. g \in Nat /\ n \in Nat /\ before \in [1..n -> Int] /\ after \in [1..n -> Int] /\ IsFiniteSet(1..n)
  BY <1>1, <1>2, EmissionTyped
<1>4. ASSUME NEW y \in 1..n, NEW year, year = y - 1
      PROVE  after[y] = before[y] + (IF g < EmissionBlocks /\ g \div BlocksPerYear = year THEN reward_units(g) ELSE 0)
  <2>1. year \in Nat /\ year < Len(YearBudget)
    BY <1>1, <1>3, <1>4
  <2>2. after[y] = emitted_in_year(g, year) /\ before[y] = emitted_in_year(h, year)
    BY <1>1, <1>2, <1>4 DEF InYears
  <2> QED
    BY <1>1, <2>1, <2>2, YearStep
<1>5. CASE g < EmissionBlocks
  <2>1. PICK year : year = g \div BlocksPerYear
    OBVIOUS
  <2>2. year \in Nat
    BY <1>3, <1>5, <2>1, YearInRange
  <2>3. year < n
    BY <1>1, <1>3, <1>5, <2>1, YearInRange
  <2>4. PICK y \in 1..n : y = year + 1 /\ year = y - 1
    BY <1>3, <2>2, <2>3
  <2>5. after[y] = before[y] + reward_units(g)
    BY <1>4, <1>5, <2>1, <2>4
  <2>6. ASSUME NEW m \in 1..n, m # y
        PROVE  after[m] = before[m]
    <3>1. PICK k \in Nat : k = m - 1 /\ k # year
      BY <1>3, <2>2, <2>4, <2>6
    <3>2. after[m] = before[m] + 0
      BY <1>4, <2>1, <3>1
    <3> QED
      BY <1>3, <3>2
  <2>7. SumFunction(after) = SumFunction(before) + after[y] - before[y] /\ SumFunction(before) \in Int
    BY <1>3, <2>6, SumUpdate
  <2>8. before[y] \in Int /\ reward_units(g) \in Nat
    BY <1>3, RewardNatural
  <2>9. SumFunction(after) = SumFunction(before) + reward_units(g)
    BY <2>5, <2>7, <2>8
  <2> QED
    BY <1>1, <1>2, <2>7, <2>9
<1>6. CASE ~(g < EmissionBlocks)
  <2>1. reward_units(g) = 0
    <3>1. EmissionBlocks \in Nat
      BY EmissionEnds
    <3> QED
      BY <1>3, <1>6, <3>1 DEF reward_units
  <2>2. ASSUME NEW y \in 1..n
        PROVE  after[y] = before[y]
    <3>1. after[y] = before[y] + 0
      BY <1>4, <1>6
    <3> QED
      BY <1>3, <3>1
  <2>3. after = before
    BY <1>3, <2>2
  <2>4. SumFunction(before) \in Int
    BY <1>3, AdditiveExists, SumAdds
  <2> QED
    BY <1>1, <1>2, <2>1, <2>3, <2>4
<1> QED
  BY <1>5, <1>6

LEMMA EmissionStart == SumFunction(InYears(0)) = 0
<1>1. ASSUME NEW y \in 1..Len(YearBudget)
      PROVE  InYears(0)[y] = 0
  <2>1. PICK year : year = y - 1
    OBVIOUS
  <2>2. InYears(0)[y] = emitted_in_year(0, year)
    BY <2>1 DEF InYears
  <2>3. PICK lo, hi : lo = Greater(1, year * BlocksPerYear)
                      /\ hi = Lesser(Lesser(0, EmissionBlocks - 1), (year + 1) * BlocksPerYear - 1)
    OBVIOUS
  <2>4. year \in Nat /\ BlocksPerYear \in Nat /\ BlocksPerYear >= 1
    BY <2>1, MonetaryAssumption
  <2>5. lo \in Nat /\ lo >= 1
    <3>1. PICK a \in Nat : a = year * BlocksPerYear
      BY <2>4
    <3> QED
      BY <2>3, <3>1 DEF Greater
  <2>6. hi \in Int /\ hi <= 0
    <3>1. PICK a \in Int : a = EmissionBlocks - 1
      BY EmissionEnds
    <3>2. PICK b \in Int : b = (year + 1) * BlocksPerYear - 1
      BY <2>4
    <3> QED
      BY <2>3, <3>1, <3>2 DEF Lesser
  <2>7. lo > hi
    BY <2>5, <2>6
  <2>8. emitted_in_year(0, year) = 0
    BY <2>3, <2>7, Zenon DEF emitted_in_year
  <2> QED
    BY <2>2, <2>8
<1> QED
  BY <1>1, EmissionTyped, SumZero

LEMMA ClosedForm ==
    ASSUME NEW h \in Nat
    PROVE  emitted_supply_units(h) = SumFunction(InYears(h))
  BY EmissionStart DEF emitted_supply_units, InYears

\* The inductive invariant: nothing is negative, and the epoch of the first block is empty
\* before it.
MoneyInv ==
    /\ ledger_height \in Nat /\ transparent \in Nat /\ confidential_pool_value \in Nat /\ protocol_reserve \in Nat
    /\ emitted \in Nat /\ epoch_reward \in Rewards
    /\ ledger_height = 0 => epoch_reward = NoRewards
    /\ transparent + confidential_pool_value + protocol_reserve + Pending(epoch_reward) = GenesisUnits + emitted
    /\ SumFunction(InYears(ledger_height)) = emitted

LEMMA NothingPending == NoRewards \in Rewards /\ Pending(NoRewards) = 0
  BY DEF NoRewards, Rewards, Pending

LEMMA MoneyStart == MoInit => MoneyInv
<1> SUFFICES ASSUME MoInit PROVE MoneyInv
  OBVIOUS
<1>1. GenesisUnits \in Nat
  BY MonetaryAssumption
<1> QED
  BY <1>1, NothingPending, EmissionStart DEF MoInit, MoneyInv

\* What a block adds to the open epoch is its reward, its fees and what it burned.
LEMMA Accrued ==
    ASSUME NEW r \in Rewards, NEW h \in Nat, NEW fees \in Nat, NEW burned \in Nat, NEW signers, NEW leader,
           NEW a, a = accrue_frontier_epoch_reward(r, h, fees, signers, leader),
           NEW n, n = [a EXCEPT !.recycled = @ + burned]
    PROVE  n \in Rewards /\ Pending(n) = Pending(r) + reward_units(h) + fees + burned
<1>1. PICK gross : gross = reward_units(h)
  OBVIOUS
<1>2. gross \in Nat
  BY <1>1, RewardNatural
<1>3. PICK all : all = r.total + r.accrual + gross
  OBVIOUS
<1>4. r.total \in Nat /\ r.accrual \in Nat /\ r.fees \in Nat /\ r.recycled \in Nat /\ all \in Nat
  BY <1>2, <1>3 DEF Rewards
<1>5. PICK accrual : accrual = Percent(all, AccrualPercent)
  OBVIOUS
<1>6. accrual \in Nat /\ accrual <= all
  BY <1>4, <1>5, SharesOf, MonetaryAssumption
<1>7. PICK total, f : total = r.total + gross - (accrual - r.accrual) /\ f = r.fees + fees
  OBVIOUS
<1>8. total \in Nat /\ total + accrual = all /\ f \in Nat
  BY <1>2, <1>3, <1>4, <1>6, <1>7
<1>9. PICK score, expected, observed :
        /\ score = [m \in Members |-> r.score[m] + (1 + (IF m = leader THEN 1 ELSE 0))]
        /\ expected = [m \in Members |-> r.expected[m] + 1]
        /\ observed = [m \in Members |-> r.observed[m] + (IF m \in signers THEN 1 ELSE 0)]
  OBVIOUS
<1>10. score \in [Members -> Nat] /\ expected \in [Members -> Nat] /\ observed \in [Members -> Nat]
  <2>1. r.score \in [Members -> Nat] /\ r.expected \in [Members -> Nat] /\ r.observed \in [Members -> Nat]
    BY DEF Rewards
  <2> QED
    BY <1>9, <2>1
<1>11. a = [r EXCEPT !.total = total, !.accrual = accrual, !.fees = f,
                     !.score = score, !.expected = expected, !.observed = observed]
  BY <1>1, <1>3, <1>5, <1>7, <1>9, Zenon DEF accrue_frontier_epoch_reward
<1>12. a \in Rewards /\ a.total = total /\ a.accrual = accrual /\ a.fees = f /\ a.recycled = r.recycled
  BY <1>6, <1>8, <1>10, <1>11 DEF Rewards
<1>13. PICK recycled : recycled = a.recycled + burned
  OBVIOUS
<1>14. recycled \in Nat
  BY <1>4, <1>12, <1>13
<1>15. n = [a EXCEPT !.recycled = recycled]
  BY <1>13
<1>16. n \in Rewards /\ n.total = total /\ n.accrual = accrual /\ n.fees = f /\ n.recycled = recycled
  BY <1>12, <1>14, <1>15 DEF Rewards
<1> QED
  BY <1>1, <1>2, <1>3, <1>4, <1>6, <1>7, <1>8, <1>12, <1>13, <1>16 DEF Pending

LEMMA MoneyStep ==
    ASSUME MoneyInv, MoNext
    PROVE  MoneyInv'
<1>1. PICK t \in Transactions, signers \in SUBSET Members \ {{}}, leader \in Members, committee \in {{}, Members} :
        ApplyLedgerBlock(t, signers, leader, committee)
  BY DEF MoNext
<1>2. PICK fees, burned, hidden, revealed \in Nat :
        /\ fees = t.fees /\ burned = t.burned /\ hidden = t.hidden /\ revealed = t.revealed
        /\ fees + burned + hidden <= transparent /\ revealed <= confidential_pool_value + hidden
  BY MonetaryAssumption DEF Transactions
<1>3. PICK h : h = ledger_height + 1
  OBVIOUS
<1>4. PICK due : due = IF settles(h) THEN epoch_reward ELSE NoRewards
  OBVIOUS
<1>5. PICK subsidy : subsidy = IF settles(h) THEN reserve_payout_units(h, protocol_reserve + due.accrual) ELSE 0
  OBVIOUS
<1>6. PICK paid : paid = compute_epoch_settlement_payout(due, subsidy, leader, committee)
  OBVIOUS
<1>7. PICK accrued : accrued = accrue_frontier_epoch_reward(OpenEpoch(h), h, fees, signers, leader)
  OBVIOUS
<1>8. /\ ledger_height' = h
      /\ emitted' = emitted + reward_units(h)
      /\ protocol_reserve' = IF settles(h) THEN reserve_after_settlement(due, subsidy) ELSE protocol_reserve
      /\ epoch_reward' = [accrued EXCEPT !.recycled = @ + burned]
      /\ confidential_pool_value' = confidential_pool_value + hidden - revealed
      /\ transparent' = transparent + revealed - hidden - fees - burned + (IF settles(h) THEN paid ELSE 0)
  BY <1>1, <1>2, <1>3, <1>4, <1>5, <1>6, <1>7, Zenon DEF ApplyLedgerBlock
<1>9. /\ ledger_height \in Nat /\ transparent \in Nat /\ confidential_pool_value \in Nat /\ protocol_reserve \in Nat
      /\ emitted \in Nat /\ epoch_reward \in Rewards /\ (ledger_height = 0 => epoch_reward = NoRewards)
      /\ transparent + confidential_pool_value + protocol_reserve + Pending(epoch_reward) = GenesisUnits + emitted
      /\ SumFunction(InYears(ledger_height)) = emitted
  BY DEF MoneyInv
<1>10. h \in Nat /\ h >= 1 /\ reward_units(h) \in Nat /\ GenesisUnits \in Nat
  <2>1. ledger_height \in Nat
    BY <1>9
  <2>2. h \in Nat /\ h >= 1
    BY <1>3, <2>1
  <2>3. reward_units(h) \in Nat
    BY <2>2, RewardNatural
  <2> QED
    BY <2>2, <2>3, MonetaryAssumption
<1>11. SumFunction(InYears(h)) = emitted'
  BY <1>3, <1>8, <1>9, EmissionStep
<1>12. PICK open : open = OpenEpoch(h)
  OBVIOUS
<1>13. open \in Rewards /\ Pending(open) \in Nat
  <2>1. open \in Rewards
    BY <1>9, <1>12, NothingPending DEF OpenEpoch
  <2> QED
    BY <2>1 DEF Rewards, Pending
<1>14. epoch_reward' \in Rewards /\ Pending(epoch_reward') = Pending(open) + reward_units(h) + fees + burned
  BY <1>7, <1>8, <1>10, <1>12, <1>13, Accrued
<1>15. /\ ledger_height' \in Nat /\ ledger_height' # 0 /\ emitted' \in Nat /\ epoch_reward' \in Rewards
       /\ SumFunction(InYears(ledger_height')) = emitted'
  <2>1. ledger_height' = h /\ h # 0 /\ emitted' \in Nat
    BY <1>8, <1>9, <1>10
  <2> QED
    BY <1>10, <1>11, <1>14, <2>1, Zenon
<1>16. CASE settles(h)
  <2>1. open = NoRewards /\ due = epoch_reward
    BY <1>4, <1>12, <1>16 DEF OpenEpoch, settles
  <2>2. PICK total, accrual, f, recycled \in Nat :
          /\ total = due.total /\ accrual = due.accrual /\ f = due.fees /\ recycled = due.recycled
    BY <1>9, <2>1 DEF Rewards
  <2>3. subsidy \in Nat /\ subsidy <= protocol_reserve + accrual
    <3>1. PICK b \in Nat : b = protocol_reserve + accrual
      BY <1>9, <2>2
    <3>2. Percent(b, PayoutPercent) \in Nat /\ Percent(b, PayoutPercent) <= b
      BY SharesOf, MonetaryAssumption
    <3>3. subsidy = reserve_payout_units(h, b)
      BY <1>5, <1>16, <2>2, <3>1
    <3> QED
      BY <3>1, <3>2, <3>3 DEF reserve_payout_units
  <2>4. PICK share : share = fee_reserve_share_units(f)
    OBVIOUS
  <2>5. paid = total + f - share + subsidy /\ share \in Nat /\ share <= f
    BY <1>6, <1>9, <2>1, <2>2, <2>3, <2>4, SettlementPays
  <2>6. protocol_reserve' = (protocol_reserve + accrual + share + recycled) - subsidy
    <3>1. protocol_reserve' = reserve_after_settlement(due, subsidy)
      BY <1>8, <1>16
    <3>2. PICK credited : credited = protocol_reserve + accrual + share + recycled
      OBVIOUS
    <3>3. credited >= subsidy
      BY <1>9, <2>2, <2>3, <2>5, <3>2
    <3>4. reserve_after_settlement(due, subsidy) = credited - subsidy
      BY <2>2, <2>4, <3>2, <3>3 DEF reserve_after_settlement
    <3> QED
      BY <3>1, <3>2, <3>4, Zenon
  <2>7. Pending(epoch_reward) = total + accrual + f + recycled
    BY <2>1, <2>2 DEF Pending
  <2>8. transparent' = transparent + revealed - hidden - fees - burned + paid
    BY <1>8, <1>16
  <2>9. Pending(epoch_reward') = reward_units(h) + fees + burned
    BY <1>10, <1>14, <2>1, NothingPending
  <2>10. emitted' = emitted + reward_units(h) /\ confidential_pool_value' = confidential_pool_value + hidden - revealed
    BY <1>8
  <2>11. /\ transparent' \in Nat /\ confidential_pool_value' \in Nat /\ protocol_reserve' \in Nat
         /\ transparent' + confidential_pool_value' + protocol_reserve' + Pending(epoch_reward') = GenesisUnits + emitted'
    <3>1. PICK T, c, R, e, u, tn, cn, rn, en :
            /\ T = transparent /\ c = confidential_pool_value /\ R = protocol_reserve /\ e = emitted /\ u = reward_units(h)
            /\ tn = transparent' /\ cn = confidential_pool_value' /\ rn = protocol_reserve' /\ en = emitted'
      OBVIOUS
    <3>2. /\ T \in Nat /\ c \in Nat /\ R \in Nat /\ e \in Nat /\ u \in Nat
          /\ T + c + R + (total + accrual + f + recycled) = GenesisUnits + e
      BY <1>9, <1>10, <2>7, <3>1, Zenon
    <3>3. /\ tn = T + revealed - hidden - fees - burned + paid /\ cn = c + hidden - revealed
          /\ rn = (R + accrual + share + recycled) - subsidy /\ en = e + u
          /\ fees + burned + hidden <= T /\ revealed <= c + hidden /\ subsidy <= R + accrual
      BY <1>2, <2>3, <2>6, <2>8, <2>10, <3>1, Zenon
    <3>4. GenesisUnits \in Nat
      BY <1>10
    <3>5. tn \in Nat /\ cn \in Nat /\ rn \in Nat /\ tn + cn + rn + (u + fees + burned) = GenesisUnits + en
      BY <2>3, <2>5, <3>2, <3>3, <3>4
    <3> QED
      BY <2>9, <3>1, <3>5, Zenon
  <2> QED
    BY <1>15, <2>11, Zenon DEF MoneyInv
<1>17. CASE ~settles(h)
  <2>1. Pending(open) = Pending(epoch_reward)
    <3>1. CASE (h - 1) % BlocksPerEpoch = 0
      <4>1. PICK B : B = BlocksPerEpoch
        OBVIOUS
      <4>2. B \in Nat /\ B >= 1 /\ h - 1 = ledger_height /\ h <= B /\ ledger_height % B = 0
        BY <1>3, <1>9, <1>10, <1>17, <3>1, <4>1, MonetaryAssumption DEF settles
      <4>3. ledger_height % B = ledger_height
        <5>1. PICK l \in Nat : l = ledger_height /\ l < B
          BY <1>9, <1>10, <4>2
        <5>2. l % B = l
          BY <4>2, <5>1
        <5> QED
          BY <5>1, <5>2, Zenon
      <4>4. ledger_height = 0
        BY <4>2, <4>3
      <4> QED
        BY <1>9, <1>12, <3>1, <4>4 DEF OpenEpoch
    <3>2. CASE (h - 1) % BlocksPerEpoch # 0
      BY <1>12, <3>2 DEF OpenEpoch
    <3> QED
      BY <3>1, <3>2
  <2>2. protocol_reserve' = protocol_reserve /\ transparent' = transparent + revealed - hidden - fees - burned
    BY <1>2, <1>8, <1>9, <1>17
  <2>3. /\ transparent' \in Nat /\ confidential_pool_value' \in Nat /\ protocol_reserve' \in Nat
        /\ transparent' + confidential_pool_value' + protocol_reserve' + Pending(epoch_reward') = GenesisUnits + emitted'
    BY <1>2, <1>8, <1>9, <1>10, <1>13, <1>14, <2>1, <2>2
  <2> QED
    BY <1>15, <2>3, Zenon DEF MoneyInv
<1> QED
  BY <1>16, <1>17

\* No unit is made or lost, for every committee, every score and every block: the settlements pay
\* out the pools to the last unit, the reserve gets the rest, and the emission that has been
\* credited is the one the closed form says (consensus/monetary.cpp,
\* apply_frontier_record_impl of canonical_derivation.cpp).
THEOREM SupplyIsConserved == MoSpec => []SupplyConserved
<1>1. MoneyInv /\ UNCHANGED moVars => MoneyInv'
  BY Zenon DEF MoneyInv, moVars, Pending, InYears
<1>2. MoneyInv => SupplyConserved
  BY ClosedForm DEF MoneyInv, SupplyConserved
<1> QED
  BY <1>1, <1>2, MoneyStart, MoneyStep, PTL DEF MoSpec
-------------------------------------------------------------------------------
(* Controls: the difficulty does not swing and the base fee does not stick.      *)

\* The run at the end of the window is as long as it is counted.
LEMMA RunCounted ==
    ASSUME NEW K, NEW seen \in Seq(K), NEW kind, NEW n, n = Consecutive(seen, kind)
    PROVE  n \in 0..Len(seen) /\ \A i \in (Len(seen) - n + 1)..Len(seen) : seen[i] = kind
<1> DEFINE All(k) == \A i \in (Len(seen) - k + 1)..Len(seen) : seen[i] = kind
           run == [k \in 0..Len(seen) |-> All(k)]
           Ends(k) == run[k] /\ (k = Len(seen) \/ ~run[k + 1])
           R == {k \in 0..Len(seen) : run[k]}
           T == {k \in Nat : k > Len(seen) \/ k \in R}
<1>0. Len(seen) \in Nat
  OBVIOUS
<1>1. n = CHOOSE k \in 0..Len(seen) : Ends(k)
  BY Zenon DEF Consecutive
<1>2. \A k \in 0..Len(seen) : run[k] <=> All(k)
  BY Zenon
<1>3. All(0)
  BY <1>0
<1> HIDE DEF All, run
<1>4. \E k \in 0..Len(seen) : Ends(k)
  <2> SUFFICES ASSUME \A k \in 0..Len(seen) : ~Ends(k) PROVE FALSE
    OBVIOUS
  <2>1. 0 \in T
    BY <1>0, <1>2, <1>3
  <2>2. ASSUME NEW k \in T, k \in Nat
        PROVE  k + 1 \in T
    <3>1. CASE k >= Len(seen)
      BY <1>0, <2>2, <3>1
    <3>2. CASE k < Len(seen)
      <4>1. k \in 0..Len(seen) /\ run[k]
        BY <1>0, <2>2, <3>2
      <4>2. k + 1 \in 0..Len(seen) /\ k # Len(seen)
        BY <1>0, <2>2, <3>2
      <4> QED
        BY <4>1, <4>2, <2>2
    <3> QED
      BY <1>0, <2>2, <3>1, <3>2
  <2>3. Len(seen) \in T
    BY <1>0, <2>1, <2>2, Counting
  <2>4. Len(seen) \in 0..Len(seen) /\ run[Len(seen)]
    BY <1>0, <2>3
  <2> QED
    BY <2>4
<1>5. n \in 0..Len(seen) /\ Ends(n)
  BY <1>1, <1>4, Zenon
<1>6. All(n)
  BY <1>2, <1>5
<1> QED
  BY <1>5, <1>6 DEF All

EpochKinds == {"good", "poor", "fair"}

\* The inductive invariant: the epoch in which the difficulty last rose was good, and is
\* still in the window.
SteadyInv ==
    /\ ticket_difficulty_bits \in MinBits..MaxBits
    /\ epochs_seen \in Seq(EpochKinds) /\ Len(epochs_seen) <= WindowEpochs
    /\ since_rise \in 0..WindowEpochs
    /\ since_rise < 2 /\ WindowEpochs >= 2 =>
         Len(epochs_seen) >= 2 /\ epochs_seen[Len(epochs_seen) - since_rise] = "good"
    /\ base_fee_per_kib \in 0..MaxBaseFee

LEMMA BitsSteady ==
    ASSUME SteadyInv, NEW kind \in EpochKinds, NEW crowded \in BOOLEAN, CloseEpoch(kind, crowded)
    PROVE  SteadyInv' /\ (ticket_difficulty_bits' < ticket_difficulty_bits => since_rise >= 2)
<1>0. /\ MinBits \in Nat /\ MaxBits \in Nat /\ MinBits <= MaxBits /\ WindowEpochs \in Nat /\ WindowEpochs >= 1
  BY ControlAssumption
<1>1. PICK q, b, since : q = epochs_seen /\ b = ticket_difficulty_bits /\ since = since_rise
  OBVIOUS
<1>2. /\ b \in MinBits..MaxBits /\ q \in Seq(EpochKinds) /\ Len(q) <= WindowEpochs /\ since \in 0..WindowEpochs
      /\ since < 2 /\ WindowEpochs >= 2 => Len(q) >= 2 /\ q[Len(q) - since] = "good"
  BY <1>1, Zenon DEF SteadyInv
<1>3. PICK longer : longer = Append(q, kind)
  OBVIOUS
<1>4. PICK seen : seen = IF Len(longer) > WindowEpochs THEN Tail(longer) ELSE longer
  OBVIOUS
<1>5. PICK healthy, unhealthy :
        healthy = consecutive_healthy_epochs(seen, crowded) /\ unhealthy = consecutive_unhealthy_epochs(seen)
  OBVIOUS
<1>6. PICK bits : bits = adjust_bounded_ticket_difficulty_bits(b, crowded, healthy, unhealthy)
  OBVIOUS
<1>7. /\ epochs_seen' = seen /\ ticket_difficulty_bits' = bits /\ base_fee_per_kib' = base_fee_per_kib
      /\ since_rise' = IF bits > b THEN 0 ELSE IF since < WindowEpochs THEN since + 1 ELSE since
  BY <1>1, <1>3, <1>4, <1>5, <1>6, Zenon DEF CloseEpoch
<1>8. /\ longer \in Seq(EpochKinds) /\ Len(longer) = Len(q) + 1 /\ Len(q) \in Nat /\ longer[Len(q) + 1] = kind
      /\ \A i \in 1..Len(q) : longer[i] = q[i]
  BY <1>2, <1>3
<1>9. PICK drop \in {0, 1} : drop = IF Len(longer) > WindowEpochs THEN 1 ELSE 0
  OBVIOUS
<1>10. /\ seen \in Seq(EpochKinds) /\ Len(seen) = Len(q) + 1 - drop /\ Len(seen) \in Nat
       /\ \A i \in 1..Len(seen) : seen[i] = longer[i + drop]
  BY <1>4, <1>8, <1>9
<1>11. /\ Len(seen) >= 1 /\ Len(seen) <= WindowEpochs /\ seen[Len(seen)] = kind
       /\ drop = 1 => Len(q) = WindowEpochs
  BY <1>0, <1>2, <1>8, <1>9, <1>10
<1>12. ASSUME NEW k \in 1..(Len(seen) - 1)
       PROVE  seen[k] = q[k + drop]
  <2>1. k \in 1..Len(seen) /\ k + drop \in 1..Len(q)
    BY <1>9, <1>10
  <2>2. PICK j \in 1..Len(q) : j = k + drop
    BY <2>1
  <2> QED
    BY <1>8, <1>10, <2>1, <2>2
<1>13. healthy >= 2 => Len(seen) >= 2 /\ seen[Len(seen)] = "good"
  <2>1. CASE crowded
    <3>1. healthy = Consecutive(seen, "good")
      BY <1>5, <2>1 DEF consecutive_healthy_epochs
    <3>2. healthy \in 0..Len(seen) /\ \A i \in (Len(seen) - healthy + 1)..Len(seen) : seen[i] = "good"
      BY <1>10, <3>1, RunCounted
    <3> QED
      BY <1>10, <3>2
  <2>2. CASE ~crowded
    BY <1>5, <2>2 DEF consecutive_healthy_epochs
  <2> QED
    BY <2>1, <2>2
<1>14. healthy \in Int /\ unhealthy \in 0..Len(seen)
       /\ \A i \in (Len(seen) - unhealthy + 1)..Len(seen) : seen[i] = "poor"
  <2>1. unhealthy \in 0..Len(seen) /\ \A i \in (Len(seen) - unhealthy + 1)..Len(seen) : seen[i] = "poor"
    BY <1>5, <1>10, RunCounted DEF consecutive_unhealthy_epochs
  <2>2. Consecutive(seen, "good") \in Int
    BY <1>10, RunCounted
  <2>3. healthy \in Int
    BY <1>5, <2>2 DEF consecutive_healthy_epochs
  <2> QED
    BY <2>1, <2>3
<1>15. /\ bits \in MinBits..MaxBits
       /\ bits > b => healthy >= 2
       /\ bits < b => unhealthy >= 3
  <2>1. Clamp(b, MinBits, MaxBits) = b
    BY <1>0, <1>2 DEF Clamp
  <2>2. bits = IF crowded /\ healthy >= 2 /\ b < MaxBits THEN b + 1
               ELSE IF unhealthy >= 3 /\ b > MinBits THEN b - 1 ELSE b
    BY <1>6, <2>1, Zenon DEF adjust_bounded_ticket_difficulty_bits
  <2> QED
    BY <1>0, <1>2, <2>2
<1>16. bits < b => since >= 2
  <2> SUFFICES ASSUME bits < b, since < 2 PROVE FALSE
    BY <1>0, <1>2
  <2>1. unhealthy >= 3 /\ Len(seen) >= 3 /\ WindowEpochs >= 3
    BY <1>0, <1>10, <1>11, <1>14, <1>15
  <2>2. PICK k : k = Len(seen) - 1 - since
    OBVIOUS
  <2>3. k \in 1..(Len(seen) - 1) /\ k \in (Len(seen) - unhealthy + 1)..Len(seen) /\ k + drop = Len(q) - since
    BY <1>0, <1>2, <1>8, <1>9, <1>10, <1>14, <2>1, <2>2
  <2>4. seen[k] = "poor"
    BY <1>14, <2>3
  <2>5. seen[k] = q[Len(q) - since]
    BY <1>12, <2>3
  <2>6. q[Len(q) - since] = "good"
    BY <1>0, <1>2, <2>1
  <2> QED
    BY <2>4, <2>5, <2>6
<1>17. PICK later : later = IF bits > b THEN 0 ELSE IF since < WindowEpochs THEN since + 1 ELSE since
  OBVIOUS
<1>18. later \in 0..WindowEpochs
  BY <1>0, <1>2, <1>17
<1>19. ASSUME later < 2, WindowEpochs >= 2
       PROVE  Len(seen) >= 2 /\ seen[Len(seen) - later] = "good"
  <2>1. CASE bits > b
    <3>1. later = 0 /\ Len(seen) - 0 = Len(seen)
      BY <1>10, <1>17, <2>1
    <3> QED
      BY <1>13, <1>15, <2>1, <3>1
  <2>2. CASE ~(bits > b)
    <3>1. since = 0 /\ later = 1
      BY <1>0, <1>2, <1>17, <1>19, <2>2
    <3>2. Len(q) >= 2 /\ q[Len(q) - 0] = "good" /\ Len(q) - 0 = Len(q)
      BY <1>2, <1>8, <1>19, <3>1
    <3>3. PICK k : k = Len(seen) - 1
      OBVIOUS
    <3>4. Len(seen) >= 2 /\ k \in 1..(Len(seen) - 1) /\ k + drop = Len(q)
      BY <1>2, <1>8, <1>9, <1>10, <1>11, <1>19, <3>2, <3>3
    <3>5. seen[k] = q[Len(q)]
      BY <1>12, <3>4
    <3> QED
      BY <3>1, <3>2, <3>3, <3>4, <3>5
  <2> QED
    BY <2>1, <2>2
<1>20. SteadyInv'
  <2>1. base_fee_per_kib' \in 0..MaxBaseFee
    BY <1>7 DEF SteadyInv
  <2>2. epochs_seen' = seen /\ ticket_difficulty_bits' = bits /\ since_rise' = later
    BY <1>7, <1>17, Zenon
  <2> QED
    BY <1>10, <1>11, <1>15, <1>18, <1>19, <2>1, <2>2, Zenon DEF SteadyInv
<1> QED
  BY <1>1, <1>7, <1>16, <1>20, Zenon

LEMMA FeeMoves ==
    ASSUME NEW base \in 0..MaxBaseFee, NEW fullness \in 0..(2 * Target),
           NEW next, next = next_base_fee_per_kib(base, fullness)
    PROVE  /\ next \in 0..MaxBaseFee
           /\ fullness < Target /\ base > 0 => next < base
           /\ fullness > Target /\ base < MaxBaseFee => next > base
<1>0. MaxBaseFee \in Nat /\ Target \in Nat /\ Target >= 1 /\ base \in Nat /\ fullness \in Nat
  BY ControlAssumption
<1>1. ASSUME NEW d \in Nat
      PROVE  base_fee_step(base, d) \in Nat /\ base_fee_step(base, d) >= 1
  <2>1. PICK c, t : c = base * d /\ t = Target * 8
    OBVIOUS
  <2>2. c \in Nat /\ t \in Nat /\ t >= 1
    BY <1>0, <2>1
  <2>3. c \div t \in Nat
    BY <2>2
  <2> QED
    BY <2>1, <2>3 DEF base_fee_step
<1>2. CASE fullness > Target
  <2>1. PICK step : step = base_fee_step(base, fullness - Target)
    OBVIOUS
  <2>2. step \in Nat /\ step >= 1
    BY <1>0, <1>1, <1>2, <2>1
  <2>3. next = Clamp(base + step, 0, MaxBaseFee)
    BY <1>2, <2>1 DEF next_base_fee_per_kib
  <2> QED
    BY <1>0, <1>2, <2>2, <2>3 DEF Clamp
<1>3. CASE fullness < Target
  <2>1. PICK step : step = base_fee_step(base, Target - fullness)
    OBVIOUS
  <2>2. step \in Nat /\ step >= 1
    BY <1>0, <1>1, <1>3, <2>1
  <2>3. ~(fullness > Target)
    BY <1>0, <1>3
  <2>4. next = Clamp(IF base > step THEN base - step ELSE 0, 0, MaxBaseFee)
    BY <1>3, <2>1, <2>3 DEF next_base_fee_per_kib
  <2> QED
    BY <1>0, <1>3, <2>2, <2>3, <2>4 DEF Clamp
<1>4. CASE fullness = Target
  <2>1. next = Clamp(base, 0, MaxBaseFee)
    BY <1>0, <1>4 DEF next_base_fee_per_kib
  <2> QED
    BY <1>0, <1>4, <2>1 DEF Clamp
<1> QED
  BY <1>0, <1>2, <1>3, <1>4

LEMMA SteadyStep ==
    ASSUME SteadyInv, [AcNext]_acVars
    PROVE  SteadyInv' /\ (ticket_difficulty_bits' < ticket_difficulty_bits => since_rise >= 2)
<1>0. MinBits \in Nat /\ MaxBits \in Nat
  BY ControlAssumption
<1>1. CASE UNCHANGED acVars
  BY <1>0, <1>1 DEF SteadyInv, acVars
<1>2. ASSUME NEW kind \in EpochKinds, NEW crowded \in BOOLEAN, CloseEpoch(kind, crowded)
      PROVE  SteadyInv' /\ (ticket_difficulty_bits' < ticket_difficulty_bits => since_rise >= 2)
  BY <1>2, BitsSteady
<1>3. ASSUME NEW fullness \in 0..(2 * Target), FillBlock(fullness)
      PROVE  SteadyInv' /\ (ticket_difficulty_bits' < ticket_difficulty_bits => since_rise >= 2)
  <2>1. base_fee_per_kib' \in 0..MaxBaseFee
    BY <1>3, FeeMoves DEF FillBlock, SteadyInv
  <2> QED
    BY <1>0, <1>3, <2>1 DEF FillBlock, SteadyInv
<1> QED
  BY <1>1, <1>2, <1>3 DEF AcNext, EpochKinds

\* After the ticket difficulty rose it falls at the earliest three epochs later; a block emptier
\* than the target lowers the base fee and a fuller one raises it unless it is at its bound
\* (adjust_bounded_ticket_difficulty_bits and next_base_fee_per_kib).
THEOREM ControlsAreSteady == AcSpec => ControlsSteady
<1>1. AcInit => SteadyInv
  BY ControlAssumption DEF AcInit, SteadyInv
<1>2. ASSUME SteadyInv, [AcNext]_acVars
      PROVE  /\ ticket_difficulty_bits' < ticket_difficulty_bits => since_rise >= 2
             /\ \A fullness \in 0..(2 * Target) :
                  LET next == next_base_fee_per_kib(base_fee_per_kib, fullness)
                  IN  /\ fullness < Target /\ base_fee_per_kib > 0 => next < base_fee_per_kib
                      /\ fullness > Target /\ base_fee_per_kib < MaxBaseFee => next > base_fee_per_kib
  <2>1. base_fee_per_kib \in 0..MaxBaseFee
    BY <1>2 DEF SteadyInv
  <2>2. ASSUME NEW fullness \in 0..(2 * Target), NEW next, next = next_base_fee_per_kib(base_fee_per_kib, fullness)
        PROVE  /\ fullness < Target /\ base_fee_per_kib > 0 => next < base_fee_per_kib
               /\ fullness > Target /\ base_fee_per_kib < MaxBaseFee => next > base_fee_per_kib
    BY <2>1, <2>2, FeeMoves
  <2> QED
    BY <1>2, <2>2, SteadyStep, Zenon
<1>3. SteadyInv /\ [AcNext]_acVars => SteadyInv'
  BY SteadyStep
<1> QED
  BY <1>1, <1>2, <1>3, PTL DEF AcSpec, ControlsSteady

-------------------------------------------------------------------------------
(* The memory pool: its indices follow its entries.                             *)

\* The sizes of a pool add up over any part of it.
Sizes(S) == [t \in S |-> t.size]

LEMMA BytesAdd ==
    ASSUME NEW S, IsFiniteSet(S), S \subseteq Txs
    PROVE  \E F : Adds(F, Sizes(S), S) /\ \A T \in SUBSET S : Bytes(T) = F[T]
<1>1. Sizes(S) \in [S -> Int]
  BY MempoolAssumption DEF Sizes
<1>2. PICK F : Adds(F, Sizes(S), S)
  BY <1>1, AdditiveExists
<1>3. ASSUME NEW T \in SUBSET S
      PROVE  Bytes(T) = F[T]
  <2> DEFINE G == [s \in SUBSET T |-> F[s]]
  <2>1. G \in [SUBSET T -> Int] /\ G[{}] = 0 /\ G[T] = F[T]
    BY <1>2 DEF Adds
  <2>2. ASSUME NEW s \in SUBSET T, NEW c \in s
        PROVE  G[s] = Sizes(T)[c] + G[s \ {c}]
    <3>1. PICK r \in SUBSET T : r = s \ {c}
      OBVIOUS
    <3>2. F[s] = Sizes(S)[c] + F[r]
      BY <1>2, <3>1 DEF Adds
    <3>3. Sizes(S)[c] = Sizes(T)[c] /\ G[s] = F[s] /\ G[r] = F[r]
      BY DEF Sizes
    <3> QED
      BY <3>1, <3>2, <3>3
  <2>3. IsFiniteSet(T) /\ Sizes(T) \in [T -> Int]
    BY FS_Subset, MempoolAssumption DEF Sizes
  <2> HIDE DEF G
  <2>4. Adds(G, Sizes(T), T)
    BY <2>1, <2>2, Zenon DEF Adds
  <2>5. SumFunction(Sizes(T)) = G[T]
    BY <2>3, <2>4, SumAdds
  <2> QED
    BY <2>1, <2>5, Zenon DEF Bytes, Sizes
<1> QED
  BY <1>2, <1>3

LEMMA BytesOf ==
    ASSUME NEW S, IsFiniteSet(S), S \subseteq Txs
    PROVE  /\ Bytes(S) \in Int /\ Bytes({}) = 0
           /\ \A t \in S : Bytes({t}) = t.size /\ Bytes(S \ {t}) = Bytes(S) - t.size
<1>1. PICK F : Adds(F, Sizes(S), S) /\ \A T \in SUBSET S : Bytes(T) = F[T]
  BY BytesAdd
<1>2. Bytes(S) \in Int /\ Bytes({}) = 0
  BY <1>1 DEF Adds
<1>3. ASSUME NEW t \in S
      PROVE  Bytes({t}) = t.size /\ Bytes(S \ {t}) = Bytes(S) - t.size
  <2>1. Sizes(S)[t] = t.size /\ t.size \in Int
    BY MempoolAssumption DEF Sizes
  <2>2. F[{t}] = t.size + F[{t} \ {t}] /\ F[S] = t.size + F[S \ {t}]
    <3>1. PICK one \in SUBSET S : one = {t}
      OBVIOUS
    <3>2. F[one] = t.size + F[one \ {t}] /\ F[S] = t.size + F[S \ {t}]
      BY <1>1, <2>1, <3>1 DEF Adds
    <3> QED
      BY <3>1, <3>2
  <2>3. F[{t} \ {t}] = 0 /\ F[S \ {t}] \in Int
    <3>1. PICK none : none = {t} \ {t} /\ none = {}
      OBVIOUS
    <3> QED
      BY <1>1, <3>1 DEF Adds
  <2>4. Bytes({t}) = F[{t}] /\ Bytes(S) = F[S] /\ Bytes(S \ {t}) = F[S \ {t}]
    BY <1>1
  <2> QED
    BY <2>1, <2>2, <2>3, <2>4
<1> QED
  BY <1>2, <1>3

LEMMA BytesDropped ==
    ASSUME NEW S, IsFiniteSet(S), S \subseteq Txs, NEW D \in SUBSET S
    PROVE  Bytes(S \ D) = Bytes(S) - Bytes(D) /\ Bytes(D) \in Nat
<1>1. PICK F : Adds(F, Sizes(S), S) /\ \A T \in SUBSET S : Bytes(T) = F[T]
  BY BytesAdd
<1> DEFINE P == {T \in SUBSET D : F[S \ T] = F[S] - F[T] /\ F[T] \in Nat}
<1>2. {} \in P
  <2>1. S \ {} = S /\ F[{}] = 0 /\ F[S] \in Int
    BY <1>1 DEF Adds
  <2> QED
    BY <2>1
<1>3. ASSUME NEW T \in SUBSET D, NEW x \in D, T \in P, x \notin T
      PROVE  T \cup {x} \in P
  <2>1. PICK U \in SUBSET D : U = T \cup {x}
    OBVIOUS
  <2>2. U \ {x} = T /\ x \in U /\ x \in S \ T /\ (S \ T) \ {x} = S \ U
    BY <1>3, <2>1
  <2>3. Sizes(S)[x] = x.size /\ x.size \in Nat
    BY MempoolAssumption DEF Sizes
  <2>4. F[U] = x.size + F[T] /\ F[S \ T] = x.size + F[S \ U]
    BY <1>1, <2>2, <2>3 DEF Adds
  <2>5. F[S \ U] \in Int /\ F[S] \in Int
    BY <1>1 DEF Adds
  <2>6. F[S \ U] = F[S] - F[U] /\ F[U] \in Nat
    BY <1>3, <2>3, <2>4, <2>5
  <2> QED
    BY <2>1, <2>6
<1>4. D \in P
  <2>1. IsFiniteSet(D)
    BY FS_Subset
  <2> HIDE DEF P
  <2> QED
    BY <1>2, <1>3, <2>1, Gathering
<1> QED
  BY <1>1, <1>4
\* The entries are marked once each, and the limits hold.
Marks(txs) == UNION {t.inputs \X {t.id} : t \in txs}

SoundPool(p) ==
    /\ DOMAIN p = {"txs", "index", "spent", "bytes"}
    /\ p.txs \subseteq Txs /\ IsFiniteSet(p.txs)
    /\ p.spent = Marks(p.txs)
    /\ \A s, t \in p.txs : s # t => s.inputs \cap t.inputs = {}
    /\ p.index = p.txs /\ p.bytes = Bytes(p.txs)
    /\ p.bytes <= MaxPoolBytes /\ Cardinality(p.txs) <= MaxTxCount

\* And each entry can be included in a block after this state of the chain.
Includable(txs, view, value) ==
    \A t \in txs : t.inputs \subseteq view /\ (t.v2 => pool_value_admits(value, t.delta))

LEMMA MarksLeft ==
    ASSUME NEW S, NEW D \in SUBSET S, \A s, t \in S : s # t => s.inputs \cap t.inputs = {}
    PROVE  erase_entry(D, Marks(S)) = Marks(S \ D)
<1>1. ASSUME NEW x \in erase_entry(D, Marks(S))
      PROVE  x \in Marks(S \ D)
  <2>1. PICK t \in S : x \in t.inputs \X {t.id}
    BY <1>1 DEF erase_entry, Marks
  <2>2. t \notin D
    BY <1>1, <2>1 DEF erase_entry
  <2> QED
    BY <2>1, <2>2 DEF Marks
<1>2. ASSUME NEW x \in Marks(S \ D)
      PROVE  x \in erase_entry(D, Marks(S))
  <2>1. PICK t \in S \ D : x \in t.inputs \X {t.id}
    BY <1>2 DEF Marks
  <2>2. x \in Marks(S)
    BY <2>1 DEF Marks
  <2>3. ASSUME NEW d \in D, x \in d.inputs \X {d.id}
        PROVE  FALSE
    <3>1. x[1] \in d.inputs /\ x[1] \in t.inputs /\ d # t
      BY <2>1, <2>3
    <3> QED
      BY <3>1
  <2> QED
    BY <2>2, <2>3 DEF erase_entry
<1> QED
  BY <1>1, <1>2

LEMMA KeepingSound ==
    ASSUME NEW p, SoundPool(p), NEW D \in SUBSET p.txs
    PROVE  SoundPool(Keeping(D, p)) /\ Keeping(D, p).txs = p.txs \ D
<1> DEFINE q == Keeping(D, p)
<1>1. /\ q.txs = p.txs \ D /\ q.index = p.index \ D /\ q.spent = erase_entry(D, p.spent)
      /\ q.bytes = p.bytes - Bytes(D \cap p.txs) /\ DOMAIN q = {"txs", "index", "spent", "bytes"}
  BY DEF Keeping
<1>2. D \cap p.txs = D /\ IsFiniteSet(q.txs) /\ Cardinality(q.txs) <= Cardinality(p.txs)
  BY <1>1, FS_Subset DEF SoundPool
<1>3. q.bytes = Bytes(q.txs) /\ q.bytes <= p.bytes
  <2>1. Bytes(p.txs \ D) = Bytes(p.txs) - Bytes(D) /\ Bytes(D) \in Nat /\ Bytes(p.txs) \in Int
    BY BytesDropped, BytesOf DEF SoundPool
  <2>2. Bytes(D \cap p.txs) = Bytes(D) /\ Bytes(q.txs) = Bytes(p.txs \ D)
    BY <1>1, <1>2, Zenon
  <2>3. p.bytes = Bytes(p.txs) /\ q.bytes = p.bytes - Bytes(D)
    BY <1>1, <2>2 DEF SoundPool
  <2> QED
    BY <2>1, <2>2, <2>3
<1>4. q.spent = Marks(q.txs)
  BY <1>1, MarksLeft DEF SoundPool
<1>5. q.bytes \in Int /\ p.bytes \in Int /\ Cardinality(q.txs) \in Nat /\ Cardinality(p.txs) \in Nat
  BY <1>1, <1>2, <1>3, BytesOf, FS_CardinalityType DEF SoundPool
<1> HIDE DEF q
<1>6. SoundPool(q)
  BY <1>1, <1>2, <1>3, <1>4, <1>5, MempoolAssumption DEF SoundPool
<1> QED
  BY <1>1, <1>6 DEF q

LEMMA InsertingSound ==
    ASSUME NEW p, SoundPool(p), NEW tx \in Txs, tx \notin p.txs,
           \A op \in tx.inputs : \A s \in p.spent : s[1] # op,
           p.bytes + tx.size <= MaxPoolBytes, Cardinality(p.txs) + 1 <= MaxTxCount
    PROVE  SoundPool(Inserting(tx, p)) /\ Inserting(tx, p).txs = p.txs \cup {tx}
<1> DEFINE q == Inserting(tx, p)
<1>1. /\ q.txs = p.txs \cup {tx} /\ q.index = p.index \cup {tx} /\ q.spent = p.spent \cup (tx.inputs \X {tx.id})
      /\ q.bytes = p.bytes + tx.size /\ DOMAIN q = {"txs", "index", "spent", "bytes"}
  BY DEF Inserting
<1> HIDE DEF q
<1>2. IsFiniteSet(q.txs) /\ Cardinality(q.txs) = Cardinality(p.txs) + 1 /\ q.txs \subseteq Txs
  BY <1>1, FS_AddElement DEF SoundPool
<1>3. q.bytes = Bytes(q.txs)
  <2>1. q.txs \ {tx} = p.txs /\ tx \in q.txs
    BY <1>1
  <2>2. Bytes(q.txs \ {tx}) = Bytes(q.txs) - tx.size /\ Bytes(q.txs) \in Int /\ tx.size \in Int
    <3>1. Bytes(q.txs) \in Int /\ \A t \in q.txs : Bytes(q.txs \ {t}) = Bytes(q.txs) - t.size
      BY <1>2, BytesOf
    <3> QED
      BY <2>1, <3>1, MempoolAssumption
  <2>3. Bytes(q.txs \ {tx}) = Bytes(p.txs)
    BY <2>1, Zenon
  <2> QED
    BY <1>1, <2>2, <2>3 DEF SoundPool
<1>4. q.spent = Marks(q.txs)
  BY <1>1 DEF SoundPool, Marks
<1>5. ASSUME NEW t \in p.txs
      PROVE  t.inputs \cap tx.inputs = {}
  <2>1. ASSUME NEW op \in t.inputs, op \in tx.inputs
        PROVE  FALSE
    <3>1. <<op, t.id>> \in p.spent
      BY DEF SoundPool, Marks
    <3> QED
      BY <2>1, <3>1
  <2> QED
    BY <2>1
<1>6. \A s, t \in q.txs : s # t => s.inputs \cap t.inputs = {}
  BY <1>1, <1>5 DEF SoundPool
<1>7. SoundPool(q)
  BY <1>1, <1>2, <1>3, <1>4, <1>6 DEF SoundPool
<1> QED
  BY <1>1, <1>7 DEF q
\* Multiplication by a positive number keeps the order.
LEMMA TimesKeepsOrder ==
    ASSUME NEW a \in Nat, NEW b \in Nat, NEW c \in Nat
    PROVE  /\ a <= b => a * c <= b * c
           /\ a < b /\ c > 0 => a * c < b * c
           /\ a * c < b * c => a < b
           /\ a * c = b * c /\ c > 0 => a = b
           /\ a * c \in Nat /\ a * c = c * a
<1>1. a * c \in Nat /\ b * c \in Nat /\ a * c = c * a
  BY SMT
<1>2. ASSUME a <= b
      PROVE  a * c <= b * c
  <2>1. PICK d \in Nat : b = a + d
    BY <1>2
  <2>2. b * c = a * c + d * c /\ d * c \in Nat
    BY <2>1
  <2> QED
    BY <1>1, <2>2
<1>3. ASSUME a < b, c > 0
      PROVE  a * c < b * c
  <2>1. PICK d \in Nat : b = a + d /\ d >= 1
    BY <1>3
  <2>2. b * c = a * c + d * c
    BY <2>1
  <2>3. PICK e \in Nat : d = 1 + e
    BY <2>1
  <2>4. d * c = c + e * c /\ e * c \in Nat
    BY <2>3
  <2> QED
    BY <1>1, <1>3, <2>2, <2>4
<1>4. ASSUME b <= a
      PROVE  b * c <= a * c
  <2>1. PICK d \in Nat : a = b + d
    BY <1>4
  <2>2. a * c = b * c + d * c /\ d * c \in Nat
    BY <2>1
  <2> QED
    BY <1>1, <2>2
<1>5. ASSUME b < a, c > 0
      PROVE  b * c < a * c
  <2>1. PICK d \in Nat : a = b + d /\ d >= 1
    BY <1>5
  <2>2. a * c = b * c + d * c
    BY <2>1
  <2>3. PICK e \in Nat : d = 1 + e
    BY <2>1
  <2>4. d * c = c + e * c /\ e * c \in Nat
    BY <2>3
  <2> QED
    BY <1>1, <1>5, <2>2, <2>4
<1> QED
  BY <1>1, <1>2, <1>3, <1>4, <1>5

\* Fee rates compared crosswise are ordered.
LEMMA RatesOrdered ==
    ASSUME NEW fa \in Nat, NEW wa \in Nat \ {0}, NEW fb \in Nat, NEW wb \in Nat \ {0}, NEW fc \in Nat, NEW wc \in Nat \ {0},
           fa * wb <= fb * wa, fb * wc <= fc * wb
    PROVE  /\ fa * wc <= fc * wa
           /\ fa * wb < fb * wa \/ fb * wc < fc * wb => fa * wc < fc * wa
<1>1. PICK x1, x2, y1, y2 \in Nat : x1 = fa * wb /\ x2 = fb * wa /\ y1 = fb * wc /\ y2 = fc * wb
  BY TimesKeepsOrder
<1>2. x1 * wc <= x2 * wc /\ y1 * wa <= y2 * wa
  BY <1>1, TimesKeepsOrder
<1>3. x1 < x2 => x1 * wc < x2 * wc
  BY TimesKeepsOrder
<1>4. y1 < y2 => y1 * wa < y2 * wa
  BY TimesKeepsOrder
<1>5. PICK u, v \in Nat : u = fa * wc /\ v = fc * wa
  BY TimesKeepsOrder
<1>6. x1 * wc = u * wb /\ x2 * wc = y1 * wa /\ y2 * wa = v * wb
  BY <1>1, <1>5
<1>7. x1 * wc \in Nat /\ x2 * wc \in Nat /\ y2 * wa \in Nat
  BY TimesKeepsOrder
<1>8. u * wb <= v * wb /\ (x1 < x2 \/ y1 < y2 => u * wb < v * wb)
  BY <1>2, <1>3, <1>4, <1>6, <1>7
<1>9. (u * wb < v * wb => u < v) /\ (u * wb = v * wb => u = v)
  BY TimesKeepsOrder
<1>10. u * wb \in Nat /\ v * wb \in Nat
  BY TimesKeepsOrder
<1>11. u <= v /\ (x1 < x2 \/ y1 < y2 => u < v)
  BY <1>8, <1>9, <1>10
<1> QED
  BY <1>1, <1>5, <1>11
LEMMA WeightOf ==
    ASSUME NEW t \in Txs
    PROVE  /\ Max({1, t.size}) \in Nat \ {0} /\ effective_score_weight(t) \in Nat \ {0}
           /\ Max({1, t.size}) <= effective_score_weight(t)
<1>1. t.size \in Nat /\ t.verify \in Nat
  BY MempoolAssumption
<1>2. \E x \in {1, t.size} : \A y \in {1, t.size} : x >= y
  BY <1>1
<1>3. Max({1, t.size}) \in {1, t.size} /\ \A y \in {1, t.size} : Max({1, t.size}) >= y
  BY <1>2, Zenon DEF Max
<1>4. PICK m : m = Max({1, t.size})
  OBVIOUS
<1>5. m \in Nat \ {0} /\ effective_score_weight(t) = m + 4 * t.verify
  BY <1>1, <1>3, <1>4 DEF effective_score_weight
<1> QED
  BY <1>1, <1>4, <1>5

\* The order of eviction is a strict total order of the transactions.
LEMMA EntriesOrdered ==
    ASSUME NEW a \in Txs, NEW b \in Txs
    PROVE  /\ a # b => EntryLess(a, b) \/ EntryLess(b, a)
           /\ \A c \in Txs : EntryLess(a, b) /\ EntryLess(b, c) => EntryLess(a, c)
<1> DEFINE w(t) == effective_score_weight(t)
<1>1. \A t \in Txs : t.fee \in Nat /\ t.id \in Nat /\ w(t) \in Nat \ {0}
  BY WeightOf, MempoolAssumption
<1> HIDE DEF w
<1>2. ASSUME a # b
      PROVE  EntryLess(a, b) \/ EntryLess(b, a)
  <2>1. a.id # b.id
    BY <1>2, MempoolAssumption
  <2>2. PICK x, y \in Nat : x = a.fee * w(b) /\ y = b.fee * w(a)
    BY <1>1, TimesKeepsOrder
  <2> QED
    BY <1>1, <2>1, <2>2 DEF EntryLess, KeyLess, w
<1>3. ASSUME NEW c \in Txs, EntryLess(a, b), EntryLess(b, c)
      PROVE  EntryLess(a, c)
  <2>1. PICK x1, x2, y1, y2, z1, z2 \in Nat :
           /\ x1 = a.fee * w(b) /\ x2 = b.fee * w(a) /\ y1 = b.fee * w(c) /\ y2 = c.fee * w(b)
           /\ z1 = a.fee * w(c) /\ z2 = c.fee * w(a)
    <3>1. \A s, t \in Txs : s.fee * w(t) \in Nat
      BY <1>1, TimesKeepsOrder
    <3> QED
      BY <3>1
  <2>2. x1 <= x2 /\ y1 <= y2
    BY <1>3, <2>1 DEF EntryLess, KeyLess, w
  <2>3. z1 <= z2 /\ (x1 < x2 \/ y1 < y2 => z1 < z2)
    BY <1>1, <2>1, <2>2, RatesOrdered
  <2>4. x1 < x2 \/ (a.fee < b.fee \/ (a.fee = b.fee /\ a.id > b.id))
    BY <1>3, <2>1, <2>2 DEF EntryLess, KeyLess, w
  <2>5. y1 < y2 \/ (b.fee < c.fee \/ (b.fee = c.fee /\ b.id > c.id))
    BY <1>3, <2>1, <2>2 DEF EntryLess, KeyLess, w
  <2>6. z1 < z2 \/ (z1 = z2 /\ (a.fee < c.fee \/ (a.fee = c.fee /\ a.id > c.id)))
    BY <1>1, <2>3, <2>4, <2>5
  <2> QED
    BY <2>1, <2>6 DEF EntryLess, KeyLess, w
<1> QED
  BY <1>2, <1>3

\* So a pool that is not empty has a worst entry.
LEMMA WorstExists ==
    ASSUME NEW S, IsFiniteSet(S), S \subseteq Txs, S # {}
    PROVE  worst_entry(S) \in S
<1> DEFINE Lowest(T, x) == x \in T /\ \A t \in T \ {x} : EntryLess(x, t)
           P == {T \in SUBSET S : T = {} \/ \E x : Lowest(T, x)}
<1>1. {} \in P
  OBVIOUS
<1>2. ASSUME NEW T \in SUBSET S, NEW x \in S, T \in P, x \notin T
      PROVE  T \cup {x} \in P
  <2>1. CASE T = {}
    <3>1. Lowest(T \cup {x}, x)
      BY <2>1
    <3> QED
      BY <3>1
  <2>2. CASE T # {}
    <3>1. PICK y : Lowest(T, y)
      BY <1>2, <2>2
    <3>2. x \in Txs /\ y \in Txs /\ x # y
      BY <1>2, <3>1
    <3>3. CASE EntryLess(x, y)
      <4>1. \A t \in T \ {y} : EntryLess(x, t)
        BY <3>1, <3>2, <3>3, EntriesOrdered
      <4>2. Lowest(T \cup {x}, x)
        BY <3>3, <4>1
      <4> QED
        BY <4>2
    <3>4. CASE EntryLess(y, x)
      <4>1. Lowest(T \cup {x}, y)
        BY <3>1, <3>4
      <4> QED
        BY <4>1
    <3> QED
      BY <3>2, <3>3, <3>4, EntriesOrdered
  <2> QED
    BY <2>1, <2>2
<1>3. S \in P
  <2> HIDE DEF P
  <2> QED
    BY <1>1, <1>2, Gathering
<1>4. \E x \in S : \A t \in S \ {x} : EntryLess(x, t)
  BY <1>3
<1> QED
  BY <1>4, Zenon DEF worst_entry

\* The cheap comparison never refuses what the full one would take: a lighter weight can only
\* improve a transaction.
LEMMA PrefilterIsSafe ==
    ASSUME NEW tx \in Txs, NEW worst \in Txs, EntryLess(worst, tx)
    PROVE  ~fast_key_loses(tx, worst)
<1>1. /\ tx.fee \in Nat /\ worst.fee \in Nat /\ tx.id \in Nat /\ worst.id \in Nat
  BY MempoolAssumption
<1>2. PICK l, h, w \in Nat \ {0} : /\ l = Max({1, tx.size}) /\ h = effective_score_weight(tx)
                                  /\ w = effective_score_weight(worst) /\ l <= h
  BY WeightOf
<1>3. PICK x, y, z \in Nat : x = worst.fee * h /\ y = worst.fee * l /\ z = tx.fee * w
  BY <1>1, TimesKeepsOrder
<1>4. y <= x
  <2>1. l * worst.fee <= h * worst.fee
    BY <1>1, <1>2, TimesKeepsOrder
  <2> QED
    BY <1>1, <1>2, <1>3, <2>1, TimesKeepsOrder
<1>5. x < z \/ (x = z /\ worst.fee < tx.fee) \/ (x = z /\ worst.fee = tx.fee /\ worst.id > tx.id)
  BY <1>2, <1>3 DEF EntryLess, KeyLess
<1>6. y < z \/ y = z
  BY <1>4, <1>5
<1>7. KeyLess(worst.fee, w, worst.id, tx.fee, l, tx.id)
  BY <1>3, <1>4, <1>5, <1>6 DEF KeyLess
<1> QED
  BY <1>2, <1>7 DEF fast_key_loses
\* The inductive invariant.  The turnstile value the pool works with is the finalized one, so
\* a pool that is not pruned for it need not be.
MpInv == SoundPool(ThePool) /\ Includable(by_txid, utxos, committed) /\ pool_value = committed

LEMMA PoolSet ==
    ASSUME NEW q, SoundPool(q), SetPool(q)
    PROVE  SoundPool(ThePool)' /\ by_txid' = q.txs
<1>1. by_txid' = q.txs /\ eviction_index' = q.index /\ spent_outpoints' = q.spent /\ total_bytes' = q.bytes
  BY DEF SetPool
<1>2. PICK r : r = ThePool'
  OBVIOUS
<1>3. /\ DOMAIN r = {"txs", "index", "spent", "bytes"}
      /\ r.txs = q.txs /\ r.index = q.index /\ r.spent = q.spent /\ r.bytes = q.bytes
  BY <1>1, <1>2 DEF ThePool
<1>4. SoundPool(r)
  BY <1>3 DEF SoundPool
<1> QED
  BY <1>1, <1>2, <1>4

\* What the context, the turnstile and the finalized outputs leave of a pool.
LEMMA PrunedPools ==
    ASSUME NEW p, SoundPool(p), NEW x
    PROVE  /\ SoundPool(Contextual(x, p)) /\ Contextual(x, p).txs \subseteq p.txs
           /\ SoundPool(Turnstile(x, p)) /\ Turnstile(x, p).txs \subseteq p.txs
           /\ x # pool_value => \A t \in Turnstile(x, p).txs : t.v2 => pool_value_admits(x, t.delta)
           /\ SoundPool(prune_against_utxo(p, x))
           /\ prune_against_utxo(p, x).txs = {t \in p.txs : t.inputs \subseteq x}
<1>1. ASSUME NEW D \in SUBSET p.txs
      PROVE  SoundPool(Keeping(D, p)) /\ Keeping(D, p).txs = p.txs \ D
  BY KeepingSound
<1>2. PICK D \in SUBSET p.txs : Contextual(x, p) = Keeping(D, p)
  <2>1. PICK D : D = IF x > ctx_height THEN {t \in p.txs : admission_pow_invalid(t, x)} ELSE {}
    OBVIOUS
  <2>2. D \in SUBSET p.txs
    BY <2>1
  <2>3. Contextual(x, p) = Keeping(D, p)
    BY <2>1, Zenon DEF Contextual
  <2> QED
    BY <2>2, <2>3
<1>3. PICK E \in SUBSET p.txs : /\ Turnstile(x, p) = Keeping(E, p)
                                /\ x # pool_value => E = {t \in p.txs : t.v2 /\ ~pool_value_admits(x, t.delta)}
  <2>1. PICK E : E = IF x # pool_value THEN {t \in p.txs : t.v2 /\ ~pool_value_admits(x, t.delta)} ELSE {}
    OBVIOUS
  <2>2. E \in SUBSET p.txs
    BY <2>1
  <2>3. Turnstile(x, p) = Keeping(E, p)
    BY <2>1, Zenon DEF Turnstile
  <2> QED
    BY <2>1, <2>2, <2>3
<1>4. PICK G \in SUBSET p.txs : prune_against_utxo(p, x) = Keeping(G, p) /\ G = {t \in p.txs : ~(t.inputs \subseteq x)}
  BY DEF prune_against_utxo
<1>5. SoundPool(Contextual(x, p)) /\ Contextual(x, p).txs \subseteq p.txs
  BY <1>1, <1>2
<1>6. SoundPool(Turnstile(x, p)) /\ Turnstile(x, p).txs = p.txs \ E
  <2>1. SoundPool(Keeping(E, p)) /\ Keeping(E, p).txs = p.txs \ E
    BY <1>1
  <2> QED
    BY <1>3, <2>1, Zenon
<1>7. SoundPool(prune_against_utxo(p, x)) /\ prune_against_utxo(p, x).txs = p.txs \ G
  <2>1. SoundPool(Keeping(G, p)) /\ Keeping(G, p).txs = p.txs \ G
    BY <1>1
  <2> QED
    BY <1>4, <2>1, Zenon
<1>8. x # pool_value => \A t \in Turnstile(x, p).txs : t.v2 => pool_value_admits(x, t.delta)
  BY <1>3, <1>6
<1>9. prune_against_utxo(p, x).txs = {t \in p.txs : t.inputs \subseteq x}
  BY <1>4, <1>7
<1> QED
  BY <1>5, <1>6, <1>7, <1>8, <1>9

\* The pool with a transaction that takes the room there is, or that of the worst entry.
FindsRoom(tx, p) == pool_is_full(p.txs, tx, p.bytes) => p.index # {} /\ Displaces(tx, worst_entry(p.index), p.bytes)
Admitted(tx, p) == Inserting(tx, IF pool_is_full(p.txs, tx, p.bytes) THEN Keeping({worst_entry(p.index)}, p) ELSE p)

LEMMA AdmitSound ==
    ASSUME NEW p, SoundPool(p), NEW tx \in Txs, NEW x, Admissible(tx, p.txs, p.spent, x), FindsRoom(tx, p)
    PROVE  SoundPool(Admitted(tx, p)) /\ Admitted(tx, p).txs \subseteq p.txs \cup {tx}
<1>1. /\ Cardinality(p.txs) \in Nat /\ p.bytes \in Int /\ tx.size \in Nat /\ MaxTxCount \in Nat /\ MaxPoolBytes \in Nat
      /\ IsFiniteSet(p.txs) /\ p.txs \subseteq Txs
  BY FS_CardinalityType, BytesOf, MempoolAssumption DEF SoundPool
<1>2. tx \notin p.txs /\ \A op \in tx.inputs : \A s \in p.spent : s[1] # op
  BY DEF Admissible
<1>3. CASE ~pool_is_full(p.txs, tx, p.bytes)
  <2>1. p.bytes + tx.size <= MaxPoolBytes /\ Cardinality(p.txs) + 1 <= MaxTxCount
    BY <1>1, <1>3 DEF pool_is_full
  <2> QED
    BY <1>2, <1>3, <2>1, InsertingSound DEF Admitted
<1>4. CASE pool_is_full(p.txs, tx, p.bytes)
  <2>0. PICK worst : worst = worst_entry(p.index) /\ p.index # {} /\ Displaces(tx, worst, p.bytes)
    BY <1>4 DEF FindsRoom
  <2> DEFINE k == Keeping({worst}, p)
  <2>1. worst \in p.txs
    BY <1>1, <2>0, WorstExists DEF SoundPool
  <2>2. SoundPool(k) /\ k.txs = p.txs \ {worst}
    BY <2>1, KeepingSound
  <2>3. Cardinality(k.txs) = Cardinality(p.txs) - 1
    BY <1>1, <2>1, <2>2, FS_RemoveElement
  <2>4. k.bytes = p.bytes - worst.size
    <3>1. Bytes(p.txs \ {worst}) = Bytes(p.txs) - worst.size
      BY <1>1, <2>1, BytesOf
    <3> QED
      BY <2>2, <3>1, Zenon DEF SoundPool
  <2>5. k.spent \subseteq p.spent
    BY DEF Keeping, erase_entry
  <2> HIDE DEF k
  <2>6. k.bytes + tx.size <= MaxPoolBytes /\ Cardinality(k.txs) + 1 <= MaxTxCount
    BY <1>1, <2>0, <2>3, <2>4 DEF Displaces, SoundPool
  <2>7. tx \notin k.txs /\ \A op \in tx.inputs : \A s \in k.spent : s[1] # op
    BY <1>2, <2>2, <2>5
  <2>8. SoundPool(Inserting(tx, k)) /\ Inserting(tx, k).txs = k.txs \cup {tx}
    BY <2>2, <2>6, <2>7, InsertingSound
  <2> QED
    BY <1>4, <2>0, <2>2, <2>8 DEF k, Admitted
<1> QED
  BY <1>3, <1>4

LEMMA HandleTxKeeps ==
    ASSUME MpInv, NEW tx \in Txs, handle_tx(tx)
    PROVE  MpInv'
<1>1. PICK c : c = Contextual(blocks + 1, ThePool)
  OBVIOUS
<1>2. PICK p : p = Turnstile(committed, c)
  OBVIOUS
<1>3. PICK q : q = Admitted(tx, p)
  OBVIOUS
<1>6. SoundPool(p) /\ p.txs \subseteq by_txid
  <2>1. SoundPool(ThePool) /\ ThePool.txs = by_txid
    BY DEF MpInv, ThePool
  <2>2. SoundPool(c) /\ c.txs \subseteq by_txid
    BY <1>1, <2>1, PrunedPools
  <2> QED
    BY <1>2, <2>2, PrunedPools
<1>7. /\ SetPool(p) \/ (SetPool(q) /\ Admissible(tx, p.txs, p.spent, blocks + 1) /\ FindsRoom(tx, p))
      /\ pool_value' = committed /\ UNCHANGED <<utxos, committed>>
  BY <1>1, <1>2, <1>3, Zenon DEF handle_tx, Admitted, FindsRoom
<1>8. ASSUME NEW r, SoundPool(r), SetPool(r),
             \A t \in r.txs : t.inputs \subseteq utxos /\ (t.v2 => pool_value_admits(committed, t.delta))
      PROVE  MpInv'
  BY <1>7, <1>8, PoolSet DEF MpInv, Includable
<1>9. CASE SetPool(p)
  BY <1>6, <1>8, <1>9 DEF MpInv, Includable
<1>10. CASE SetPool(q) /\ Admissible(tx, p.txs, p.spent, blocks + 1) /\ FindsRoom(tx, p)
  <2>1. SoundPool(q) /\ q.txs \subseteq p.txs \cup {tx}
    BY <1>3, <1>6, <1>10, AdmitSound
  <2>2. tx.inputs \subseteq utxos /\ (tx.v2 => pool_value_admits(committed, tx.delta))
    BY <1>10 DEF Admissible
  <2> QED
    BY <1>6, <1>8, <1>10, <2>1, <2>2 DEF MpInv, Includable
<1> QED
  BY <1>7, <1>9, <1>10

LEMMA EventLoopKeeps ==
    ASSUME MpInv, EventLoop
    PROVE  MpInv'
<1>1. PICK c : c = Contextual(blocks + 1, ThePool)
  OBVIOUS
<1>2. SoundPool(ThePool) /\ ThePool.txs = by_txid
  BY DEF MpInv, ThePool
<1>3. SoundPool(c) /\ c.txs \subseteq by_txid
  BY <1>1, <1>2, PrunedPools
<1>4. SetPool(c) /\ UNCHANGED <<pool_value, utxos, committed>>
  BY <1>1 DEF EventLoop
<1> QED
  BY <1>3, <1>4, PoolSet DEF MpInv, Includable

LEMMA FinalizeKeeps ==
    ASSUME MpInv, NEW included, FinalizeBlock(included)
    PROVE  MpInv'
<1>1. PICK view : view = (utxos \ UNION {t.inputs : t \in included}) \cup {t.id : t \in included}
  OBVIOUS
<1>2. PICK value : value = committed + MapThenSumSet(LAMBDA t : t.delta, included)
  OBVIOUS
<1>3. PICK k : k = Keeping(included \cap by_txid, ThePool)
  OBVIOUS
<1>4. PICK c : c = prune_against_utxo(k, view)
  OBVIOUS
<1>5. PICK p : p = Turnstile(value, c)
  OBVIOUS
<1>6. SetPool(p) /\ utxos' = view /\ committed' = value /\ pool_value' = value
  BY <1>1, <1>2, <1>3, <1>4, <1>5, Zenon DEF FinalizeBlock
<1>7. SoundPool(ThePool) /\ ThePool.txs = by_txid
  BY DEF MpInv, ThePool
<1>8. SoundPool(k) /\ k.txs \subseteq by_txid
  BY <1>3, <1>7, KeepingSound
<1>9. SoundPool(c) /\ c.txs = {t \in k.txs : t.inputs \subseteq view}
  BY <1>4, <1>8, PrunedPools
<1>10. /\ SoundPool(p) /\ p.txs \subseteq c.txs
       /\ value # pool_value => \A t \in p.txs : t.v2 => pool_value_admits(value, t.delta)
  BY <1>5, <1>9, PrunedPools
<1>11. \A t \in p.txs : t.v2 => pool_value_admits(value, t.delta)
  BY <1>8, <1>9, <1>10 DEF MpInv, Includable
<1> QED
  BY <1>6, <1>9, <1>10, <1>11, PoolSet DEF MpInv, Includable

\* The pool is consistent for any transactions and limits, any order of clients and blocks.
THEOREM PoolStaysConsistent == MpSpec => []PoolConsistent
<1>1. MpInit => MpInv
  <2> SUFFICES ASSUME MpInit PROVE MpInv
    OBVIOUS
  <2>1. /\ DOMAIN ThePool = {"txs", "index", "spent", "bytes"}
        /\ ThePool.txs = {} /\ ThePool.index = {} /\ ThePool.spent = {} /\ ThePool.bytes = 0
    BY DEF MpInit, ThePool
  <2>2. IsFiniteSet({}) /\ Cardinality({}) = 0
    BY FS_EmptySet
  <2>3. Bytes({}) = 0 /\ Marks({}) = {}
    BY <2>2, BytesOf DEF Marks
  <2>4. SoundPool(ThePool)
    BY <2>1, <2>2, <2>3, MempoolAssumption DEF SoundPool
  <2> QED
    BY <2>4 DEF MpInv, MpInit, Includable
<1>2. MpInv /\ [MpNext]_mpVars => MpInv'
  <2> SUFFICES ASSUME MpInv, [MpNext]_mpVars PROVE MpInv'
    OBVIOUS
  <2>1. CASE UNCHANGED mpVars
    BY <2>1 DEF mpVars, MpInv, ThePool, Includable
  <2> QED
    BY <2>1, HandleTxKeeps, EventLoopKeeps, FinalizeKeeps DEF MpNext
<1>3. MpInv => PoolConsistent
  <2> SUFFICES ASSUME MpInv PROVE PoolConsistent
    OBVIOUS
  <2>1. /\ ThePool.txs = by_txid /\ ThePool.index = eviction_index /\ ThePool.spent = spent_outpoints
        /\ ThePool.bytes = total_bytes
    BY DEF ThePool
  <2>2. /\ by_txid \subseteq Txs /\ IsFiniteSet(by_txid) /\ spent_outpoints = Marks(by_txid)
        /\ \A s, t \in by_txid : s # t => s.inputs \cap t.inputs = {}
        /\ eviction_index = by_txid /\ total_bytes = Bytes(by_txid)
        /\ total_bytes <= MaxPoolBytes /\ Cardinality(by_txid) <= MaxTxCount
    BY <2>1 DEF MpInv, SoundPool
  <2>3. ASSUME eviction_index # {}, NEW tx \in Txs, fast_key_loses(tx, worst_entry(eviction_index))
        PROVE  ~Displaces(tx, worst_entry(eviction_index), total_bytes)
    <3>1. PICK worst : worst = worst_entry(eviction_index)
      OBVIOUS
    <3>2. worst \in Txs
      BY <2>2, <2>3, <3>1, WorstExists
    <3>3. ~EntryLess(worst, tx)
      BY <2>3, <3>1, <3>2, PrefilterIsSafe
    <3> QED
      BY <3>1, <3>3 DEF Displaces
  <2>4. Includable(by_txid, utxos, committed)
    BY DEF MpInv
  <2> QED
    BY <2>2, <2>3, <2>4 DEF PoolConsistent, Marks, Includable
<1> QED
  BY <1>1, <1>2, <1>3, PTL DEF MpSpec

-------------------------------------------------------------------------------
(* Timed release: what a block does to outputs, pool, fees and escrows.         *)

\* A sum over any part of a finite set.
LEMMA PartsAdd ==
    ASSUME NEW S, IsFiniteSet(S), NEW f \in [S -> Int]
    PROVE  \E F : Adds(F, f, S) /\ \A T \in SUBSET S : SumFunction([c \in T |-> f[c]]) = F[T]
<1>1. PICK F : Adds(F, f, S)
  BY AdditiveExists
<1>2. ASSUME NEW T \in SUBSET S
      PROVE  SumFunction([c \in T |-> f[c]]) = F[T]
  <2> DEFINE G == [s \in SUBSET T |-> F[s]]
             g == [c \in T |-> f[c]]
  <2>1. G \in [SUBSET T -> Int] /\ G[{}] = 0 /\ G[T] = F[T]
    BY <1>1 DEF Adds
  <2>2. ASSUME NEW s \in SUBSET T, NEW c \in s
        PROVE  G[s] = g[c] + G[s \ {c}]
    <3>1. PICK r \in SUBSET T : r = s \ {c}
      OBVIOUS
    <3>2. F[s] = f[c] + F[r]
      BY <1>1, <3>1 DEF Adds
    <3>3. g[c] = f[c] /\ G[s] = F[s] /\ G[r] = F[r]
      OBVIOUS
    <3> QED
      BY <3>1, <3>2, <3>3
  <2>3. IsFiniteSet(T) /\ g \in [T -> Int]
    BY FS_Subset
  <2> HIDE DEF G, g
  <2>4. Adds(G, g, T)
    BY <2>1, <2>2, Zenon DEF Adds
  <2>5. SumFunction(g) = G[T]
    BY <2>3, <2>4, SumAdds
  <2> QED
    BY <2>1, <2>5 DEF g
<1> QED
  BY <1>1, <1>2

LEMMA SumSplit ==
    ASSUME NEW S, IsFiniteSet(S), NEW f \in [S -> Int], NEW D \in SUBSET S, NEW part, part = [c \in D |-> f[c]],
           NEW rest, rest = [c \in S \ D |-> f[c]]
    PROVE  /\ SumFunction(f) = SumFunction(part) + SumFunction(rest)
           /\ SumFunction(f) \in Int /\ SumFunction(part) \in Int /\ SumFunction(rest) \in Int
<1>1. PICK F : Adds(F, f, S) /\ \A T \in SUBSET S : SumFunction([c \in T |-> f[c]]) = F[T]
  BY PartsAdd
<1> DEFINE P == {T \in SUBSET D : F[S] = F[T] + F[S \ T]}
<1>2. {} \in P
  <2>1. S \ {} = S /\ F[{}] = 0 /\ F[S] \in Int
    BY <1>1 DEF Adds
  <2> QED
    BY <2>1
<1>3. ASSUME NEW T \in SUBSET D, NEW x \in D, T \in P, x \notin T
      PROVE  T \cup {x} \in P
  <2>1. PICK U \in SUBSET D : U = T \cup {x}
    OBVIOUS
  <2>2. U \ {x} = T /\ x \in U /\ x \in S \ T /\ (S \ T) \ {x} = S \ U
    BY <1>3, <2>1
  <2>3. F[U] = f[x] + F[T] /\ F[S \ T] = f[x] + F[S \ U]
    <3>1. \A s \in SUBSET S : \A c \in s : F[s] = f[c] + F[s \ {c}]
      BY <1>1 DEF Adds
    <3>2. U \in SUBSET S /\ S \ T \in SUBSET S /\ x \in S \ T /\ x \in U
      BY <2>2
    <3>3. F[U] = f[x] + F[U \ {x}] /\ F[S \ T] = f[x] + F[(S \ T) \ {x}]
      BY <3>1, <3>2, Zenon
    <3> QED
      BY <2>2, <3>3
  <2>4. F[S \ U] \in Int /\ F[S] \in Int /\ f[x] \in Int /\ F[T] \in Int
    BY <1>1 DEF Adds
  <2>5. F[S] = F[U] + F[S \ U]
    BY <1>3, <2>3, <2>4
  <2> QED
    BY <2>1, <2>5
<1>4. D \in P
  <2>1. IsFiniteSet(D)
    BY FS_Subset
  <2> HIDE DEF P
  <2> QED
    BY <1>2, <1>3, <2>1, Gathering
<1>5. SumFunction([c \in D |-> f[c]]) = F[D] /\ SumFunction([c \in S \ D |-> f[c]]) = F[S \ D]
      /\ SumFunction([c \in S |-> f[c]]) = F[S]
  BY <1>1
<1>6. f = [c \in S |-> f[c]]
  OBVIOUS
<1>7. F[S] \in Int /\ F[D] \in Int /\ F[S \ D] \in Int
  BY <1>1 DEF Adds
<1>8. SumFunction(f) = F[S] /\ SumFunction(part) = F[D] /\ SumFunction(rest) = F[S \ D]
  BY <1>5, <1>6, Zenon
<1> QED
  BY <1>4, <1>7, <1>8

LEMMA SumJoined ==
    ASSUME NEW S, IsFiniteSet(S), NEW f \in [S -> Int], NEW x, x \notin S, NEW g \in [S \cup {x} -> Int],
           \A c \in S : g[c] = f[c]
    PROVE  SumFunction(g) = SumFunction(f) + g[x] /\ SumFunction(f) \in Int
<1>1. PICK U : U = S \cup {x} /\ IsFiniteSet(U)
  BY FS_AddElement
<1>2. g \in [U -> Int] /\ S \in SUBSET U /\ U \ {x} = S /\ x \in U
  BY <1>1
<1>3. PICK F : Adds(F, g, U) /\ \A T \in SUBSET U : SumFunction([c \in T |-> g[c]]) = F[T]
  BY <1>1, <1>2, PartsAdd
<1>4. f = [c \in S |-> g[c]] /\ g = [c \in U |-> g[c]]
  BY <1>2
<1>5. F[U] = g[x] + F[S] /\ F[S] \in Int /\ g[x] \in Int
  BY <1>2, <1>3 DEF Adds
<1>6. SumFunction(f) = F[S] /\ SumFunction(g) = F[U]
  BY <1>2, <1>3, <1>4
<1> QED
  BY <1>5, <1>6

LEMMA SumOne ==
    ASSUME NEW x, NEW S, S = {x}, NEW f \in [S -> Int]
    PROVE  SumFunction(f) = f[x]
<1>1. IsFiniteSet(S)
  BY FS_Singleton
<1>2. PICK F : Adds(F, f, S)
  BY <1>1, AdditiveExists
<1>3. PICK none : none = S \ {x} /\ none = {}
  OBVIOUS
<1>4. F[S] = f[x] + F[none] /\ F[none] = 0 /\ f[x] \in Int
  BY <1>2, <1>3 DEF Adds
<1> QED
  BY <1>1, <1>2, <1>4, SumAdds

Money(outputs) == IsFiniteSet(DOMAIN outputs) /\ outputs \in [DOMAIN outputs -> Nat]

Added(outputs, coin, value, new) ==
    /\ Money(new) /\ DOMAIN new \subseteq DOMAIN outputs \cup {coin} /\ DOMAIN outputs \subseteq DOMAIN new
    /\ \A c \in DOMAIN outputs : new[c] = outputs[c]
    /\ SumFunction(outputs) \in Int /\ SumFunction(new) = SumFunction(outputs) + value

Taken(outputs, coins, new) ==
    /\ Money(new) /\ DOMAIN new = DOMAIN outputs \ coins /\ \A c \in DOMAIN new : new[c] = outputs[c]
    /\ SumFunction(outputs) \in Int /\ ValueOf(coins, outputs) \in Int
    /\ SumFunction(new) = SumFunction(outputs) - ValueOf(coins, outputs)

LEMMA PutAdds ==
    ASSUME NEW outputs, Money(outputs), NEW coin, coin \notin DOMAIN outputs, NEW value \in Nat,
           NEW new, new = Put(outputs, coin, value)
    PROVE  Added(outputs, coin, value, new)
<1>1. PICK S : S = DOMAIN outputs /\ IsFiniteSet(S) /\ outputs \in [S -> Nat] /\ outputs \in [S -> Int]
  BY DEF Money
<1>2. CASE value = 0
  <2>1. new = outputs
    BY <1>2 DEF Put
  <2>2. SumFunction(outputs) \in Int
    BY <1>1, SumNatural
  <2> QED
    BY <1>2, <2>1, <2>2 DEF Added
<1>3. CASE value # 0
  <2>1. new = [c \in S \cup {coin} |-> IF c = coin THEN value ELSE outputs[c]]
    BY <1>1, <1>3 DEF Put
  <2>2. new \in [S \cup {coin} -> Nat] /\ new \in [S \cup {coin} -> Int] /\ DOMAIN new = S \cup {coin}
        /\ new[coin] = value /\ \A c \in S : new[c] = outputs[c]
    BY <1>1, <2>1
  <2>3. SumFunction(new) = SumFunction(outputs) + value /\ SumFunction(outputs) \in Int
    BY <1>1, <2>2, SumJoined
  <2>4. IsFiniteSet(S \cup {coin})
    BY <1>1, FS_AddElement
  <2> QED
    BY <1>1, <2>2, <2>3, <2>4 DEF Money, Added
<1> QED
  BY <1>2, <1>3

LEMMA SpendTakes ==
    ASSUME NEW outputs, Money(outputs), NEW coins \in SUBSET DOMAIN outputs, NEW new, new = Without(outputs, coins)
    PROVE  Taken(outputs, coins, new)
<1>1. PICK S : S = DOMAIN outputs /\ IsFiniteSet(S) /\ outputs \in [S -> Nat] /\ outputs \in [S -> Int]
  BY DEF Money
<1>2. new = [c \in S \ coins |-> outputs[c]]
  BY <1>1 DEF Without
<1>3. new \in [S \ coins -> Nat] /\ DOMAIN new = S \ coins /\ IsFiniteSet(S \ coins)
  BY <1>1, <1>2, FS_Subset
<1>4. PICK part : part = [c \in coins |-> outputs[c]]
  OBVIOUS
<1>5. ValueOf(coins, outputs) = SumFunction(part)
  BY <1>4 DEF ValueOf
<1>6. /\ SumFunction(outputs) = SumFunction(part) + SumFunction(new)
      /\ SumFunction(outputs) \in Int /\ SumFunction(part) \in Int /\ SumFunction(new) \in Int
  <2>1. coins \in SUBSET S /\ IsFiniteSet(S) /\ outputs \in [S -> Int]
    BY <1>1
  <2> QED
    BY <1>2, <1>4, <2>1, SumSplit
<1> QED
  BY <1>1, <1>2, <1>3, <1>5, <1>6 DEF Money, Taken

\* The names that outputs have ever had: a transaction that is among them has spent its inputs
\* for good, and the refund of an escrow is still to come.
Names(H, coins, E) ==
    /\ coins \subseteq H
    /\ \A tx \in Movements : <<tx.id, 0>> \in H => tx.inputs \subseteq H \ coins
    /\ \A env \in Envelopes : /\ <<env.id, 0>> \in H => env.coin \in H \ coins
                              /\ <<env.id, 1>> \in H => <<env.id, 0>> \in H
    /\ \A e \in E : <<e.env.id, 0>> \in H /\ <<e.env.id, 1>> \notin H

IsEscrows(E) ==
    /\ IsFiniteSet(E)
    /\ \A e \in E : e.env \in Envelopes /\ e.at \in Nat /\ e.index \in Nat
    /\ \A e, f \in E : e.env = f.env => e = f

BondsIn(E) == SumFunction([e \in E |-> e.env.bond])

\* Everything there is adds up.
Books(outputs, pooled, fees, H, E, total) ==
    /\ Money(outputs) /\ pooled \in Int /\ fees \in Int
    /\ IsEscrows(E) /\ Names(H, DOMAIN outputs, E)
    /\ SumFunction(outputs) + pooled + fees + BondsIn(E) = total

LEMMA MovementFacts ==
    ASSUME NEW tx \in Movements
    PROVE  /\ tx.pay \in Nat /\ tx.delta \in Int /\ tx.inputs # {}
           /\ \A other \in Movements : other.id = tx.id => other = tx
           /\ \A env \in Envelopes : env.id # tx.id
  BY TimedReleaseAssumption

LEMMA EnvelopeFacts ==
    ASSUME NEW env \in Envelopes
    PROVE  /\ env.unlock \in Nat /\ env.epoch \in Nat /\ env.prepaid \in Nat /\ env.bond \in Nat
           /\ KeysRoot[env.epoch] \in Nat
           /\ \A other \in Envelopes : other.id = env.id => other = env
           /\ \A tx \in Movements : tx.id # env.id
  BY TimedReleaseAssumption

LEMMA BondsOf ==
    ASSUME NEW E, IsEscrows(E)
    PROVE  /\ BondsIn(E) \in Int
           /\ \A e \in E : e.env.bond \in Nat /\ IsEscrows(E \ {e}) /\ BondsIn(E \ {e}) = BondsIn(E) - e.env.bond
<1> DEFINE bond == [e \in E |-> e.env.bond]
<1>0. \A e \in E : e.env.bond \in Nat
  BY EnvelopeFacts DEF IsEscrows
<1>1. IsFiniteSet(E) /\ bond \in [E -> Int] /\ \A e \in E : e.env.bond \in Nat
  BY <1>0 DEF IsEscrows
<1>2. BondsIn(E) \in Int
  <2>1. \A D \in SUBSET E : SumFunction(bond) \in Int
    BY <1>1, SumSplit
  <2> QED
    BY <2>1 DEF BondsIn
<1>3. ASSUME NEW e \in E
      PROVE  IsEscrows(E \ {e}) /\ BondsIn(E \ {e}) = BondsIn(E) - e.env.bond
  <2>1. IsEscrows(E \ {e})
    BY <1>1, FS_Subset DEF IsEscrows
  <2>2. PICK S, f : S = E \ {e} /\ f = [x \in S |-> x.env.bond]
    OBVIOUS
  <2>3. IsFiniteSet(S) /\ f \in [S -> Int] /\ e \notin S /\ S \cup {e} = E
    BY <1>1, <2>2, FS_Subset
  <2>4. \A x \in S : bond[x] = f[x]
    BY <2>2
  <2>5. SumFunction(bond) = SumFunction(f) + bond[e] /\ SumFunction(f) \in Int
    <3> HIDE DEF bond
    <3> QED
      BY <1>1, <2>3, <2>4, SumJoined
  <2>6. bond[e] = e.env.bond /\ BondsIn(E) = SumFunction(bond) /\ BondsIn(E \ {e}) = SumFunction(f)
    BY <2>2 DEF BondsIn
  <2> QED
    BY <1>1, <2>1, <2>5, <2>6
<1> QED
  BY <1>1, <1>2, <1>3

\* A transaction that can be applied has not been applied before.
LEMMA FreshName ==
    ASSUME NEW H, NEW coins, NEW E, Names(H, coins, E), NEW id,
           \/ \E tx \in Movements : tx.id = id /\ tx.inputs \subseteq coins
           \/ \E env \in Envelopes : env.id = id /\ env.coin \in coins
    PROVE  <<id, 0>> \notin H
<1>1. CASE \E tx \in Movements : tx.id = id /\ tx.inputs \subseteq coins
  <2>1. PICK tx \in Movements : tx.id = id /\ tx.inputs \subseteq coins
    BY <1>1
  <2>2. tx.inputs # {}
    BY MovementFacts
  <2> QED
    BY <2>1, <2>2 DEF Names
<1>2. CASE \E env \in Envelopes : env.id = id /\ env.coin \in coins
  BY <1>2 DEF Names
<1> QED
  BY <1>1, <1>2

LEMMA NameTaken ==
    ASSUME NEW H, NEW coins, NEW E, Names(H, coins, E), NEW spent \in SUBSET coins, NEW id, <<id, 0>> \notin H,
           \A tx \in Movements : tx.id = id => tx.inputs = spent,
           \A env \in Envelopes : env.id = id => env.coin \in spent,
           NEW left, left \subseteq (coins \ spent) \cup {<<id, 0>>}
    PROVE  Names(H \cup {<<id, 0>>}, left, E)
<1>1. PICK n, K : n = <<id, 0>> /\ K = H \cup {n}
  OBVIOUS
<1>2. left \subseteq K /\ spent \subseteq H /\ n \notin H /\ coins \subseteq H /\ left \subseteq (coins \ spent) \cup {n}
  BY <1>1 DEF Names
<1>3. ASSUME NEW tx \in Movements, <<tx.id, 0>> \in K
      PROVE  tx.inputs \subseteq K \ left
  <2>1. CASE <<tx.id, 0>> = n
    <3>1. tx.id = id
      BY <1>1, <2>1
    <3> QED
      BY <1>1, <1>2, <3>1
  <2>2. CASE <<tx.id, 0>> \in H
    <3>1. tx.inputs \subseteq H \ coins
      BY <2>2 DEF Names
    <3> QED
      BY <1>1, <1>2, <3>1
  <2> QED
    BY <1>1, <1>3, <2>1, <2>2
<1>6. ASSUME NEW env \in Envelopes, <<env.id, 1>> \in K
      PROVE  <<env.id, 0>> \in K
  <2>1. <<env.id, 1>> # n
    BY <1>1
  <2>2. <<env.id, 1>> \in H
    BY <1>1, <1>6, <2>1
  <2> QED
    BY <1>1, <2>2 DEF Names
<1>4. ASSUME NEW env \in Envelopes, <<env.id, 0>> \in K
      PROVE  env.coin \in K \ left
  <2>1. CASE <<env.id, 0>> = n
    <3>1. env.id = id
      BY <1>1, <2>1
    <3> QED
      BY <1>1, <1>2, <3>1
  <2>2. CASE <<env.id, 0>> \in H
    <3>1. env.coin \in H \ coins
      BY <2>2 DEF Names
    <3> QED
      BY <1>1, <1>2, <3>1
  <2> QED
    BY <1>1, <1>4, <2>1, <2>2
<1>5. ASSUME NEW e \in E
      PROVE  <<e.env.id, 0>> \in K /\ <<e.env.id, 1>> \notin K
  <2>1. <<e.env.id, 1>> # n
    BY <1>1
  <2> QED
    BY <1>1, <2>1 DEF Names
<1> QED
  BY <1>1, <1>2, <1>3, <1>4, <1>5, <1>6 DEF Names

\* The coins that are not spent stay as they were.
Keeps(work, spent, new) == \A c \in DOMAIN work \ spent : c \in DOMAIN new /\ new[c] = work[c]

\* try_apply
Moves(work, pooled, fees, tx, new, filled, paid) ==
    /\ tx \in Movements /\ tx.inputs \subseteq DOMAIN work
    /\ new = Put(Without(work, tx.inputs), <<tx.id, 0>>, tx.pay)
    /\ filled = pooled + tx.delta
    /\ paid = fees + ValueOf(tx.inputs, work) - tx.pay - tx.delta

LEMMA ApplyBooks ==
    ASSUME NEW work, NEW pooled, NEW fees, NEW H, NEW E, NEW total, Books(work, pooled, fees, H, E, total),
           NEW tx, NEW new, NEW filled, NEW bill, Moves(work, pooled, fees, tx, new, filled, bill)
    PROVE  Books(new, filled, bill, H \cup {<<tx.id, 0>>}, E, total) /\ Keeps(work, tx.inputs, new)
<1> /\ tx \in Movements /\ tx.inputs \subseteq DOMAIN work
    /\ new = Put(Without(work, tx.inputs), <<tx.id, 0>>, tx.pay)
  BY DEF Moves
<1>0. /\ \A other \in Movements : other.id = tx.id => other.inputs = tx.inputs
      /\ \A env \in Envelopes : env.id # tx.id
  BY MovementFacts
<1>1. tx.pay \in Nat /\ tx.delta \in Int
  BY MovementFacts
<1>2. Money(work) /\ pooled \in Int /\ fees \in Int /\ IsEscrows(E) /\ Names(H, DOMAIN work, E)
      /\ SumFunction(work) + pooled + fees + BondsIn(E) = total
  BY DEF Books
<1>3. PICK n : n = <<tx.id, 0>> /\ n \notin H /\ n \notin DOMAIN work
  <2>1. <<tx.id, 0>> \notin H
    BY <1>2, FreshName
  <2> QED
    BY <1>2, <2>1 DEF Names
<1>4. PICK less, paid : less = Without(work, tx.inputs) /\ paid = ValueOf(tx.inputs, work) /\ tx.inputs \in SUBSET DOMAIN work
  OBVIOUS
<1>5. /\ Money(less) /\ DOMAIN less = DOMAIN work \ tx.inputs /\ \A c \in DOMAIN less : less[c] = work[c]
      /\ SumFunction(work) \in Int /\ paid \in Int /\ SumFunction(less) = SumFunction(work) - paid
  <2>1. Taken(work, tx.inputs, less)
    BY <1>2, <1>4, SpendTakes
  <2> QED
    BY <1>4, <2>1 DEF Taken
<1>6. new = Put(less, n, tx.pay) /\ n \notin DOMAIN less
  BY <1>3, <1>4, <1>5
<1>7. /\ Money(new) /\ DOMAIN new \subseteq DOMAIN less \cup {n} /\ DOMAIN less \subseteq DOMAIN new
      /\ \A c \in DOMAIN less : new[c] = less[c]
      /\ SumFunction(new) = SumFunction(less) + tx.pay
  <2>1. Added(less, n, tx.pay, new)
    BY <1>1, <1>5, <1>6, PutAdds
  <2> QED
    BY <2>1 DEF Added
<1>8. Names(H \cup {n}, DOMAIN new, E)
  <2>1. PICK id, had, spent : id = tx.id /\ had = DOMAIN work /\ spent = tx.inputs /\ spent \in SUBSET had
    BY <1>4
  <2>2. /\ \A other \in Movements : other.id = id => other.inputs = spent
        /\ \A env \in Envelopes : env.id = id => env.coin \in spent
        /\ DOMAIN new \subseteq (had \ spent) \cup {<<id, 0>>} /\ <<id, 0>> \notin H /\ Names(H, had, E)
    BY <1>0, <1>2, <1>3, <1>5, <1>7, <2>1
  <2>3. Names(H \cup {<<id, 0>>}, DOMAIN new, E)
    BY <2>1, <2>2, NameTaken, Zenon
  <2> QED
    BY <1>3, <2>1, <2>3
<1>9. SumFunction(new) + (pooled + tx.delta) + (fees + paid - tx.pay - tx.delta) + BondsIn(E) = total
  <2>1. BondsIn(E) \in Int
    BY <1>2, BondsOf
  <2> QED
    BY <1>1, <1>2, <1>5, <1>7, <2>1
<1>10. filled = pooled + tx.delta /\ bill = fees + paid - tx.pay - tx.delta
  BY <1>4 DEF Moves
<1>11. Books(new, filled, bill, H \cup {n}, E, total)
  BY <1>1, <1>2, <1>5, <1>7, <1>8, <1>9, <1>10 DEF Books
<1>12. Keeps(work, tx.inputs, new)
  BY <1>5, <1>7 DEF Keeps
<1> QED
  BY <1>3, <1>11, <1>12

\* try_include_timed
Includes(work, fees, env, new, bill) ==
    /\ env \in Envelopes /\ env.coin \in DOMAIN work /\ env.prepaid + env.bond <= work[env.coin]
    /\ new = Put(Without(work, {env.coin}), <<env.id, 0>>, work[env.coin] - env.prepaid - env.bond)
    /\ bill = fees + env.prepaid

LEMMA IncludeBooks ==
    ASSUME NEW work, NEW pooled, NEW fees, NEW H, NEW E, NEW total, Books(work, pooled, fees, H, E, total),
           NEW env, NEW new, NEW bill, Includes(work, fees, env, new, bill), NEW esc, esc.env = env, esc.at \in Nat, esc.index \in Nat
    PROVE  Books(new, pooled, bill, H \cup {<<env.id, 0>>}, E \cup {esc}, total)
<1> /\ env \in Envelopes /\ env.coin \in DOMAIN work /\ env.prepaid + env.bond <= work[env.coin]
    /\ new = Put(Without(work, {env.coin}), <<env.id, 0>>, work[env.coin] - env.prepaid - env.bond)
    /\ bill = fees + env.prepaid
  BY DEF Includes
<1>0. /\ \A tx \in Movements : tx.id # env.id
      /\ \A other \in Envelopes : other.id = env.id => other.coin = env.coin
  BY EnvelopeFacts
<1>1. env.prepaid \in Nat /\ env.bond \in Nat
  BY EnvelopeFacts
<1>2. Money(work) /\ pooled \in Int /\ fees \in Int /\ IsEscrows(E) /\ Names(H, DOMAIN work, E)
      /\ SumFunction(work) + pooled + fees + BondsIn(E) = total
  BY DEF Books
<1>3. PICK n : n = <<env.id, 0>> /\ n \notin H /\ n \notin DOMAIN work
  <2>1. <<env.id, 0>> \notin H
    BY <1>2, FreshName
  <2> QED
    BY <1>2, <2>1 DEF Names
<1>4. PICK less, coins : less = Without(work, coins) /\ coins = {env.coin} /\ coins \in SUBSET DOMAIN work
  OBVIOUS
<1>5. PICK paid : paid = ValueOf(coins, work)
  OBVIOUS
<1>6. /\ Money(less) /\ DOMAIN less = DOMAIN work \ coins /\ \A c \in DOMAIN less : less[c] = work[c]
      /\ SumFunction(work) \in Int /\ paid \in Int /\ SumFunction(less) = SumFunction(work) - paid
  <2>1. Taken(work, coins, less)
    BY <1>2, <1>4, SpendTakes
  <2> QED
    BY <1>5, <2>1 DEF Taken
<1>7. paid = work[env.coin] /\ work[env.coin] \in Nat
  <2>1. work[env.coin] \in Nat
    BY <1>2 DEF Money
  <2>2. PICK one : one = [c \in coins |-> work[c]]
    OBVIOUS
  <2>3. SumFunction(one) = one[env.coin] /\ one[env.coin] = work[env.coin]
    <3>1. one \in [coins -> Int] /\ one[env.coin] = work[env.coin]
      BY <1>4, <2>1, <2>2
    <3> QED
      BY <1>4, <3>1, SumOne
  <2>7. paid = SumFunction(one)
    BY <1>5, <2>2 DEF ValueOf
  <2> QED
    BY <2>1, <2>3, <2>7
<1>8. PICK value \in Nat : value = work[env.coin] - env.prepaid - env.bond
  BY <1>1, <1>7
<1>9. new = Put(less, n, value) /\ n \notin DOMAIN less
  BY <1>3, <1>4, <1>6, <1>8
<1>10. /\ Money(new) /\ DOMAIN new \subseteq DOMAIN less \cup {n} /\ DOMAIN less \subseteq DOMAIN new
       /\ SumFunction(new) = SumFunction(less) + value
  <2>1. Added(less, n, value, new)
    BY <1>6, <1>9, PutAdds
  <2> QED
    BY <2>1 DEF Added
<1>11. Names(H \cup {n}, DOMAIN new, E)
  <2>1. /\ \A tx \in Movements : tx.id = env.id => tx.inputs = coins
        /\ \A other \in Envelopes : other.id = env.id => other.coin \in coins
    BY <1>0, <1>4
  <2>2. DOMAIN new \subseteq (DOMAIN work \ coins) \cup {<<env.id, 0>>} /\ <<env.id, 0>> \notin H
    BY <1>3, <1>6, <1>10
  <2> QED
    <3>1. PICK id, had : id = env.id /\ had = DOMAIN work /\ coins \in SUBSET had
      BY <1>4
    <3>2. Names(H \cup {<<id, 0>>}, DOMAIN new, E)
      BY <1>2, <2>1, <2>2, <3>1, NameTaken
    <3> QED
      BY <1>3, <3>1, <3>2
<1>12. esc \notin E /\ (\A e \in E : e.env # env) /\ <<env.id, 1>> \notin H
  BY <1>2, <1>3 DEF Names
<1>13. PICK G : G = E \cup {esc}
  OBVIOUS
<1>14. IsEscrows(G) /\ G \ {esc} = E
  <2>1. IsFiniteSet(G)
    BY <1>2, <1>13, FS_AddElement DEF IsEscrows
  <2> QED
    BY <1>2, <1>12, <1>13, <2>1 DEF IsEscrows
<1>15. BondsIn(G) = BondsIn(E) + env.bond /\ BondsIn(E) \in Int
  <2>1. BondsIn(G) \in Int /\ BondsIn(E) = BondsIn(G) - env.bond
    BY <1>13, <1>14, BondsOf
  <2> QED
    BY <1>1, <2>1
<1>16. Names(H \cup {n}, DOMAIN new, G)
  <2>1. <<env.id, 1>> # n
    BY <1>3
  <2> QED
    BY <1>3, <1>11, <1>12, <1>13, <2>1 DEF Names
<1>17. SumFunction(new) + pooled + (fees + env.prepaid) + BondsIn(G) = total
  BY <1>1, <1>2, <1>6, <1>7, <1>8, <1>10, <1>15
<1>18. Books(new, pooled, bill, H \cup {n}, G, total)
  BY <1>1, <1>2, <1>10, <1>14, <1>16, <1>17 DEF Books
<1> QED
  BY <1>3, <1>13, <1>18

\* An escrow ends with the refund of its bond, or the bond is a fee.
Refunds(work, e, new) == new = Put(work, <<e.env.id, 1>>, e.env.bond)

LEMMA EndBooks ==
    ASSUME NEW work, NEW pooled, NEW fees, NEW H, NEW E, NEW total, Books(work, pooled, fees, H, E, total), NEW e \in E
    PROVE  /\ Books(work, pooled, fees + e.env.bond, H, E \ {e}, total)
           /\ \A new : Refunds(work, e, new) =>
                  Books(new, pooled, fees, H \cup {<<e.env.id, 1>>}, E \ {e}, total) /\ Keeps(work, {}, new)
<1>1. Money(work) /\ pooled \in Int /\ fees \in Int /\ IsEscrows(E) /\ Names(H, DOMAIN work, E)
      /\ SumFunction(work) + pooled + fees + BondsIn(E) = total
  BY DEF Books
<1>2. PICK n, new, G : n = <<e.env.id, 1>> /\ new = Put(work, n, e.env.bond) /\ G = E \ {e}
  OBVIOUS
<1>3. n \notin H /\ n \notin DOMAIN work
  BY <1>1, <1>2 DEF Names
<1>4. e.env.bond \in Nat /\ IsEscrows(G) /\ BondsIn(G) = BondsIn(E) - e.env.bond /\ BondsIn(E) \in Int
  BY <1>1, <1>2, BondsOf
<1>5. /\ Money(new) /\ DOMAIN new \subseteq DOMAIN work \cup {n} /\ DOMAIN work \subseteq DOMAIN new
      /\ \A c \in DOMAIN work : new[c] = work[c]
      /\ SumFunction(work) \in Int /\ SumFunction(new) = SumFunction(work) + e.env.bond
  <2>1. Added(work, n, e.env.bond, new)
    BY <1>1, <1>2, <1>3, <1>4, PutAdds
  <2> QED
    BY <2>1 DEF Added
<1>6. Books(work, pooled, fees + e.env.bond, H, G, total)
  <2>1. Names(H, DOMAIN work, G)
    BY <1>1, <1>2 DEF Names
  <2>2. SumFunction(work) + pooled + (fees + e.env.bond) + BondsIn(G) = total
    BY <1>1, <1>4, <1>5
  <2> QED
    BY <1>1, <1>4, <2>1, <2>2 DEF Books
<1>7. Books(new, pooled, fees, H \cup {n}, G, total)
  <2>1. Names(H \cup {n}, DOMAIN new, G)
    <3>1. PICK K : K = H \cup {n}
      OBVIOUS
    <3>2. DOMAIN new \subseteq K
      BY <1>1, <1>5, <3>1 DEF Names
    <3>3. ASSUME NEW tx, <<tx.id, 0>> \in K
          PROVE  <<tx.id, 0>> \in H
      BY <1>2, <3>1, <3>3
    <3>4. \A tx \in Movements : <<tx.id, 0>> \in K => tx.inputs \subseteq K \ DOMAIN new
      BY <1>1, <1>3, <1>5, <3>1, <3>3 DEF Names
    <3>5. \A env \in Envelopes : <<env.id, 0>> \in K => env.coin \in K \ DOMAIN new
      BY <1>1, <1>3, <1>5, <3>1, <3>3 DEF Names
    <3>7. ASSUME NEW env \in Envelopes, <<env.id, 1>> \in K
          PROVE  <<env.id, 0>> \in K
      <4>1. CASE <<env.id, 1>> = n
        <5>1. env.id = e.env.id
          BY <1>2, <4>1
        <5> QED
          BY <1>1, <3>1, <5>1 DEF Names
      <4> QED
        BY <1>1, <3>1, <3>7, <4>1 DEF Names
    <3>6. ASSUME NEW f \in G
          PROVE  <<f.env.id, 0>> \in K /\ <<f.env.id, 1>> \notin K
      <4>1. f.env.id # e.env.id
        BY <1>1, <1>2, EnvelopeFacts DEF IsEscrows
      <4>2. <<f.env.id, 1>> # n
        BY <1>2, <4>1
      <4> QED
        BY <1>1, <1>2, <3>1, <4>2 DEF Names
    <3> QED
      BY <3>1, <3>2, <3>4, <3>5, <3>6, <3>7 DEF Names
  <2>2. SumFunction(new) + pooled + fees + BondsIn(G) = total
    BY <1>1, <1>4, <1>5
  <2> QED
    BY <1>1, <1>4, <1>5, <2>1, <2>2 DEF Books
<1>8. Keeps(work, {}, new)
  BY <1>5 DEF Keeps
<1>9. \A other : Refunds(work, e, other) => other = new
  BY <1>2 DEF Refunds
<1> QED
  BY <1>2, <1>6, <1>7, <1>8, <1>9

\* Of finitely many pairs of numbers one is the greatest.
LEMMA GreatestPair ==
    ASSUME NEW S, IsFiniteSet(S), S # {}, NEW a \in [S -> Int], NEW b \in [S -> Int]
    PROVE  \E e \in S : \A f \in S : a[f] < a[e] \/ (a[f] = a[e] /\ b[f] <= b[e])
<1> DEFINE Below(f, e) == a[f] < a[e] \/ (a[f] = a[e] /\ b[f] <= b[e])
           P == {T \in SUBSET S : T # {} => \E e \in T : \A f \in T : Below(f, e)}
<1>1. {} \in P
  OBVIOUS
<1>2. ASSUME NEW T \in SUBSET S, NEW x \in S, T \in P, x \notin T
      PROVE  T \cup {x} \in P
  <2>1. CASE T = {}
    BY <2>1
  <2>2. CASE T # {}
    <3>1. PICK e \in T : \A f \in T : Below(f, e)
      BY <1>2, <2>2
    <3>2. \A f \in S : a[f] \in Int /\ b[f] \in Int
      OBVIOUS
    <3>3. CASE Below(x, e)
      BY <3>1, <3>3
    <3>4. CASE ~Below(x, e)
      <4>1. \A f \in T : Below(f, x)
        BY <3>1, <3>2, <3>4
      <4>2. Below(x, x)
        BY <3>2
      <4> QED
        BY <4>1, <4>2
    <3> QED
      BY <3>3, <3>4
  <2> QED
    BY <2>1, <2>2
<1>3. S \in P
  <2> HIDE DEF P
  <2> QED
    BY <1>1, <1>2, Gathering
<1> QED
  BY <1>3

LEMMA LastEscrowIn ==
    ASSUME NEW S, IsEscrows(S)
    PROVE  \A s \in SUBSET S : s # {} => LastEscrow(s) \in s
<1>1. SUFFICES ASSUME NEW s \in SUBSET S, s # {} PROVE LastEscrow(s) \in s
  OBVIOUS
<1>2. PICK a, b : a = [e \in s |-> e.at] /\ b = [e \in s |-> e.index]
  OBVIOUS
<1>3. IsFiniteSet(s) /\ a \in [s -> Int] /\ b \in [s -> Int]
  BY <1>1, <1>2, FS_Subset DEF IsEscrows
<1>4. \E e \in s : \A f \in s : a[f] < a[e] \/ (a[f] = a[e] /\ b[f] <= b[e])
  BY <1>1, <1>3, GreatestPair
<1>5. \E e \in s : \A f \in s : f.at < e.at \/ (f.at = e.at /\ f.index <= e.index)
  BY <1>2, <1>4
<1> QED
  BY <1>5, Zenon DEF LastEscrow

LEMMA LastOpeningIn ==
    ASSUME NEW S, IsFiniteSet(S), \A o \in S : o.unlock \in Nat /\ o.root \in Nat
    PROVE  \A s \in SUBSET S : s # {} => LastOpening(s) \in s
<1>1. SUFFICES ASSUME NEW s \in SUBSET S, s # {} PROVE LastOpening(s) \in s
  OBVIOUS
<1>2. PICK a, b : a = [o \in s |-> o.unlock] /\ b = [o \in s |-> o.root]
  OBVIOUS
<1>3. IsFiniteSet(s) /\ a \in [s -> Int] /\ b \in [s -> Int]
  BY <1>1, <1>2, FS_Subset
<1>4. \E o \in s : \A p \in s : a[p] < a[o] \/ (a[p] = a[o] /\ b[p] <= b[o])
  BY <1>1, <1>3, GreatestPair
<1>5. \E o \in s : \A p \in s : p.unlock < o.unlock \/ (p.unlock = o.unlock /\ p.root <= o.root)
  BY <1>2, <1>4
<1> QED
  BY <1>5, Zenon DEF LastOpening

LEMMA LastIndexIn ==
    ASSUME NEW S, IsFiniteSet(S), S \subseteq Nat
    PROVE  \A s \in SUBSET S : s # {} => Max(s) \in s /\ \A i \in s : Max(s) >= i
<1>1. SUFFICES ASSUME NEW s \in SUBSET S, s # {} PROVE Max(s) \in s /\ \A i \in s : Max(s) >= i
  OBVIOUS
<1>2. PICK a : a = [i \in s |-> i]
  OBVIOUS
<1>3. IsFiniteSet(s) /\ a \in [s -> Int]
  <2>1. \A i \in s : i \in Int
    BY <1>1
  <2> QED
    BY <1>1, <1>2, <2>1, FS_Subset
<1>4. \E i \in s : \A j \in s : a[j] < a[i] \/ (a[j] = a[i] /\ a[j] <= a[i])
  BY <1>1, <1>3, GreatestPair
<1>5. \E i \in s : \A j \in s : i >= j
  BY <1>1, <1>2, <1>4
<1> QED
  BY <1>5, Zenon DEF Max

\* The loops of a block, unwound over the subsets of what they go through.
Settled(st, S, how) ==
    CHOOSE run : run = [s \in SUBSET S |-> IF s = {} THEN st
                                           ELSE Settle(run[s \ {LastEscrow(s)}], LastEscrow(s), how)]

UnwindsSettle(run, st, S, how) ==
    \A s \in SUBSET S : run[s] = IF s = {} THEN st ELSE Settle(run[s \ {LastEscrow(s)}], LastEscrow(s), how)

LEMMA SettleRuns ==
    ASSUME NEW st, NEW how, NEW S, IsFiniteSet(S), \A s \in SUBSET S : s # {} => LastEscrow(s) \in s
    PROVE  UnwindsSettle(Settled(st, S, how), st, S, how)
<1>a. PICK run : run = Settled(st, S, how)
  OBVIOUS
<1> DEFINE pick(s) == LastEscrow(s)
           After(v, x) == Settle(v, x, how)
           Reach(n) == {s \in SUBSET S : Cardinality(s) <= n}
           Runs(f, n) == f = [s \in Reach(n) |-> IF s = {} THEN st ELSE After(f[s \ {pick(s)}], pick(s))]
           N == {n \in Nat : \E f : Runs(f, n)}
<1>0. \A s \in SUBSET S : s # {} => pick(s) \in s
  OBVIOUS
<1> HIDE DEF pick, After
<1>1. ASSUME NEW s \in SUBSET S
      PROVE  /\ IsFiniteSet(s) /\ Cardinality(s) \in Nat /\ (Cardinality(s) = 0 <=> s = {})
             /\ \A x \in s : s \ {x} \in SUBSET S /\ Cardinality(s \ {x}) = Cardinality(s) - 1
  BY FS_Subset, FS_CardinalityType, FS_EmptySet, FS_RemoveElement
<1>2. 0 \in N
  <2>1. PICK f : f = [s \in Reach(0) |-> st]
    OBVIOUS
  <2>2. \A s \in Reach(0) : s = {}
    BY <1>1
  <2>3. Runs(f, 0)
    BY <2>1, <2>2
  <2> QED
    BY <2>3
<1>3. ASSUME NEW n \in N, n \in Nat
      PROVE  n + 1 \in N
  <2>1. PICK f : Runs(f, n)
    BY <1>3
  <2>2. PICK g : g = [s \in Reach(n + 1) |-> IF s \in Reach(n) THEN f[s] ELSE After(f[s \ {pick(s)}], pick(s))]
    OBVIOUS
  <2>3. ASSUME NEW s \in Reach(n + 1)
        PROVE  g[s] = IF s = {} THEN st ELSE After(g[s \ {pick(s)}], pick(s))
    <3>1. CASE s = {}
      <4>1. s \in Reach(n)
        BY <1>1, <1>3, <3>1
      <4> QED
        BY <2>1, <2>2, <3>1, <4>1
    <3>2. CASE s # {}
      <4>1. PICK r : r = s \ {pick(s)}
        OBVIOUS
      <4>2. r \in Reach(n) /\ r \in Reach(n + 1)
        BY <1>0, <1>1, <1>3, <3>2, <4>1
      <4>3. g[r] = f[r]
        BY <2>2, <4>2
      <4>4. CASE s \in Reach(n)
        <5>1. f[s] = After(f[r], pick(s)) /\ g[s] = f[s]
          BY <2>1, <2>2, <3>2, <4>1, <4>4
        <5> QED
          BY <3>2, <4>1, <4>3, <5>1
      <4>5. CASE s \notin Reach(n)
        <5>1. g[s] = After(f[r], pick(s))
          BY <2>2, <4>1, <4>5
        <5> QED
          BY <3>2, <4>1, <4>3, <5>1
      <4> QED
        BY <4>4, <4>5
    <3> QED
      BY <3>1, <3>2
  <2>4. g = [s \in Reach(n + 1) |-> g[s]]
    BY <2>2
  <2>5. Runs(g, n + 1)
    BY <2>3, <2>4, Zenon
  <2>6. n + 1 \in Nat
    BY <1>3
  <2> HIDE DEF Runs
  <2>7. \E longer : Runs(longer, n + 1)
    BY <2>5, Zenon
  <2> QED
    BY <2>6, <2>7
<1>4. PICK n \in Nat : n = Cardinality(S)
  BY FS_CardinalityType
<1>5. n \in N
  BY <1>2, <1>3, Counting
<1>6. Reach(n) = SUBSET S
  BY <1>4, FS_Subset
<1>7. \E f : f = [s \in SUBSET S |-> IF s = {} THEN st ELSE After(f[s \ {pick(s)}], pick(s))]
  BY <1>5, <1>6
<1> QED
  <2>1. run = [s \in SUBSET S |-> IF s = {} THEN st ELSE Settle(run[s \ {LastEscrow(s)}], LastEscrow(s), how)]
    BY <1>7, <1>a, Zenon DEF Settled, After, pick
  <2> QED
    BY <1>a, <2>1 DEF UnwindsSettle

OpenedBy(st, S) ==
    CHOOSE run : run = [s \in SUBSET S |-> IF s = {} THEN st
                          ELSE SettleAll(run[s \ {LastOpening(s)}], long_escrows_for(LastOpening(s)), "open")]

UnwindsOpen(run, st, S) ==
    \A s \in SUBSET S : run[s] = IF s = {} THEN st
                                 ELSE SettleAll(run[s \ {LastOpening(s)}], long_escrows_for(LastOpening(s)), "open")

LEMMA OpenRuns ==
    ASSUME NEW st, NEW S, IsFiniteSet(S), \A s \in SUBSET S : s # {} => LastOpening(s) \in s
    PROVE  UnwindsOpen(OpenedBy(st, S), st, S)
<1>a. PICK run : run = OpenedBy(st, S)
  OBVIOUS
<1> DEFINE pick(s) == LastOpening(s)
           After(v, x) == SettleAll(v, long_escrows_for(x), "open")
           Reach(n) == {s \in SUBSET S : Cardinality(s) <= n}
           Runs(f, n) == f = [s \in Reach(n) |-> IF s = {} THEN st ELSE After(f[s \ {pick(s)}], pick(s))]
           N == {n \in Nat : \E f : Runs(f, n)}
<1>0. \A s \in SUBSET S : s # {} => pick(s) \in s
  OBVIOUS
<1> HIDE DEF pick, After
<1>1. ASSUME NEW s \in SUBSET S
      PROVE  /\ IsFiniteSet(s) /\ Cardinality(s) \in Nat /\ (Cardinality(s) = 0 <=> s = {})
             /\ \A x \in s : s \ {x} \in SUBSET S /\ Cardinality(s \ {x}) = Cardinality(s) - 1
  BY FS_Subset, FS_CardinalityType, FS_EmptySet, FS_RemoveElement
<1>2. 0 \in N
  <2>1. PICK f : f = [s \in Reach(0) |-> st]
    OBVIOUS
  <2>2. \A s \in Reach(0) : s = {}
    BY <1>1
  <2>3. Runs(f, 0)
    BY <2>1, <2>2
  <2> QED
    BY <2>3
<1>3. ASSUME NEW n \in N, n \in Nat
      PROVE  n + 1 \in N
  <2>1. PICK f : Runs(f, n)
    BY <1>3
  <2>2. PICK g : g = [s \in Reach(n + 1) |-> IF s \in Reach(n) THEN f[s] ELSE After(f[s \ {pick(s)}], pick(s))]
    OBVIOUS
  <2>3. ASSUME NEW s \in Reach(n + 1)
        PROVE  g[s] = IF s = {} THEN st ELSE After(g[s \ {pick(s)}], pick(s))
    <3>1. CASE s = {}
      <4>1. s \in Reach(n)
        BY <1>1, <1>3, <3>1
      <4> QED
        BY <2>1, <2>2, <3>1, <4>1
    <3>2. CASE s # {}
      <4>1. PICK r : r = s \ {pick(s)}
        OBVIOUS
      <4>2. r \in Reach(n) /\ r \in Reach(n + 1)
        BY <1>0, <1>1, <1>3, <3>2, <4>1
      <4>3. g[r] = f[r]
        BY <2>2, <4>2
      <4>4. CASE s \in Reach(n)
        <5>1. f[s] = After(f[r], pick(s)) /\ g[s] = f[s]
          BY <2>1, <2>2, <3>2, <4>1, <4>4
        <5> QED
          BY <3>2, <4>1, <4>3, <5>1
      <4>5. CASE s \notin Reach(n)
        <5>1. g[s] = After(f[r], pick(s))
          BY <2>2, <4>1, <4>5
        <5> QED
          BY <3>2, <4>1, <4>3, <5>1
      <4> QED
        BY <4>4, <4>5
    <3> QED
      BY <3>1, <3>2
  <2>4. g = [s \in Reach(n + 1) |-> g[s]]
    BY <2>2
  <2>5. Runs(g, n + 1)
    BY <2>3, <2>4, Zenon
  <2>6. n + 1 \in Nat
    BY <1>3
  <2> HIDE DEF Runs
  <2>7. \E longer : Runs(longer, n + 1)
    BY <2>5, Zenon
  <2> QED
    BY <2>6, <2>7
<1>4. PICK n \in Nat : n = Cardinality(S)
  BY FS_CardinalityType
<1>5. n \in N
  BY <1>2, <1>3, Counting
<1>6. Reach(n) = SUBSET S
  BY <1>4, FS_Subset
<1>7. \E f : f = [s \in SUBSET S |-> IF s = {} THEN st ELSE After(f[s \ {pick(s)}], pick(s))]
  BY <1>5, <1>6
<1> QED
  <2>1. run = [s \in SUBSET S |-> IF s = {} THEN st ELSE SettleAll(run[s \ {LastOpening(s)}], long_escrows_for(LastOpening(s)), "open")]
    BY <1>7, <1>a, Zenon DEF OpenedBy, After, pick
  <2> QED
    BY <1>a, <2>1 DEF UnwindsOpen

RecordStep(st, r, next) == IF r \in Envelopes THEN try_include_timed(st, r, next) ELSE try_apply(st, r)

Recorded(st, next, records, S) ==
    CHOOSE run : run = [s \in SUBSET S |-> IF s = {} THEN st
                                           ELSE RecordStep(run[s \ {Max(s)}], records[Max(s)], next)]

UnwindsRecords(run, st, next, records, S) ==
    \A s \in SUBSET S : run[s] = IF s = {} THEN st ELSE RecordStep(run[s \ {Max(s)}], records[Max(s)], next)

LEMMA RecordRuns ==
    ASSUME NEW st, NEW next, NEW records, NEW S, IsFiniteSet(S), \A s \in SUBSET S : s # {} => Max(s) \in s
    PROVE  UnwindsRecords(Recorded(st, next, records, S), st, next, records, S)
<1>a. PICK run : run = Recorded(st, next, records, S)
  OBVIOUS
<1> DEFINE pick(s) == Max(s)
           After(v, x) == RecordStep(v, records[x], next)
           Reach(n) == {s \in SUBSET S : Cardinality(s) <= n}
           Runs(f, n) == f = [s \in Reach(n) |-> IF s = {} THEN st ELSE After(f[s \ {pick(s)}], pick(s))]
           N == {n \in Nat : \E f : Runs(f, n)}
<1>0. \A s \in SUBSET S : s # {} => pick(s) \in s
  OBVIOUS
<1> HIDE DEF pick, After
<1>1. ASSUME NEW s \in SUBSET S
      PROVE  /\ IsFiniteSet(s) /\ Cardinality(s) \in Nat /\ (Cardinality(s) = 0 <=> s = {})
             /\ \A x \in s : s \ {x} \in SUBSET S /\ Cardinality(s \ {x}) = Cardinality(s) - 1
  BY FS_Subset, FS_CardinalityType, FS_EmptySet, FS_RemoveElement
<1>2. 0 \in N
  <2>1. PICK f : f = [s \in Reach(0) |-> st]
    OBVIOUS
  <2>2. \A s \in Reach(0) : s = {}
    BY <1>1
  <2>3. Runs(f, 0)
    BY <2>1, <2>2
  <2> QED
    BY <2>3
<1>3. ASSUME NEW n \in N, n \in Nat
      PROVE  n + 1 \in N
  <2>1. PICK f : Runs(f, n)
    BY <1>3
  <2>2. PICK g : g = [s \in Reach(n + 1) |-> IF s \in Reach(n) THEN f[s] ELSE After(f[s \ {pick(s)}], pick(s))]
    OBVIOUS
  <2>3. ASSUME NEW s \in Reach(n + 1)
        PROVE  g[s] = IF s = {} THEN st ELSE After(g[s \ {pick(s)}], pick(s))
    <3>1. CASE s = {}
      <4>1. s \in Reach(n)
        BY <1>1, <1>3, <3>1
      <4> QED
        BY <2>1, <2>2, <3>1, <4>1
    <3>2. CASE s # {}
      <4>1. PICK r : r = s \ {pick(s)}
        OBVIOUS
      <4>2. r \in Reach(n) /\ r \in Reach(n + 1)
        BY <1>0, <1>1, <1>3, <3>2, <4>1
      <4>3. g[r] = f[r]
        BY <2>2, <4>2
      <4>4. CASE s \in Reach(n)
        <5>1. f[s] = After(f[r], pick(s)) /\ g[s] = f[s]
          BY <2>1, <2>2, <3>2, <4>1, <4>4
        <5> QED
          BY <3>2, <4>1, <4>3, <5>1
      <4>5. CASE s \notin Reach(n)
        <5>1. g[s] = After(f[r], pick(s))
          BY <2>2, <4>1, <4>5
        <5> QED
          BY <3>2, <4>1, <4>3, <5>1
      <4> QED
        BY <4>4, <4>5
    <3> QED
      BY <3>1, <3>2
  <2>4. g = [s \in Reach(n + 1) |-> g[s]]
    BY <2>2
  <2>5. Runs(g, n + 1)
    BY <2>3, <2>4, Zenon
  <2>6. n + 1 \in Nat
    BY <1>3
  <2> HIDE DEF Runs
  <2>7. \E longer : Runs(longer, n + 1)
    BY <2>5, Zenon
  <2> QED
    BY <2>6, <2>7
<1>4. PICK n \in Nat : n = Cardinality(S)
  BY FS_CardinalityType
<1>5. n \in N
  BY <1>2, <1>3, Counting
<1>6. Reach(n) = SUBSET S
  BY <1>4, FS_Subset
<1>7. \E f : f = [s \in SUBSET S |-> IF s = {} THEN st ELSE After(f[s \ {pick(s)}], pick(s))]
  BY <1>5, <1>6
<1> QED
  <2>1. run = [s \in SUBSET S |-> IF s = {} THEN st ELSE RecordStep(run[s \ {Max(s)}], records[Max(s)], next)]
    BY <1>7, <1>a, Zenon DEF Recorded, After, pick
  <2> QED
    BY <1>a, <2>1 DEF UnwindsRecords

LEMMA LoopsUnwind ==
    /\ \A st, S, how : SettleAll(st, S, how) = Settled(st, S, how)[S]
    /\ \A st, S : OpenAll(st, S) = OpenedBy(st, S)[S]
    /\ \A st, next, records : Records(st, next, records) = Recorded(st, next, records, DOMAIN records)[DOMAIN records]
<1>1. ASSUME NEW st, NEW S, NEW how
      PROVE  SettleAll(st, S, how) = Settled(st, S, how)[S]
  BY Zenon DEF SettleAll, MapThenFoldSet, Settled
<1>2. ASSUME NEW st, NEW S
      PROVE  OpenAll(st, S) = OpenedBy(st, S)[S]
  BY Zenon DEF OpenAll, MapThenFoldSet, OpenedBy
<1>3. ASSUME NEW st, NEW next, NEW records
      PROVE  Records(st, next, records) = Recorded(st, next, records, DOMAIN records)[DOMAIN records]
  BY Zenon DEF Records, FoldLeft, MapThenFoldSet, Recorded, RecordStep
<1> QED
  BY <1>1, <1>2, <1>3

-------------------------------------------------------------------------------
(* The settlements of a block.                                                  *)

IsState(st) == DOMAIN st = {"work", "pool", "fees", "consumed", "opened", "settled"}
Verdicts == [escrow : escrows, how : {"applied", "expired", "forfeited"}]
Ended(st) == {st.settled[i] : i \in DOMAIN st.settled}

\* The bodies that have been applied.
AppliedIn(ended) ==
    {s.escrow.env.body.tx : s \in {t \in ended : t.how = "applied" /\ t.escrow.env.body.kind = "transfer"}}

\* What is left of the outputs there were, and why a bond was forfeited.
Unraced(work, pooled, consumed, ended) ==
    /\ consumed \subseteq UNION {tx.inputs : tx \in AppliedIn(ended)}
    /\ \A c \in DOMAIN funds \ consumed : c \in DOMAIN work /\ work[c] = funds[c]
    /\ (\A tx \in AppliedIn(ended) : tx.delta >= 0) => pooled >= shielded
    /\ \A s \in ended : s.how = "forfeited" =>
           /\ s.escrow.env.body.kind # "reveal"
           /\ s.escrow.env.body.kind = "transfer" => ~Untouched(s.escrow.env.body.tx, AppliedIn(ended))

\* Each escrow of D has got its verdict, and only one.
Tallied(st, D) ==
    /\ st.settled \in Seq(Verdicts) /\ D \subseteq escrows /\ {s.escrow : s \in Ended(st)} = D
    /\ \A s, t \in Ended(st) : s.escrow = t.escrow => s = t

Settling(st, D, total) ==
    /\ IsState(st) /\ st.opened = <<>> /\ Tallied(st, D)
    /\ \E H : Books(st.work, st.pool, st.fees, H, escrows \ D, total)
    /\ Unraced(st.work, st.pool, st.consumed, Ended(st))

Ends(st, new, e, verdict) ==
    new.settled = Append(st.settled, [escrow |-> e, how |-> verdict]) /\ IsState(new) /\ new.opened = st.opened

BodyRuns(st, new, e) ==
    LET tx == e.env.body.tx
    IN  /\ e.env.body.kind = "transfer" /\ Applies(st, tx)
        /\ new.work = Put(Put(Without(st.work, tx.inputs), <<tx.id, 0>>, tx.pay), <<e.env.id, 1>>, e.env.bond)
        /\ new.pool = st.pool + tx.delta
        /\ new.fees = st.fees + ValueOf(tx.inputs, st.work) - tx.pay - tx.delta
        /\ new.consumed = st.consumed \cup tx.inputs
        /\ Ends(st, new, e, "applied")

BondBack(st, new, e) ==
    /\ new.work = Put(st.work, <<e.env.id, 1>>, e.env.bond)
    /\ new.pool = st.pool /\ new.fees = st.fees /\ new.consumed = st.consumed
    /\ \E verdict \in {"applied", "expired"} :
           Ends(st, new, e, verdict) /\ (verdict = "applied" => e.env.body.kind # "transfer")

BondLost(st, new, e) ==
    /\ e.env.body.kind # "reveal" /\ (e.env.body.kind = "transfer" => ~Applies(st, e.env.body.tx))
    /\ new.work = st.work /\ new.pool = st.pool /\ new.fees = st.fees + e.env.bond /\ new.consumed = st.consumed
    /\ Ends(st, new, e, "forfeited")

LEMMA ApplyIs ==
    ASSUME NEW st, IsState(st), NEW tx, Applies(st, tx), NEW new, new = try_apply(st, tx)
    PROVE  /\ IsState(new) /\ new.opened = st.opened /\ new.settled = st.settled
           /\ new.work = Put(Without(st.work, tx.inputs), <<tx.id, 0>>, tx.pay)
           /\ new.pool = st.pool + tx.delta
           /\ new.fees = st.fees + ValueOf(tx.inputs, st.work) - tx.pay - tx.delta
           /\ new.consumed = st.consumed \cup tx.inputs
<1>1. PICK work, paid : work = Put(Without(st.work, tx.inputs), <<tx.id, 0>>, tx.pay) /\ paid = ValueOf(tx.inputs, st.work)
  OBVIOUS
<1>2. new = [st EXCEPT !.work = work, !.consumed = @ \cup tx.inputs, !.pool = @ + tx.delta,
                       !.fees = @ + paid - tx.pay - tx.delta]
  BY <1>1 DEF try_apply
<1> QED
  BY <1>1, <1>2 DEF IsState

LEMMA SettleIs ==
    ASSUME NEW st, IsState(st), NEW e, NEW how \in {"open", "expired"}, NEW new, new = Settle(st, e, how)
    PROVE  BodyRuns(st, new, e) \/ BondBack(st, new, e) \/ BondLost(st, new, e)
<1> DEFINE env == e.env
           tx == env.body.tx
           runs == env.body.kind = "transfer" /\ Applies(st, tx)
           Paid(ran, verdict) == [ran EXCEPT !.work = Put(@, <<env.id, 1>>, env.bond), !.fees = @,
                                             !.settled = Append(@, [escrow |-> e, how |-> verdict])]
           Kept(ran) == [ran EXCEPT !.work = @, !.fees = @ + env.bond,
                                    !.settled = Append(@, [escrow |-> e, how |-> "forfeited"])]
<1>1. CASE how = "open" /\ runs
  <2>1. PICK ran : ran = try_apply(st, tx)
    OBVIOUS
  <2>2. new = Paid(ran, "applied")
    BY <1>1, <2>1 DEF Settle
  <2>3. /\ IsState(ran) /\ ran.opened = st.opened /\ ran.settled = st.settled
        /\ ran.work = Put(Without(st.work, tx.inputs), <<tx.id, 0>>, tx.pay)
        /\ ran.pool = st.pool + tx.delta
        /\ ran.fees = st.fees + ValueOf(tx.inputs, st.work) - tx.pay - tx.delta
        /\ ran.consumed = st.consumed \cup tx.inputs
    BY <1>1, <2>1, ApplyIs
  <2>4. /\ new.work = Put(ran.work, <<env.id, 1>>, env.bond) /\ new.fees = ran.fees /\ new.pool = ran.pool
        /\ new.consumed = ran.consumed /\ new.opened = ran.opened /\ IsState(new)
        /\ new.settled = Append(ran.settled, [escrow |-> e, how |-> "applied"])
    BY <2>2, <2>3 DEF IsState
  <2> QED
    BY <1>1, <2>3, <2>4 DEF BodyRuns, Ends
<1>2. CASE how = "open" /\ env.body.kind = "reveal"
  <2>1. new = Paid(st, "applied")
    BY <1>2 DEF Settle
  <2>2. /\ new.work = Put(st.work, <<env.id, 1>>, env.bond) /\ new.fees = st.fees /\ new.pool = st.pool
        /\ new.consumed = st.consumed /\ new.opened = st.opened /\ IsState(new)
        /\ new.settled = Append(st.settled, [escrow |-> e, how |-> "applied"])
    BY <2>1 DEF IsState
  <2> QED
    BY <1>2, <2>2 DEF BondBack, Ends
<1>3. CASE how = "expired"
  <2>1. new = Paid(st, "expired")
    BY <1>3 DEF Settle
  <2>2. /\ new.work = Put(st.work, <<env.id, 1>>, env.bond) /\ new.fees = st.fees /\ new.pool = st.pool
        /\ new.consumed = st.consumed /\ new.opened = st.opened /\ IsState(new)
        /\ new.settled = Append(st.settled, [escrow |-> e, how |-> "expired"])
    BY <2>1 DEF IsState
  <2> QED
    BY <1>3, <2>2 DEF BondBack, Ends
<1>4. CASE how = "open" /\ ~runs /\ env.body.kind # "reveal"
  <2>1. new = Kept(st)
    BY <1>4 DEF Settle
  <2>2. /\ new.work = st.work /\ new.fees = st.fees + env.bond /\ new.pool = st.pool
        /\ new.consumed = st.consumed /\ new.opened = st.opened /\ IsState(new)
        /\ new.settled = Append(st.settled, [escrow |-> e, how |-> "forfeited"])
    BY <2>1 DEF IsState
  <2> QED
    BY <1>4, <2>2 DEF BondLost, Ends
<1> QED
  BY <1>1, <1>2, <1>3, <1>4

\* A verdict more.
LEMMA VerdictAdded ==
    ASSUME NEW st, NEW new, NEW D, Tallied(st, D),
           NEW e \in escrows \ D, NEW verdict \in {"applied", "expired", "forfeited"}, Ends(st, new, e, verdict)
    PROVE  Tallied(new, D \cup {e}) /\ Ended(new) = Ended(st) \cup {[escrow |-> e, how |-> verdict]}
<1> /\ st.settled \in Seq(Verdicts) /\ D \subseteq escrows /\ {s.escrow : s \in Ended(st)} = D
    /\ \A s, t \in Ended(st) : s.escrow = t.escrow => s = t
  BY DEF Tallied
<1>0. PICK v : v = [escrow |-> e, how |-> verdict]
  OBVIOUS
<1>1. PICK seq, longer : seq = st.settled /\ longer = new.settled /\ longer = Append(seq, v) /\ seq \in Seq(Verdicts)
  BY <1>0 DEF Ends
<1>2. v \in Verdicts
  BY <1>0 DEF Verdicts
<1>3. longer \in Seq(Verdicts) /\ Len(longer) = Len(seq) + 1 /\ Len(seq) \in Nat
      /\ (\A i \in 1..Len(seq) : longer[i] = seq[i]) /\ longer[Len(seq) + 1] = v
  BY <1>1, <1>2
<1>4. DOMAIN seq = 1..Len(seq) /\ DOMAIN longer = 1..(Len(seq) + 1)
  BY <1>1, <1>3
<1>5. Ended(new) = Ended(st) \cup {v}
  <2>1. ASSUME NEW i \in DOMAIN longer
        PROVE  longer[i] = v \/ \E j \in DOMAIN seq : longer[i] = seq[j]
    BY <1>3, <1>4
  <2>2. ASSUME NEW j \in DOMAIN seq
        PROVE  \E i \in DOMAIN longer : longer[i] = seq[j]
    BY <1>3, <1>4
  <2>3. \E i \in DOMAIN longer : longer[i] = v
    BY <1>3, <1>4
  <2>4. Ended(new) = {longer[i] : i \in DOMAIN longer} /\ Ended(st) = {seq[i] : i \in DOMAIN seq}
    BY <1>1 DEF Ended
  <2> QED
    BY <2>1, <2>2, <2>3, <2>4
<1>6. v.escrow = e
  BY <1>0
<1>7. {s.escrow : s \in Ended(new)} = D \cup {e} /\ \A s, t \in Ended(new) : s.escrow = t.escrow => s = t
  BY <1>5, <1>6
<1>8. Tallied(new, D \cup {e})
  BY <1>1, <1>3, <1>7 DEF Tallied
<1> QED
  BY <1>0, <1>5, <1>8

LEMMA UntouchedByFewer ==
    ASSUME NEW tx, NEW all, Untouched(tx, all), NEW some \in SUBSET all
    PROVE  Untouched(tx, some)
  BY DEF Untouched

\* A body that could be applied before the block, and that those applied left alone, applies.
LEMMA UntouchedApplies ==
    ASSUME NEW st, NEW ended, Unraced(st.work, st.pool, st.consumed, ended), NEW tx \in Movements,
           Untouched(tx, AppliedIn(ended)), shielded \in Int, st.pool \in Int
    PROVE  Applies(st, tx)
<1>1. /\ tx.inputs \subseteq DOMAIN funds /\ ValueOf(tx.inputs, funds) >= tx.pay + tx.delta /\ shielded + tx.delta >= 0
      /\ \A o \in AppliedIn(ended) : o.inputs \cap tx.inputs = {} /\ o.delta >= 0
  BY DEF Untouched
<1>2. tx.inputs \cap st.consumed = {}
  BY <1>1 DEF Unraced
<1>3. \A c \in tx.inputs : c \in DOMAIN st.work /\ st.work[c] = funds[c]
  BY <1>1, <1>2 DEF Unraced
<1>4. ValueOf(tx.inputs, st.work) = ValueOf(tx.inputs, funds)
  <2>1. [c \in tx.inputs |-> st.work[c]] = [c \in tx.inputs |-> funds[c]]
    BY <1>3
  <2> QED
    BY <2>1 DEF ValueOf
<1>5. st.pool + tx.delta >= 0
  <2>1. st.pool >= shielded
    BY <1>1 DEF Unraced
  <2>2. tx.delta \in Int
    BY MovementFacts
  <2> QED
    BY <1>1, <2>1, <2>2
<1> QED
  BY <1>1, <1>2, <1>3, <1>4, <1>5 DEF Applies

\* What one verdict does to the coins and to the pool.
Verdict(work, pooled, v, more, spent, left, filled) ==
    /\ spent \subseteq UNION {tx.inputs : tx \in AppliedIn(more)} /\ Keeps(work, spent, left)
    /\ pooled \in Int /\ filled \in Int
    /\ (\A tx \in AppliedIn(more) : tx.delta >= 0) => filled >= pooled
    /\ v.how = "forfeited" =>
           /\ v.escrow.env.body.kind # "reveal"
           /\ v.escrow.env.body.kind = "transfer" => ~Untouched(v.escrow.env.body.tx, AppliedIn(more))

LEMMA StillUnraced ==
    ASSUME NEW work, NEW pooled, NEW consumed, NEW ended, Unraced(work, pooled, consumed, ended), shielded \in Int,
           NEW v, NEW spent, NEW left, NEW filled, Verdict(work, pooled, v, ended \cup {v}, spent, left, filled)
    PROVE  Unraced(left, filled, consumed \cup spent, ended \cup {v})
<1> DEFINE more == ended \cup {v}
<1>0. /\ spent \subseteq UNION {tx.inputs : tx \in AppliedIn(more)}
      /\ \A c \in DOMAIN work \ spent : c \in DOMAIN left /\ left[c] = work[c]
      /\ pooled \in Int /\ filled \in Int
      /\ (\A tx \in AppliedIn(more) : tx.delta >= 0) => filled >= pooled
      /\ v.how = "forfeited" =>
           /\ v.escrow.env.body.kind # "reveal"
           /\ v.escrow.env.body.kind = "transfer" => ~Untouched(v.escrow.env.body.tx, AppliedIn(more))
  BY DEF Verdict, Keeps
<1>1. AppliedIn(ended) \subseteq AppliedIn(more)
  BY DEF AppliedIn
<1>2. consumed \cup spent \subseteq UNION {tx.inputs : tx \in AppliedIn(more)}
  <2>1. \A c \in consumed : \E tx \in AppliedIn(ended) : c \in tx.inputs
    BY DEF Unraced
  <2> QED
    BY <1>0, <1>1, <2>1
<1>3. \A c \in DOMAIN funds \ (consumed \cup spent) : c \in DOMAIN left /\ left[c] = funds[c]
  BY <1>0 DEF Unraced
<1>4. (\A tx \in AppliedIn(more) : tx.delta >= 0) => filled >= shielded
  <2>1. SUFFICES ASSUME \A tx \in AppliedIn(more) : tx.delta >= 0 PROVE filled >= shielded
    OBVIOUS
  <2>2. pooled >= shielded /\ filled >= pooled
    BY <1>0, <1>1, <2>1 DEF Unraced
  <2> QED
    BY <1>0, <2>2
<1>5. ASSUME NEW s \in more, s.how = "forfeited"
      PROVE  /\ s.escrow.env.body.kind # "reveal"
             /\ s.escrow.env.body.kind = "transfer" => ~Untouched(s.escrow.env.body.tx, AppliedIn(more))
  <2>1. CASE s = v
    BY <1>0, <1>5, <2>1
  <2>2. CASE s \in ended
    <3>1. /\ s.escrow.env.body.kind # "reveal"
          /\ s.escrow.env.body.kind = "transfer" => ~Untouched(s.escrow.env.body.tx, AppliedIn(ended))
      BY <1>5, <2>2 DEF Unraced
    <3> QED
      BY <1>1, <3>1, UntouchedByFewer
  <2> QED
    BY <2>1, <2>2
<1> QED
  BY <1>2, <1>3, <1>4, <1>5 DEF Unraced

LEMMA StillSettling ==
    ASSUME NEW st, NEW D, NEW total, Settling(st, D, total), shielded \in Int, NEW e \in escrows \ D,
           NEW verdict \in {"applied", "expired", "forfeited"}, NEW new, Ends(st, new, e, verdict),
           NEW v, v = [escrow |-> e, how |-> verdict], NEW spent, new.consumed = st.consumed \cup spent,
           Verdict(st.work, st.pool, v, Ended(st) \cup {v}, spent, new.work, new.pool),
           \E K : Books(new.work, new.pool, new.fees, K, escrows \ (D \cup {e}), total)
    PROVE  Settling(new, D \cup {e}, total)
<1>1. IsState(st) /\ st.opened = <<>> /\ Tallied(st, D) /\ Unraced(st.work, st.pool, st.consumed, Ended(st))
  BY DEF Settling
<1>4. Unraced(new.work, new.pool, new.consumed, Ended(st) \cup {v})
  BY <1>1, StillUnraced
<1>5. Tallied(new, D \cup {e}) /\ Ended(new) = Ended(st) \cup {v}
  BY <1>1, VerdictAdded
<1>6. IsState(new) /\ new.opened = <<>>
  BY <1>1 DEF Ends
<1> QED
  BY <1>4, <1>5, <1>6 DEF Settling

\* One escrow ends, and all adds up as before.
LEMMA SettleStep ==
    ASSUME NEW st, NEW D, NEW total, Settling(st, D, total), shielded \in Int, NEW e \in escrows \ D,
           NEW how \in {"open", "expired"}, NEW new, new = Settle(st, e, how)
    PROVE  Settling(new, D \cup {e}, total)
<1>0. PICK work, pooled, fees, left, filled, paid :
          /\ work = st.work /\ pooled = st.pool /\ fees = st.fees
          /\ left = new.work /\ filled = new.pool /\ paid = new.fees
  OBVIOUS
<1>1. IsState(st) /\ Unraced(work, pooled, st.consumed, Ended(st))
  BY <1>0 DEF Settling
<1>2. PICK H, E : E = escrows \ D /\ Books(work, pooled, fees, H, E, total)
  BY <1>0 DEF Settling
<1>3. pooled \in Int /\ e \in E /\ e.env \in Envelopes /\ E \ {e} = escrows \ (D \cup {e})
  BY <1>2 DEF Books, IsEscrows
<1>4. e.env.body.kind = "transfer" => e.env.body.tx \in Movements
  BY <1>3 DEF Movements, Bodies
<1>5. ASSUME NEW v, NEW verdict \in {"applied", "expired", "forfeited"}, v = [escrow |-> e, how |-> verdict],
             Ends(st, new, e, verdict), NEW spent, new.consumed = st.consumed \cup spent,
             Verdict(work, pooled, v, Ended(st) \cup {v}, spent, left, filled), NEW K, Books(left, filled, paid, K, E \ {e}, total)
      PROVE  Settling(new, D \cup {e}, total)
  BY <1>0, <1>3, <1>5, StillSettling
<1>6. CASE BodyRuns(st, new, e)
  <2>1. PICK tx, mid : tx = e.env.body.tx /\ mid = Put(Without(work, tx.inputs), <<tx.id, 0>>, tx.pay)
    OBVIOUS
  <2>2. /\ e.env.body.kind = "transfer" /\ Applies(st, tx)
        /\ left = Put(mid, <<e.env.id, 1>>, e.env.bond)
        /\ filled = pooled + tx.delta
        /\ paid = fees + ValueOf(tx.inputs, work) - tx.pay - tx.delta
        /\ new.consumed = st.consumed \cup tx.inputs
        /\ Ends(st, new, e, "applied")
    BY <1>0, <1>6, <2>1, Zenon DEF BodyRuns
  <2>3. Moves(work, pooled, fees, tx, mid, filled, paid) /\ Refunds(mid, e, left)
    BY <1>0, <1>4, <2>1, <2>2 DEF Applies, Moves, Refunds
  <2>4. PICK K : Books(mid, filled, paid, K, E, total) /\ Keeps(work, tx.inputs, mid)
    <3>1. Books(mid, filled, paid, H \cup {<<tx.id, 0>>}, E, total) /\ Keeps(work, tx.inputs, mid)
      BY <1>2, <2>3, ApplyBooks, Zenon
    <3> QED
      BY <3>1, Zenon
  <2>6. PICK K2 : Books(left, filled, paid, K2, E \ {e}, total) /\ Keeps(mid, {}, left)
    BY <1>3, <2>3, <2>4, EndBooks
  <2>7. PICK v, more : v = [escrow |-> e, how |-> "applied"] /\ more = Ended(st) \cup {v}
    OBVIOUS
  <2>8. tx \in AppliedIn(more)
    <3>1. v \in more /\ v.how = "applied" /\ v.escrow = e
      BY <2>7
    <3> QED
      BY <2>1, <2>2, <3>1 DEF AppliedIn
  <2>9. tx.delta \in Int /\ filled \in Int
    BY <2>3, <2>6, MovementFacts DEF Books, Moves
  <2>10. (\A t \in AppliedIn(more) : t.delta >= 0) => filled >= pooled
    <3>1. SUFFICES ASSUME \A t \in AppliedIn(more) : t.delta >= 0 PROVE filled >= pooled
      OBVIOUS
    <3>2. tx.delta >= 0
      BY <2>8, <3>1
    <3> QED
      BY <1>3, <2>2, <2>9, <3>2
  <2>11. tx.inputs \subseteq UNION {t.inputs : t \in AppliedIn(more)}
    BY <2>8
  <2>12. Keeps(work, tx.inputs, left)
    BY <2>4, <2>6 DEF Keeps
  <2>13. v.how = "applied"
    BY <2>7
  <2>14. Verdict(work, pooled, v, more, tx.inputs, left, filled)
    BY <1>3, <2>9, <2>10, <2>11, <2>12, <2>13 DEF Verdict
  <2> QED
    BY <1>5, <2>2, <2>6, <2>7, <2>14
<1>7. CASE BondBack(st, new, e)
  <2>1. PICK verdict \in {"applied", "expired"} : Ends(st, new, e, verdict)
    BY <1>7 DEF BondBack
  <2>2. Refunds(work, e, left) /\ filled = pooled /\ paid = fees /\ new.consumed = st.consumed
    BY <1>0, <1>7, Zenon DEF BondBack, Refunds
  <2>3. PICK K : Books(left, filled, paid, K, E \ {e}, total) /\ Keeps(work, {}, left)
    BY <1>2, <1>3, <2>2, EndBooks
  <2>4. PICK v, more : v = [escrow |-> e, how |-> verdict] /\ more = Ended(st) \cup {v}
    OBVIOUS
  <2>5. new.consumed = st.consumed \cup {}
    BY <2>2
  <2>6. filled >= pooled /\ v.how # "forfeited" /\ verdict \in {"applied", "expired", "forfeited"}
    BY <1>3, <2>2, <2>4
  <2>7. Verdict(work, pooled, v, more, {}, left, filled)
    BY <1>3, <2>2, <2>3, <2>6 DEF Verdict
  <2> QED
    BY <1>5, <2>1, <2>3, <2>4, <2>5, <2>6, <2>7
<1>8. CASE BondLost(st, new, e)
  <2>1. /\ e.env.body.kind # "reveal" /\ (e.env.body.kind = "transfer" => ~Applies(st, e.env.body.tx))
        /\ left = work /\ filled = pooled /\ paid = fees + e.env.bond /\ new.consumed = st.consumed
        /\ Ends(st, new, e, "forfeited")
    BY <1>0, <1>8, Zenon DEF BondLost
  <2>2. Books(left, filled, paid, H, E \ {e}, total)
    <3>1. Books(work, pooled, fees + e.env.bond, H, E \ {e}, total)
      BY <1>2, <1>3, EndBooks
    <3> QED
      BY <2>1, <3>1
  <2>3. PICK v, more : v = [escrow |-> e, how |-> "forfeited"] /\ more = Ended(st) \cup {v}
    OBVIOUS
  <2>4. AppliedIn(Ended(st)) \in SUBSET AppliedIn(more)
    BY <2>3 DEF AppliedIn
  <2>5. e.env.body.kind = "transfer" => ~Untouched(e.env.body.tx, AppliedIn(more))
    <3>1. SUFFICES ASSUME e.env.body.kind = "transfer", Untouched(e.env.body.tx, AppliedIn(more)) PROVE FALSE
      OBVIOUS
    <3>2. PICK tx \in Movements : tx = e.env.body.tx
      BY <1>4, <3>1
    <3>3. Untouched(tx, AppliedIn(Ended(st)))
      BY <2>4, <3>1, <3>2, UntouchedByFewer
    <3>4. Applies(st, tx)
      BY <1>0, <1>1, <1>3, <3>3, UntouchedApplies
    <3> QED
      BY <2>1, <3>1, <3>2, <3>4
  <2>6. new.consumed = st.consumed \cup {} /\ Keeps(work, {}, left) /\ filled >= pooled /\ v.escrow = e
    BY <1>3, <2>1, <2>3 DEF Keeps
  <2>7. Verdict(work, pooled, v, more, {}, left, filled)
    BY <1>3, <2>1, <2>5, <2>6 DEF Verdict
  <2> QED
    BY <1>5, <2>1, <2>2, <2>3, <2>6, <2>7
<1> QED
  BY <1>1, <1>6, <1>7, <1>8, SettleIs

\* A set is emptied by taking its last element away, again and again.
Peels(last, S, good) ==
    /\ {} \in good
    /\ \A s \in SUBSET S : s # {} => last[s] \in s /\ (s \ {last[s]} \in good => s \in good)

LEMMA Peeled ==
    ASSUME NEW S, IsFiniteSet(S), NEW last, NEW good, Peels(last, S, good)
    PROVE  S \in good
<1>0. {} \in good /\ \A s \in SUBSET S : s # {} => last[s] \in s /\ (s \ {last[s]} \in good => s \in good)
  BY DEF Peels
<1> DEFINE N == {n \in Nat : \A s \in SUBSET S : Cardinality(s) <= n => s \in good}
<1>1. ASSUME NEW s \in SUBSET S
      PROVE  /\ IsFiniteSet(s) /\ Cardinality(s) \in Nat /\ (Cardinality(s) = 0 <=> s = {})
             /\ \A x \in s : s \ {x} \in SUBSET S /\ Cardinality(s \ {x}) = Cardinality(s) - 1
  BY FS_Subset, FS_CardinalityType, FS_EmptySet, FS_RemoveElement
<1>2. 0 \in N
  <2>1. ASSUME NEW s \in SUBSET S, Cardinality(s) <= 0
        PROVE  s \in good
    <3>1. s = {}
      BY <1>1, <2>1
    <3> QED
      BY <1>0, <3>1
  <2> QED
    BY <2>1
<1>3. ASSUME NEW n \in N, n \in Nat
      PROVE  n + 1 \in N
  <2>1. ASSUME NEW s \in SUBSET S, Cardinality(s) <= n + 1
        PROVE  s \in good
    <3>1. CASE s # {}
      <4>1. s \ {last[s]} \in SUBSET S /\ Cardinality(s \ {last[s]}) = Cardinality(s) - 1 /\ Cardinality(s) \in Nat
        BY <1>0, <1>1, <3>1
      <4>2. Cardinality(s \ {last[s]}) <= n
        BY <2>1, <4>1
      <4> QED
        BY <1>0, <1>3, <3>1, <4>1, <4>2
    <3> QED
      BY <1>0, <3>1
  <2> QED
    BY <1>3, <2>1
<1>4. PICK n \in Nat : n = Cardinality(S)
  BY FS_CardinalityType
<1>5. n \in N
  BY <1>2, <1>3, Counting
<1> QED
  BY <1>4, <1>5

LEMMA SettleAllKeeps ==
    ASSUME NEW st, NEW D, NEW total, Settling(st, D, total), shielded \in Int, IsEscrows(escrows),
           NEW S \in SUBSET (escrows \ D), NEW how \in {"open", "expired"}
    PROVE  Settling(SettleAll(st, S, how), D \cup S, total)
<1>1. PICK run : run = Settled(st, S, how)
  OBVIOUS
<1>2. IsEscrows(S) /\ IsFiniteSet(S)
  BY FS_Subset DEF IsEscrows
<1>3. \A s \in SUBSET S : s # {} => LastEscrow(s) \in s
  BY <1>2, LastEscrowIn
<1>4. UnwindsSettle(run, st, S, how)
  BY <1>1, <1>2, <1>3, SettleRuns
<1> DEFINE last == [s \in SUBSET S |-> LastEscrow(s)]
           good == {s \in SUBSET S : Settling(run[s], D \cup s, total)}
<1>5. {} \in good
  <2>1. D \cup {} = D /\ run[{}] = st /\ {} \in SUBSET S
    BY <1>4 DEF UnwindsSettle
  <2> QED
    BY <2>1
<1>6. ASSUME NEW s \in SUBSET S, s # {}, s \ {last[s]} \in good
      PROVE  s \in good
  <2>1. PICK e, r : e = LastEscrow(s) /\ r = s \ {e} /\ e \in s /\ r \in SUBSET S
    BY <1>3, <1>6
  <2>2. run[s] = Settle(run[r], e, how)
    BY <1>4, <1>6, <2>1 DEF UnwindsSettle
  <2>3. Settling(run[r], D \cup r, total) /\ e \in escrows \ (D \cup r)
    BY <1>6, <2>1
  <2>4. Settling(run[s], (D \cup r) \cup {e}, total)
    BY <2>2, <2>3, SettleStep
  <2>5. (D \cup r) \cup {e} = D \cup s
    BY <2>1
  <2> QED
    BY <2>4, <2>5
<1>7. Peels(last, S, good)
  BY <1>3, <1>5, <1>6 DEF Peels
<1>8. S \in good
  <2> HIDE DEF good, last
  <2> QED
    BY <1>2, <1>7, Peeled
<1> QED
  BY <1>1, <1>8, LoopsUnwind

\* The escrows that openings release.
Released(openings) == UNION {long_escrows_for(o) : o \in openings}

IsOpenings(S) ==
    /\ IsFiniteSet(S) /\ \A o \in S : o.unlock \in Nat /\ o.root \in Nat
    /\ \A o, p \in S : o.unlock = p.unlock /\ o.root = p.root => o = p

LEMMA OpenAllKeeps ==
    ASSUME NEW st, NEW D, NEW total, Settling(st, D, total), shielded \in Int, IsEscrows(escrows),
           NEW S, IsOpenings(S), Released(S) \cap D = {}
    PROVE  Settling(OpenAll(st, S), D \cup Released(S), total)
<1>1. PICK run : run = OpenedBy(st, S)
  OBVIOUS
<1>2. IsFiniteSet(S) /\ \A o \in S : o.unlock \in Nat /\ o.root \in Nat
  BY DEF IsOpenings
<1>3. \A s \in SUBSET S : s # {} => LastOpening(s) \in s
  BY <1>2, LastOpeningIn
<1>4. UnwindsOpen(run, st, S)
  BY <1>1, <1>2, <1>3, OpenRuns
<1> DEFINE last == [s \in SUBSET S |-> LastOpening(s)]
           good == {s \in SUBSET S : Settling(run[s], D \cup Released(s), total)}
<1>5. {} \in good
  <2>1. D \cup Released({}) = D /\ run[{}] = st /\ {} \in SUBSET S
    BY <1>4 DEF Released, UnwindsOpen
  <2> QED
    BY <2>1
<1>6. ASSUME NEW s \in SUBSET S, s # {}, s \ {last[s]} \in good
      PROVE  s \in good
  <2>1. PICK o, r : o = LastOpening(s) /\ r = s \ {o} /\ o \in s /\ r \in SUBSET S
    BY <1>3, <1>6
  <2>2. PICK L, R : L = long_escrows_for(o) /\ R = Released(r)
    OBVIOUS
  <2>3. run[s] = SettleAll(run[r], L, "open")
    BY <1>4, <1>6, <2>1, <2>2 DEF UnwindsOpen
  <2>4. Settling(run[r], D \cup R, total)
    BY <1>6, <2>1, <2>2
  <2>5. L \cap R = {}
    BY <2>1, <2>2 DEF Released, long_escrows_for, IsOpenings
  <2>6. L \subseteq escrows /\ L \cap D = {}
    BY <2>1, <2>2 DEF Released, long_escrows_for
  <2>7. L \in SUBSET (escrows \ (D \cup R))
    BY <2>5, <2>6
  <2>8. Settling(run[s], (D \cup R) \cup L, total)
    BY <2>3, <2>4, <2>7, SettleAllKeeps
  <2>9. (D \cup R) \cup L = D \cup Released(s)
    <3>1. Released(s) = R \cup L
      BY <2>1, <2>2 DEF Released
    <3> QED
      BY <3>1
  <2> QED
    BY <2>8, <2>9
<1>7. Peels(last, S, good)
  BY <1>3, <1>5, <1>6 DEF Peels
<1>8. S \in good
  <2> HIDE DEF good, last
  <2> QED
    BY <1>2, <1>7, Peeled
<1> QED
  BY <1>1, <1>8, LoopsUnwind

\* The escrows that end in a block of this height.
Due(next) == {e \in escrows : e.env.unlock = next - 1 /\ ~timed_is_long_lock(e.env)}
Late(next) == {e \in escrows : e.env.unlock = GraceEnd(next) /\ timed_is_long_lock(e.env)}
Gone(next, openings) == Due(next) \cup Released(openings) \cup Late(next)

LEMMA BlockNumbers ==
    GraceBlocks \in Nat /\ EpochBlocksT \in Nat \ {0} /\ LastExecuted \in Nat
  BY TimedReleaseAssumption

LEMMA SettlementsKeep ==
    ASSUME NEW st, NEW total, Settling(st, {}, total), shielded \in Int, IsEscrows(escrows), NEW next \in Nat,
           NEW openings, IsOpenings(openings), verify_long_time_signatures(next, openings)
    PROVE  Settling(Settlements(st, next, openings), Gone(next, openings), total)
<1>1. PICK a, b : a = SettleAll(st, Due(next), "open") /\ b = OpenAll(a, openings)
  OBVIOUS
<1>2. Settlements(st, next, openings) = SettleAll(b, Late(next), "expired")
  BY <1>1 DEF Settlements, Due, Late
<1>3. \A e \in escrows : e.env.unlock \in Nat
  BY EnvelopeFacts DEF IsEscrows
<1>4. Settling(a, Due(next), total)
  <2>1. Due(next) \in SUBSET (escrows \ {}) /\ {} \cup Due(next) = Due(next)
    BY DEF Due
  <2>2. Settling(a, {} \cup Due(next), total)
    BY <1>1, <2>1, SettleAllKeeps
  <2> QED
    BY <2>1, <2>2
<1>5. Released(openings) \cap Due(next) = {}
  BY DEF Released, Due, long_escrows_for
<1>6. Settling(b, Due(next) \cup Released(openings), total)
  BY <1>1, <1>4, <1>5, OpenAllKeeps
<1>7. Late(next) \in SUBSET (escrows \ (Due(next) \cup Released(openings)))
  <2>1. SUFFICES ASSUME NEW e \in Late(next), e \in Released(openings)
                 PROVE  FALSE
    BY DEF Late, Due
  <2>2. PICK o \in openings : e \in long_escrows_for(o)
    BY <2>1 DEF Released
  <2>3. e \in escrows /\ e.env.unlock = o.unlock /\ next - o.unlock <= GraceBlocks /\ e.env.unlock = next - GraceBlocks - 1
    BY <2>1, <2>2 DEF long_escrows_for, verify_long_time_signatures, Late, GraceEnd
  <2> QED
    BY <1>3, <2>3, BlockNumbers
<1> QED
  BY <1>2, <1>6, <1>7, SettleAllKeeps DEF Gone

-------------------------------------------------------------------------------
(* The records of a block.                                                      *)

\* The escrows that the envelopes of the block open.
Fresh(opened, next) == {[env |-> opened[i], at |-> next, index |-> i - 1] : i \in DOMAIN opened}

Opens(opened, next) ==
    opened \in Seq({env \in Envelopes \cap NewRecords : env.unlock >= next})

Recording(st, settled, next, D, total) ==
    /\ IsState(st) /\ st.settled = settled /\ Opens(st.opened, next)
    /\ \E H : Books(st.work, st.pool, st.fees, H, (escrows \ D) \cup Fresh(st.opened, next), total)

LEMMA OpensOneMore ==
    ASSUME NEW next \in Nat, NEW opened, Opens(opened, next), NEW env \in Envelopes \cap NewRecords, env.unlock >= next
    PROVE  /\ Opens(Append(opened, env), next) /\ Len(opened) \in Nat
           /\ Fresh(Append(opened, env), next) = Fresh(opened, next) \cup {[env |-> env, at |-> next, index |-> Len(opened)]}
<1>1. PICK R : R = {x \in Envelopes \cap NewRecords : x.unlock >= next} /\ opened \in Seq(R) /\ env \in R
  BY DEF Opens
<1>2. PICK longer, n : longer = Append(opened, env) /\ n = Len(opened)
  OBVIOUS
<1>3. longer \in Seq(R) /\ Len(longer) = n + 1 /\ n \in Nat
      /\ (\A i \in 1..n : longer[i] = opened[i]) /\ longer[n + 1] = env
  BY <1>1, <1>2
<1>4. DOMAIN opened = 1..n /\ DOMAIN longer = 1..(n + 1)
  BY <1>1, <1>2, <1>3
<1>5. PICK esc : esc = [env |-> env, at |-> next, index |-> n]
  OBVIOUS
<1>6. Fresh(longer, next) = Fresh(opened, next) \cup {esc}
  <2>1. ASSUME NEW x \in Fresh(longer, next)
        PROVE  x \in Fresh(opened, next) \cup {esc}
    <3>1. PICK i \in DOMAIN longer : x = [env |-> longer[i], at |-> next, index |-> i - 1]
      BY <2>1 DEF Fresh
    <3>2. CASE i = n + 1
      BY <1>3, <1>5, <3>1, <3>2
    <3>3. CASE i # n + 1
      <4>1. i \in DOMAIN opened /\ longer[i] = opened[i]
        BY <1>3, <1>4, <3>3
      <4> QED
        BY <3>1, <4>1 DEF Fresh
    <3> QED
      BY <3>2, <3>3
  <2>2. esc \in Fresh(longer, next)
    <3>1. n + 1 \in DOMAIN longer /\ (n + 1) - 1 = n
      BY <1>3, <1>4
    <3>2. [env |-> longer[n + 1], at |-> next, index |-> (n + 1) - 1] \in Fresh(longer, next)
      BY <3>1 DEF Fresh
    <3> QED
      BY <1>3, <1>5, <3>1, <3>2
  <2>3. ASSUME NEW x \in Fresh(opened, next)
        PROVE  x \in Fresh(longer, next)
    <3>1. PICK i \in DOMAIN opened : x = [env |-> opened[i], at |-> next, index |-> i - 1]
      BY <2>3 DEF Fresh
    <3>2. i \in DOMAIN longer /\ longer[i] = opened[i]
      BY <1>3, <1>4
    <3> QED
      BY <3>1, <3>2 DEF Fresh
  <2> QED
    BY <2>1, <2>2, <2>3
<1> QED
  BY <1>1, <1>2, <1>3, <1>5, <1>6 DEF Opens

LEMMA IncludeIs ==
    ASSUME NEW st, IsState(st), NEW env \in Envelopes, NEW next, NEW new, new = try_include_timed(st, env, next)
    PROVE  \/ new = st
           \/ /\ IsState(new) /\ new.settled = st.settled /\ new.pool = st.pool /\ env.unlock >= next
              /\ new.opened = Append(st.opened, env)
              /\ Includes(st.work, st.fees, env, new.work, new.fees)
<1>1. SUFFICES ASSUME new # st
      PROVE  /\ IsState(new) /\ new.settled = st.settled /\ new.pool = st.pool /\ env.unlock >= next
             /\ new.opened = Append(st.opened, env)
             /\ Includes(st.work, st.fees, env, new.work, new.fees)
  OBVIOUS
<1>2. PICK work : work = Put(Without(st.work, {env.coin}), <<env.id, 0>>, st.work[env.coin] - env.prepaid - env.bond)
  OBVIOUS
<1>3. /\ check_timed_inclusion(st, env, next)
      /\ new = [st EXCEPT !.work = work, !.consumed = @ \cup {env.coin}, !.fees = @ + env.prepaid, !.opened = Append(@, env)]
  BY <1>1, <1>2, Zenon DEF try_include_timed
<1>4. /\ IsState(new) /\ new.settled = st.settled /\ new.pool = st.pool
      /\ new.work = work /\ new.fees = st.fees + env.prepaid /\ new.opened = Append(st.opened, env)
  BY <1>3 DEF IsState
<1> QED
  BY <1>2, <1>3, <1>4 DEF Includes, check_timed_inclusion

LEMMA RecordKeeps ==
    ASSUME NEW st, NEW settled, NEW next \in Nat, NEW D, NEW total, Recording(st, settled, next, D, total),
           NEW r \in NewRecords, NEW new, new = RecordStep(st, r, next)
    PROVE  Recording(new, settled, next, D, total)
<1>1. IsState(st) /\ st.settled = settled /\ Opens(st.opened, next)
  BY DEF Recording
<1>2. PICK H, E : E = (escrows \ D) \cup Fresh(st.opened, next) /\ Books(st.work, st.pool, st.fees, H, E, total)
  BY DEF Recording
<1>3. CASE r \in Envelopes
  <2>1. new = try_include_timed(st, r, next)
    BY <1>3 DEF RecordStep
  <2>2. SUFFICES ASSUME /\ IsState(new) /\ new.settled = st.settled /\ new.pool = st.pool /\ r.unlock >= next
                        /\ new.opened = Append(st.opened, r)
                        /\ Includes(st.work, st.fees, r, new.work, new.fees)
                 PROVE  Recording(new, settled, next, D, total)
    BY <1>1, <1>3, <2>1, IncludeIs
  <2>3. PICK esc : esc = [env |-> r, at |-> next, index |-> Len(st.opened)]
    OBVIOUS
  <2>4. /\ Opens(new.opened, next) /\ Len(st.opened) \in Nat
        /\ Fresh(new.opened, next) = Fresh(st.opened, next) \cup {esc}
    BY <1>1, <1>3, <2>2, <2>3, OpensOneMore
  <2>5. esc.env = r /\ esc.at \in Nat /\ esc.index \in Nat
    BY <2>3, <2>4
  <2>6. \E K : Books(new.work, new.pool, new.fees, K, E \cup {esc}, total)
    <3>1. Books(new.work, st.pool, new.fees, H \cup {<<r.id, 0>>}, E \cup {esc}, total)
      BY <1>2, <2>2, <2>5, IncludeBooks
    <3> QED
      BY <2>2, <3>1
  <2>7. E \cup {esc} = (escrows \ D) \cup Fresh(new.opened, next)
    BY <1>2, <2>4
  <2> QED
    BY <1>1, <2>2, <2>4, <2>6, <2>7 DEF Recording
<1>4. CASE r \notin Envelopes
  <2>1. r \in Movements /\ new = try_apply(st, r)
    BY <1>4 DEF RecordStep, NewRecords, Movements
  <2>2. CASE ~Applies(st, r)
    BY <2>1, <2>2 DEF try_apply
  <2>3. CASE Applies(st, r)
    <3>1. /\ IsState(new) /\ new.opened = st.opened /\ new.settled = st.settled
          /\ new.work = Put(Without(st.work, r.inputs), <<r.id, 0>>, r.pay)
          /\ new.pool = st.pool + r.delta
          /\ new.fees = st.fees + ValueOf(r.inputs, st.work) - r.pay - r.delta
      BY <1>1, <2>1, <2>3, ApplyIs
    <3>2. Moves(st.work, st.pool, st.fees, r, new.work, new.pool, new.fees)
      BY <2>1, <2>3, <3>1 DEF Moves, Applies
    <3>3. Books(new.work, new.pool, new.fees, H \cup {<<r.id, 0>>}, E, total)
      BY <1>2, <3>2, ApplyBooks, Zenon
    <3> QED
      BY <1>1, <1>2, <3>1, <3>3 DEF Recording
  <2> QED
    BY <2>2, <2>3
<1> QED
  BY <1>3, <1>4

LEMMA RecordsKeep ==
    ASSUME NEW st, NEW settled, NEW next \in Nat, NEW D, NEW total, Recording(st, settled, next, D, total),
           NEW records \in Seq(NewRecords)
    PROVE  Recording(Records(st, next, records), settled, next, D, total)
<1>1. PICK S, run : S = DOMAIN records /\ run = Recorded(st, next, records, S)
  OBVIOUS
<1>2. IsFiniteSet(S) /\ S \subseteq Nat /\ \A i \in S : records[i] \in NewRecords
  <2>1. S = 1..Len(records) /\ Len(records) \in Nat
    BY <1>1
  <2> QED
    <3>1. IsFiniteSet(1..Len(records)) /\ 1..Len(records) \subseteq Nat
      BY <2>1, FS_Interval
    <3> QED
      BY <1>1, <2>1, <3>1
<1>3. \A s \in SUBSET S : s # {} => Max(s) \in s
  BY <1>2, LastIndexIn
<1>4. UnwindsRecords(run, st, next, records, S)
  BY <1>1, <1>2, <1>3, RecordRuns
<1> DEFINE last == [s \in SUBSET S |-> Max(s)]
           good == {s \in SUBSET S : Recording(run[s], settled, next, D, total)}
<1>5. {} \in good
  <2>1. run[{}] = st /\ {} \in SUBSET S
    BY <1>4 DEF UnwindsRecords
  <2> QED
    BY <2>1
<1>6. ASSUME NEW s \in SUBSET S, s # {}, s \ {last[s]} \in good
      PROVE  s \in good
  <2>1. PICK i, k : i = Max(s) /\ k = s \ {i} /\ i \in s /\ k \in SUBSET S
    BY <1>3, <1>6
  <2>2. run[s] = RecordStep(run[k], records[i], next) /\ records[i] \in NewRecords
    BY <1>2, <1>4, <1>6, <2>1 DEF UnwindsRecords
  <2>3. Recording(run[k], settled, next, D, total)
    BY <1>6, <2>1
  <2>4. Recording(run[s], settled, next, D, total)
    BY <2>2, <2>3, RecordKeeps
  <2> QED
    BY <2>4
<1>7. Peels(last, S, good)
  BY <1>3, <1>5, <1>6 DEF Peels
<1>8. S \in good
  <2> HIDE DEF good, last
  <2> QED
    BY <1>2, <1>7, Peeled
<1> QED
  BY <1>1, <1>8, LoopsUnwind

-------------------------------------------------------------------------------
(* The blocks.                                                                  *)

LEMMA FeesCarried ==
    ASSUME NEW work, NEW pooled, NEW fees, NEW H, NEW E, NEW total, Books(work, pooled, fees, H, E, total), NEW extra \in Int
    PROVE  total \in Int /\ Books(work, pooled, extra + fees, H, E, total + extra)
<1>1. Money(work) /\ pooled \in Int /\ fees \in Int /\ IsEscrows(E) /\ Names(H, DOMAIN work, E)
      /\ SumFunction(work) + pooled + fees + BondsIn(E) = total
  BY DEF Books
<1>2. SumFunction(work) \in Int /\ BondsIn(E) \in Int
  <2>1. PICK S : S = DOMAIN work /\ IsFiniteSet(S) /\ work \in [S -> Nat]
    BY <1>1 DEF Money
  <2> QED
    BY <1>1, <2>1, SumNatural, BondsOf
<1>3. total \in Int /\ SumFunction(work) + pooled + (extra + fees) + BondsIn(E) = total + extra
  BY <1>1, <1>2
<1> QED
  BY <1>1, <1>3 DEF Books

\* Nothing is opened yet when the records of a block begin.
LEMMA RecordsBegin ==
    ASSUME NEW st, NEW D, NEW total, Settling(st, D, total), NEW next
    PROVE  Recording(st, st.settled, next, D, total)
<1>1. IsState(st) /\ st.opened = <<>> /\ \E H : Books(st.work, st.pool, st.fees, H, escrows \ D, total)
  BY DEF Settling
<1>2. Opens(<<>>, next)
  BY DEF Opens
<1>3. (escrows \ D) \cup Fresh(<<>>, next) = escrows \ D
  BY DEF Fresh
<1> QED
  BY <1>1, <1>2, <1>3 DEF Recording

Total == SumFunction(StartFunds)

\* What holds between blocks.
TimedInvariant ==
    /\ executed \in Nat /\ shielded \in Int /\ feesTaken \in Int
    /\ \E H : Books(funds, shielded, feesTaken, H, escrows, Total)
    /\ EscrowsEnd /\ NoForfeitByRace

LEMMA OpeningsArePossible ==
    ASSUME IsEscrows(escrows), NEW openings \in SUBSET PossibleOpenings
    PROVE  IsOpenings(openings)
<1>1. IsFiniteSet(PossibleOpenings)
  <2>1. IsFiniteSet(escrows)
    BY DEF IsEscrows
  <2> QED
    <3>1. PICK f : f = [e \in escrows |-> [unlock |-> e.env.unlock, root |-> KeysRoot[e.env.epoch]]]
      OBVIOUS
    <3>2. f \in Surjection(escrows, PossibleOpenings)
      BY <3>1 DEF Surjection, PossibleOpenings
    <3> QED
      BY <2>1, <3>2, FS_Surjection
<1>2. IsFiniteSet(openings)
  BY <1>1, FS_Subset
<1>3. \A e \in escrows : e.env.unlock \in Nat /\ KeysRoot[e.env.epoch] \in Nat
  BY EnvelopeFacts DEF IsEscrows
<1>4. \A o \in openings : \E e \in escrows : o = [unlock |-> e.env.unlock, root |-> KeysRoot[e.env.epoch]]
  BY DEF PossibleOpenings
<1> QED
  BY <1>2, <1>3, <1>4 DEF IsOpenings

\* What a block leaves behind.
LEMMA BlockRuns ==
    ASSUME TimedInvariant, NEW openings \in SUBSET PossibleOpenings, NEW records \in Seq(NewRecords),
           NEW next, next = executed + 1, verify_long_time_signatures(next, openings),
           NEW out, out = execute_frontier_slice(openings, records)
    PROVE  \E D, mid : /\ D = Gone(next, openings) /\ Settling(mid, D, Total - feesTaken)
                       /\ Recording(out, mid.settled, next, D, Total - feesTaken)
<1>1. executed \in Nat /\ shielded \in Int /\ feesTaken \in Int /\ next \in Nat
  BY DEF TimedInvariant
<1>2. PICK H : Books(funds, shielded, feesTaken, H, escrows, Total)
  BY DEF TimedInvariant
<1>3. PICK st : st = [work |-> funds, pool |-> shielded, fees |-> 0, consumed |-> {}, opened |-> <<>>, settled |-> <<>>]
  OBVIOUS
<1>4. Settling(st, {}, Total - feesTaken)
  <2>1. /\ IsState(st) /\ st.opened = <<>> /\ st.settled = <<>> /\ st.work = funds /\ st.pool = shielded
        /\ st.fees = 0 /\ st.consumed = {}
    BY <1>3 DEF IsState
  <2>2. Ended(st) = {} /\ st.settled \in Seq(Verdicts)
    BY <2>1 DEF Ended
  <2>3. Tallied(st, {})
    BY <2>2 DEF Tallied
  <2>4. Unraced(funds, shielded, {}, {})
    BY <1>1 DEF Unraced
  <2>5. Books(funds, shielded, 0, H, escrows \ {}, Total - feesTaken)
    <3>1. PICK less : less = -feesTaken /\ less \in Int
      BY <1>1
    <3>2. Total \in Int /\ Books(funds, shielded, less + feesTaken, H, escrows, Total + less)
      BY <1>2, <3>1, FeesCarried
    <3>3. less + feesTaken = 0 /\ Total + less = Total - feesTaken /\ escrows \ {} = escrows
      BY <1>1, <3>1, <3>2
    <3> QED
      BY <3>2, <3>3
  <2> QED
    BY <2>1, <2>2, <2>3, <2>4, <2>5 DEF Settling
<1>5. IsEscrows(escrows)
  BY <1>2 DEF Books
<1>6. IsOpenings(openings)
  BY <1>5, OpeningsArePossible
<1>7. PICK mid : mid = Settlements(st, next, openings)
  OBVIOUS
<1>8. Settling(mid, Gone(next, openings), Total - feesTaken)
  BY <1>1, <1>4, <1>5, <1>6, <1>7, SettlementsKeep
<1>9. out = Records(mid, next, records)
  BY <1>3, <1>7 DEF execute_frontier_slice, InTurn
<1>10. Recording(out, mid.settled, next, Gone(next, openings), Total - feesTaken)
  BY <1>1, <1>8, <1>9, RecordsBegin, RecordsKeep
<1> QED
  BY <1>8, <1>10

\* A short lock ends in the block after its height, a long one with its grace period.
LEMMA InTime ==
    ASSUME executed \in Nat, NEW next, next = executed + 1, NEW openings, NEW e \in escrows \ Gone(next, openings), e.env.unlock \in Nat,
           executed <= e.env.unlock + (IF timed_is_long_lock(e.env) THEN GraceBlocks ELSE 0)
    PROVE  next <= e.env.unlock + (IF timed_is_long_lock(e.env) THEN GraceBlocks ELSE 0)
<1>1. e \notin Due(next) /\ e \notin Late(next)
  BY DEF Gone
<1>2. CASE timed_is_long_lock(e.env)
  <2>1. e.env.unlock # next - GraceBlocks - 1
    BY <1>1, <1>2 DEF Late, GraceEnd
  <2> QED
    BY <1>2, <2>1, BlockNumbers
<1>3. CASE ~timed_is_long_lock(e.env)
  <2>1. e.env.unlock # next - 1
    BY <1>1, <1>3 DEF Due
  <2> QED
    BY <1>3, <2>1
<1> QED
  BY <1>2, <1>3

\* Of two settlements of a block, each is of its own envelope; none is of an envelope that waits.
Settlement(s, ended, next) ==
    LET Others(e) == {t.escrow.env.body.tx : t \in {x \in ended : x.escrow # e /\ x.how = "applied" /\ x.escrow.env.body.kind = "transfer"}}
    IN  [id |-> s.escrow.env.id, how |-> s.how, height |-> next,
         untouched |-> s.escrow.env.body.kind = "reveal"
                       \/ (s.escrow.env.body.kind = "transfer" /\ Untouched(s.escrow.env.body.tx, Others(s.escrow)))]

LEMMA SettlementIs ==
    ASSUME NEW s, NEW ended, NEW next
    PROVE  Settlement(s, ended, next).id = s.escrow.env.id /\ Settlement(s, ended, next).how = s.how
  BY DEF Settlement

LEMMA NotRaced ==
    ASSUME NEW st, NEW D, NEW total, Settling(st, D, total), NEW s \in Ended(st), NEW next, s.how = "forfeited"
    PROVE  ~Settlement(s, Ended(st), next).untouched
<1> DEFINE others == {t.escrow.env.body.tx : t \in {x \in Ended(st) : x.escrow # s.escrow /\ x.how = "applied"
                                                                       /\ x.escrow.env.body.kind = "transfer"}}
<1>1. AppliedIn(Ended(st)) \in SUBSET others
  <2>1. \A t \in Ended(st) : t.how = "applied" => t.escrow # s.escrow
    BY DEF Settling, Tallied
  <2> QED
    BY <2>1 DEF AppliedIn
<1>2. /\ s.escrow.env.body.kind # "reveal"
      /\ s.escrow.env.body.kind = "transfer" => ~Untouched(s.escrow.env.body.tx, AppliedIn(Ended(st)))
  BY DEF Settling, Unraced
<1>3. s.escrow.env.body.kind = "transfer" => ~Untouched(s.escrow.env.body.tx, others)
  <2> HIDE DEF others
  <2> QED
    BY <1>1, <1>2, UntouchedByFewer
<1>4. Settlement(s, Ended(st), next).untouched = (s.escrow.env.body.kind = "reveal"
                       \/ (s.escrow.env.body.kind = "transfer" /\ Untouched(s.escrow.env.body.tx, others)))
  BY DEF Settlement
<1> QED
  BY <1>2, <1>3, <1>4

LEMMA BlockKeeps ==
    ASSUME TimedInvariant, NEW openings \in SUBSET PossibleOpenings, NEW records \in Seq(NewRecords),
           ExecuteBlock(openings, records)
    PROVE  TimedInvariant'
<1>1. PICK next, out : next = executed + 1 /\ out = execute_frontier_slice(openings, records)
  OBVIOUS
<1>2. PICK ended, opened, kept, roots :
        /\ ended = Ended(out) /\ opened = Fresh(out.opened, next)
        /\ kept = (escrows \ {s.escrow : s \in ended}) \cup opened
        /\ roots = keySets \cup {KeysRoot[e.env.epoch] : e \in {f \in opened : timed_is_long_lock(f.env)}}
  OBVIOUS
<1>3. /\ verify_long_time_signatures(next, openings) /\ executed' = next
      /\ funds' = out.work /\ shielded' = out.pool /\ feesTaken' = feesTaken + out.fees
      /\ escrows' = kept /\ keySets' = {r \in roots : \E e \in kept : KeysRoot[e.env.epoch] = r}
      /\ settlements' = settlements \cup {Settlement(s, ended, next) : s \in ended}
  BY <1>1, <1>2 DEF ExecuteBlock, Ended, Fresh, Settlement
<1>4. PICK D, mid : /\ D = Gone(next, openings) /\ Settling(mid, D, Total - feesTaken)
                    /\ Recording(out, mid.settled, next, D, Total - feesTaken)
  BY <1>1, <1>3, BlockRuns
<1>5. Ended(mid) = ended /\ Tallied(mid, D)
  BY <1>2, <1>4 DEF Ended, Recording, Settling
<1>6. {s.escrow : s \in ended} = D /\ D \subseteq escrows /\ (\A s, t \in ended : s.escrow = t.escrow => s = t)
      /\ kept = (escrows \ D) \cup opened
  BY <1>2, <1>5 DEF Tallied
<1>7. executed \in Nat /\ next \in Nat /\ feesTaken \in Int /\ EscrowsEnd /\ NoForfeitByRace
  BY <1>1 DEF TimedInvariant
<1>8. PICK H : Books(out.work, out.pool, feesTaken + out.fees, H, kept, Total)
  <2>1. PICK H : Books(out.work, out.pool, out.fees, H, kept, Total - feesTaken)
    BY <1>2, <1>4, <1>6 DEF Recording
  <2>2. Total - feesTaken \in Int /\ Books(out.work, out.pool, feesTaken + out.fees, H, kept, (Total - feesTaken) + feesTaken)
    BY <1>7, <2>1, FeesCarried
  <2>3. Total \in Int
    BY FeesCarried, <1>7 DEF TimedInvariant
  <2>4. (Total - feesTaken) + feesTaken = Total
    BY <1>7, <2>3
  <2> QED
    BY <2>2, <2>4
<1>9. IsEscrows(kept) /\ IsEscrows(escrows)
  BY <1>8 DEF Books, TimedInvariant
<1>10. ASSUME NEW e \in opened
       PROVE  e.env \in Envelopes /\ e.env \in NewRecords /\ e.env.unlock >= next
  <2>1. PICK i \in DOMAIN out.opened : e = [env |-> out.opened[i], at |-> next, index |-> i - 1]
    BY <1>2 DEF Fresh
  <2>2. out.opened \in Seq({env \in Envelopes \cap NewRecords : env.unlock >= next})
    BY <1>4 DEF Recording, Opens
  <2>3. out.opened[i] \in {env \in Envelopes \cap NewRecords : env.unlock >= next}
    BY <2>2
  <2> QED
    BY <2>1, <2>3
<1>11. ASSUME NEW e \in kept
       PROVE  /\ next <= e.env.unlock + (IF timed_is_long_lock(e.env) THEN GraceBlocks ELSE 0)
              /\ timed_is_long_lock(e.env) => KeysRoot[e.env.epoch] \in keySets'
              /\ \A s \in settlements' : s.id # e.env.id
  <2>1. e.env \in Envelopes /\ e.env.unlock \in Nat
    BY <1>9, EnvelopeFacts DEF IsEscrows
  <2>2. CASE e \in escrows \ D
    <3>1. /\ executed <= e.env.unlock + (IF timed_is_long_lock(e.env) THEN GraceBlocks ELSE 0)
          /\ timed_is_long_lock(e.env) => KeysRoot[e.env.epoch] \in keySets
          /\ \A s \in settlements : s.id # e.env.id
      BY <1>7, <2>2 DEF EscrowsEnd
    <3>2. next <= e.env.unlock + (IF timed_is_long_lock(e.env) THEN GraceBlocks ELSE 0)
      BY <1>1, <1>4, <1>7, <2>1, <2>2, <3>1, InTime
    <3>3. timed_is_long_lock(e.env) => KeysRoot[e.env.epoch] \in keySets'
      BY <1>2, <1>3, <3>1
    <3>4. ASSUME NEW s \in ended
          PROVE  s.escrow.env.id # e.env.id
      <4>1. s.escrow \in escrows /\ s.escrow # e
        BY <1>6, <2>2
      <4>2. s.escrow.env # e.env /\ s.escrow.env \in Envelopes
        BY <1>9, <2>2, <4>1 DEF IsEscrows
      <4> QED
        BY <2>1, <4>2, EnvelopeFacts
    <3> QED
      BY <1>3, <3>1, <3>2, <3>3, <3>4, SettlementIs
  <2>3. CASE e \in opened
    <3>1. e.env \in NewRecords /\ e.env.unlock >= next
      BY <1>10, <2>3
    <3>2. (\A f \in escrows : f.env # e.env) /\ (\A s \in settlements : s.id # e.env.id)
      <4>1. e.env \notin Transfers
        BY <2>1, EnvelopeFacts DEF Movements
      <4> QED
        BY <3>1, <4>1 DEF NewRecords
    <3>3. ASSUME NEW s \in ended
          PROVE  s.escrow.env.id # e.env.id
      <4>1. s.escrow \in escrows
        BY <1>6
      <4>2. s.escrow.env # e.env /\ s.escrow.env \in Envelopes
        BY <1>9, <3>2, <4>1 DEF IsEscrows
      <4> QED
        BY <2>1, <4>2, EnvelopeFacts
    <3>4. timed_is_long_lock(e.env) => KeysRoot[e.env.epoch] \in keySets'
      BY <1>2, <1>3, <1>11, <2>3
    <3>5. next <= e.env.unlock + (IF timed_is_long_lock(e.env) THEN GraceBlocks ELSE 0)
      BY <1>7, <2>1, <3>1, BlockNumbers
    <3> QED
      BY <1>3, <3>2, <3>3, <3>4, <3>5, SettlementIs
  <2> QED
    BY <1>6, <1>11, <2>2, <2>3
<1>12. ASSUME NEW s \in settlements', NEW t \in settlements', s.id = t.id
       PROVE  s = t
  <2>1. ASSUME NEW a \in settlements, NEW b \in ended, a.id = Settlement(b, ended, next).id
        PROVE  FALSE
    <3>1. b.escrow \in escrows /\ a.id = b.escrow.env.id
      BY <1>6, <2>1, SettlementIs
    <3> QED
      BY <1>7, <3>1 DEF EscrowsEnd
  <2>2. ASSUME NEW a \in ended, NEW b \in ended, Settlement(a, ended, next).id = Settlement(b, ended, next).id
        PROVE  a = b
    <3>1. a.escrow \in escrows /\ b.escrow \in escrows /\ a.escrow.env.id = b.escrow.env.id
      BY <1>6, <2>2, SettlementIs
    <3>2. a.escrow.env \in Envelopes /\ b.escrow.env \in Envelopes
      BY <1>9, <3>1 DEF IsEscrows
    <3>3. a.escrow.env = b.escrow.env
      BY <3>1, <3>2, EnvelopeFacts
    <3> QED
      BY <1>6, <1>9, <3>1, <3>3 DEF IsEscrows
  <2>3. s \in settlements \/ \E a \in ended : s = Settlement(a, ended, next)
    BY <1>3
  <2>4. t \in settlements \/ \E b \in ended : t = Settlement(b, ended, next)
    BY <1>3
  <2>5. CASE s \in settlements /\ t \in settlements
    BY <1>7, <1>12, <2>5 DEF EscrowsEnd
  <2> QED
    BY <1>12, <2>1, <2>2, <2>3, <2>4, <2>5
<1>13. NoForfeitByRace'
  <2>1. ASSUME NEW s \in ended
        PROVE  Settlement(s, ended, next).untouched => s.how # "forfeited"
    BY <1>4, <1>5, NotRaced
  <2>2. \A s \in settlements' : s.untouched => s.how # "forfeited"
    BY <1>3, <1>7, <2>1, SettlementIs DEF NoForfeitByRace
  <2> QED
    BY <2>2 DEF NoForfeitByRace
<1>14. SumFunction(funds') + shielded' + feesTaken' + SumFunction([e \in escrows' |-> e.env.bond]) = SumFunction(StartFunds)
  BY <1>3, <1>8 DEF Books, BondsIn, Total
<1>15. EscrowsEnd'
  BY <1>3, <1>11, <1>12, <1>14 DEF EscrowsEnd, timed_is_long_lock, EpochOfHeight
<1>16. shielded' \in Int /\ feesTaken' \in Int
  BY <1>3, <1>8 DEF Books
<1> QED
  BY <1>3, <1>7, <1>8, <1>13, <1>15, <1>16 DEF TimedInvariant, Books, Names, BondsIn, Total

LEMMA FirstBooks ==
    ASSUME ExInit
    PROVE  TimedInvariant
<1>1. /\ executed = 0 /\ funds = StartFunds /\ shielded = 0 /\ feesTaken = 0
      /\ escrows = {} /\ keySets = {} /\ settlements = {}
  BY DEF ExInit
<1>2. PICK S : S = DOMAIN StartFunds
  OBVIOUS
<1>3. /\ IsFiniteSet(S) /\ StartFunds \in [S -> Nat]
      /\ \A tx \in Movements : <<tx.id, 0>> \notin S
      /\ \A env \in Envelopes : <<env.id, 0>> \notin S /\ <<env.id, 1>> \notin S
  BY <1>2, TimedReleaseAssumption
<1>4. IsEscrows({}) /\ Names(S, S, {}) /\ Money(StartFunds)
  BY <1>2, <1>3, FS_EmptySet DEF IsEscrows, Names, Money
<1>5. BondsIn({}) = 0
  <2>1. PICK none, f : none = {} /\ f = [e \in none |-> e.env.bond] /\ f \in [none -> Int]
    <3>1. \A none : none = {} => [e \in none |-> e.env.bond] \in [none -> Int]
      OBVIOUS
    <3> QED
      BY <3>1, Zenon
  <2>2. PICK F : Adds(F, f, none)
    BY <2>1, FS_EmptySet, AdditiveExists
  <2>3. SumFunction(f) = F[{}] /\ F[{}] = 0
    BY <2>1, <2>2, FS_EmptySet, SumAdds DEF Adds
  <2> QED
    BY <2>1, <2>3 DEF BondsIn
<1>6. SumFunction(StartFunds) \in Int
  BY <1>3, SumNatural
<1>7. SumFunction(StartFunds) + 0 + 0 + BondsIn({}) = Total
  BY <1>5, <1>6 DEF Total
<1>8. Books(funds, shielded, feesTaken, S, escrows, Total)
  BY <1>1, <1>2, <1>4, <1>7 DEF Books
<1>9. EscrowsEnd
  <2>1. SumFunction(funds) + shielded + feesTaken + SumFunction([e \in escrows |-> e.env.bond]) = SumFunction(StartFunds)
    BY <1>8 DEF Books, BondsIn, Total
  <2> QED
    BY <1>1, <2>1 DEF EscrowsEnd
<1>10. NoForfeitByRace
  BY <1>1 DEF NoForfeitByRace
<1> QED
  BY <1>1, <1>8, <1>9, <1>10 DEF TimedInvariant

\* The books of the blocks are kept: no unit is made or lost, and every escrow ends once, in
\* time and for cause (execute_frontier_slice with apply_timed_escrows).
THEOREM TimedReleaseInvariant == ExSpec => []TimedInvariant
<1>1. ExInit => TimedInvariant
  BY FirstBooks
<1>2. TimedInvariant /\ [ExNext]_exVars => TimedInvariant'
  <2>1. SUFFICES ASSUME TimedInvariant, [ExNext]_exVars
                 PROVE  TimedInvariant'
    OBVIOUS
  <2>2. CASE ExNext
    <3>1. PICK openings \in SUBSET PossibleOpenings, records \in SeqOf(NewRecords, MaxSliceRecords) : ExecuteBlock(openings, records)
      BY <2>2 DEF ExNext
    <3>2. records \in Seq(NewRecords)
      <4>1. PICK m \in 0..MaxSliceRecords : records \in [1..m -> NewRecords]
        BY <3>1 DEF SeqOf
      <4>2. m \in Nat
        BY <4>1, TimedReleaseAssumption
      <4> QED
        BY <4>1, <4>2
    <3> QED
      BY <2>1, <3>1, <3>2, BlockKeeps
  <2>3. CASE UNCHANGED exVars
    BY <2>1, <2>3 DEF exVars, TimedInvariant, Books, IsEscrows, Names, Money, BondsIn, Total, EscrowsEnd, NoForfeitByRace,
                      timed_is_long_lock, EpochOfHeight
  <2> QED
    BY <2>1, <2>2, <2>3
<1> QED
  BY <1>1, <1>2, PTL DEF ExSpec

\* Every envelope in escrow ends once and in time, with its keys at hand until then, and no unit
\* is made or lost, whatever blocks the proposers build.
THEOREM EscrowsAllEnd == ExSpec => []EscrowsEnd
<1>1. TimedInvariant => EscrowsEnd
  BY DEF TimedInvariant
<1> QED
  BY <1>1, TimedReleaseInvariant, PTL

\* No proposer can make a sender forfeit a bond by racing the release of its body.
THEOREM NobodyIsRaced == ExSpec => []NoForfeitByRace
<1>1. TimedInvariant => NoForfeitByRace
  BY DEF TimedInvariant
<1> QED
  BY <1>1, TimedReleaseInvariant, PTL
================================================================================
