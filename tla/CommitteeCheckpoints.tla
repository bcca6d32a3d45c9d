-------------------------- MODULE CommitteeCheckpoints --------------------------
(***************************************************************************)
(* The committee checkpoint of each epoch, as the last block of the epoch  *)
(* before derives it (derive_next_epoch_checkpoint_from_state in           *)
(* consensus/canonical_derivation.cpp).  The registry and the availability *)
(* of the operators are whatever the blocks of the epoch have left; they   *)
(* are inputs of the step.  Which candidates win seats depends on hashes,  *)
(* weights and tickets: any set of the right size.                         *)
(***************************************************************************)
EXTENDS Naturals, FiniteSets, Sequences

CONSTANTS
    Validators,       \* validator keys, numbers because the least key matters
    OperatorOf,       \* canonical_operator_id of each validator
    Genesis,          \* genesis validators, each its own operator
    Statuses,         \* the registry statuses of the instance
    SmallTarget, LargeTarget,          \* 16 and 24
    ExpandDepth, ContractDepth,        \* 30 and 22
    ExpandEpochs, ContractEpochs,      \* 4 and 6
    EligibleMargin,   \* 3: operators needed beyond the target
    TinyMinimum, LowMinimum,           \* 3 and 7: up to them recovery needs 0 and 1 more
    MaxCommittee,     \* max_committee
    EmergencyMax      \* kEmergencyFallbackMaxMembers

ASSUME CheckpointAssumption ==
    /\ IsFiniteSet(Validators) /\ Validators \subseteq Nat
    /\ Genesis \subseteq Validators /\ Genesis # {}
    /\ \A g \in Genesis : OperatorOf[g] = g
    /\ Statuses \subseteq {"ACTIVE", "SUSPENDED", "PENDING", "EXITING", "BANNED", "ONBOARDING"}
    /\ SmallTarget \in Nat \ {0} /\ LargeTarget \in Nat /\ LargeTarget > SmallTarget
    /\ ContractDepth \in Nat /\ ExpandDepth \in Nat /\ ContractDepth < ExpandDepth
    /\ ExpandEpochs \in Nat \ {0} /\ ContractEpochs \in Nat \ {0}
    /\ EligibleMargin \in Nat /\ TinyMinimum \in Nat /\ LowMinimum \in Nat
    /\ MaxCommittee \in Nat \ {0} /\ EmergencyMax \in Nat \ {0}

VARIABLES
    checkpoint,       \* finalized_committee_checkpoints of the current epoch
    prior_members,    \* the committee of the epoch before it
    depths,           \* history: how deep the latest epochs were
    halted            \* no committee is derived although somebody has a bond

ckVars == <<checkpoint, prior_members, depths, halted>>

History == IF ExpandEpochs > ContractEpochs THEN ExpandEpochs ELSE ContractEpochs

Least(S) == CHOOSE v \in S : \A w \in S : v <= w
Fewer(a, b) == IF a < b THEN a ELSE b

-------------------------------------------------------------------------------
\* Whoever is not banned or onboarding has a bond here (has_bond and an amount of at
\* least the minimum, which every registration pays).
Active(status) == {v \in Validators : status[v] = "ACTIVE"}
OperatorsOf(S) == {OperatorOf[v] : v \in S}

\* A single genesis validator runs the chain.
bootstrap_availability_grace_active(status) ==
    \E g \in Genesis : Active(status) = {g}

\* enforce: the mode is NORMAL, so an operator must also be available.
committee_eligibility_at_checkpoint(v, status, available, enforce) ==
    status[v] = "ACTIVE" /\ (enforce => v \in Genesis \/ OperatorOf[v] \in available)

qualified_depth_at_checkpoint(status, available) ==
    Cardinality(OperatorsOf({v \in Validators : committee_eligibility_at_checkpoint(v, status, available, TRUE)}))

count_eligible_operators_at_checkpoint(status, available) ==
    Cardinality({o \in OperatorsOf(Active(status)) :
                   o \in available \/ \E g \in Genesis \cap Active(status) : OperatorOf[g] = o})

derive_adaptive_min_eligible(target) == target + EligibleMargin

fallback_recovery_threshold(n) ==
    IF n <= TinyMinimum THEN n ELSE IF n <= LowMinimum THEN n + 1 ELSE n + 2

\* Slip: an epoch that does not qualify leaves the streaks as they are.
derive_adaptive_committee_target_slip(prior, depth) ==
    LET target == IF prior.target \in {SmallTarget, LargeTarget} THEN prior.target ELSE SmallTarget
        expand == IF target = SmallTarget /\ depth >= ExpandDepth THEN prior.expand + 1 ELSE prior.expand
        contract == IF target = LargeTarget /\ depth <= ContractDepth THEN prior.contract + 1 ELSE prior.contract
    IN  [ target |-> IF target = SmallTarget /\ expand >= ExpandEpochs THEN LargeTarget
                     ELSE IF target = LargeTarget /\ contract >= ContractEpochs THEN SmallTarget ELSE target,
          expand |-> IF expand >= ExpandEpochs THEN 0 ELSE expand,
          contract |-> IF contract >= ContractEpochs THEN 0 ELSE contract ]

\* A target that is neither (one, in the bootstrap) counts as the small one.
derive_adaptive_committee_target(prior, depth) ==
    LET target == IF prior.target \in {SmallTarget, LargeTarget} THEN prior.target ELSE SmallTarget
        expand == IF target = SmallTarget /\ depth >= ExpandDepth
                  THEN Fewer(ExpandEpochs, prior.expand + 1) ELSE 0
        contract == IF target = LargeTarget /\ depth <= ContractDepth
                    THEN Fewer(ContractEpochs, prior.contract + 1) ELSE 0
    IN  [ target |-> IF expand >= ExpandEpochs THEN LargeTarget
                     ELSE IF contract >= ContractEpochs THEN SmallTarget ELSE target,
          expand |-> expand, contract |-> contract ]

\* derive_adaptive_checkpoint_parameters and the bootstrap override.  The minimum bond
\* is the same for every target and depth (its floor is its ceiling).
adaptive_parameters(prior, status, depth) ==
    IF bootstrap_availability_grace_active(status)
    THEN [target |-> 1, expand |-> 0, contract |-> 0, min_eligible |-> 1]
    ELSE LET a == derive_adaptive_committee_target(prior, depth)
         IN  [target |-> a.target, expand |-> a.expand, contract |-> a.contract,
              min_eligible |-> derive_adaptive_min_eligible(a.target)]

\* NORMAL needs the minimum, and more than that right after a fallback.
decide_availability_committee_mode(prior, eligible, minimum) ==
    IF eligible < minimum THEN [mode |-> "FALLBACK", reason |-> "INSUFFICIENT_ELIGIBLE_OPERATORS"]
    ELSE IF prior.mode = "FALLBACK" /\ eligible < fallback_recovery_threshold(minimum)
      THEN [mode |-> "FALLBACK", reason |-> "HYSTERESIS_RECOVERY_PENDING"]
    ELSE [mode |-> "NORMAL", reason |-> "NONE"]

\* One candidate per operator: its eligible validator with the least key.
finalized_committee_candidates(status, available, enforce) ==
    LET eligible == {v \in Validators : committee_eligibility_at_checkpoint(v, status, available, enforce)}
    IN  {Least({v \in eligible : OperatorOf[v] = o}) : o \in OperatorsOf(eligible)}

select_finalized_committee(candidates, size) ==
    {S \in SUBSET candidates : Cardinality(S) = Fewer(size, Cardinality(candidates))}

\* Slip: a chain without active validators has nowhere to escape to.
empty_active_set_escape_slip(status) == {}

\* The least key with a bond, whatever its status.
empty_active_set_escape(status) ==
    LET bonded == {v \in Validators : status[v] \notin {"BANNED", "ONBOARDING"}}
    IN  IF bonded = {} THEN {} ELSE {Least(bonded)}

\* Former members, of the last committee first.
emergency_fallback_committee_members(status) ==
    LET usable(S) == {v \in S : status[v] \notin {"BANNED", "ONBOARDING", "EXITING"}}
        recent == usable(checkpoint.members)
        older == usable(prior_members) \ recent
    IN  IF Cardinality(recent) >= EmergencyMax
        THEN {S \in SUBSET recent : Cardinality(S) = EmergencyMax}
        ELSE {recent \cup S : S \in select_finalized_committee(older, EmergencyMax - Cardinality(recent))}

\* The drawn committee, or the escape, or former members.
committees(status, available, mode, size) ==
    LET candidates == finalized_committee_candidates(status, available, mode = "NORMAL")
        escape == empty_active_set_escape(status)
    IN  IF candidates # {} THEN select_finalized_committee(candidates, size)
        ELSE IF Active(status) = {} /\ escape # {} THEN {escape}
        ELSE emergency_fallback_committee_members(status)

\* Only the drawn committee keeps the mode that was decided.
mode_of(status, available, decision) ==
    LET candidates == finalized_committee_candidates(status, available, decision.mode = "NORMAL")
    IN  IF candidates # {} THEN decision
        ELSE [mode |-> "FALLBACK",
              reason |-> IF Active(status) = {} /\ empty_active_set_escape(status) # {}
                         THEN "INSUFFICIENT_ELIGIBLE_OPERATORS" ELSE "EMERGENCY_PRIOR_COMMITTEE"]

derive_next_epoch_checkpoint(prior, status, available) ==
    LET depth == qualified_depth_at_checkpoint(status, available)
        a == adaptive_parameters(prior, status, depth)
        eligible == count_eligible_operators_at_checkpoint(status, available)
        decision == decide_availability_committee_mode(prior, eligible, a.min_eligible)
        kind == mode_of(status, available, decision)
    IN  { [ members |-> S, mode |-> kind.mode, reason |-> kind.reason, target |-> a.target,
            expand |-> a.expand, contract |-> a.contract ] :
          S \in committees(status, available, decision.mode, Fewer(MaxCommittee, a.target)) }

-------------------------------------------------------------------------------
GenesisStatus == [v \in Validators |-> IF v \in Genesis THEN "ACTIVE" ELSE "ONBOARDING"]

\* No checkpoint before the first one: the defaults of AdaptiveCheckpointParameters.
NoCheckpoint ==
    [members |-> {}, mode |-> "NORMAL", reason |-> "NONE", target |-> 1, expand |-> 0, contract |-> 0]

DepthOf(status, available) ==
    IF bootstrap_availability_grace_active(status) THEN "grace"
    ELSE IF qualified_depth_at_checkpoint(status, available) >= ExpandDepth THEN "deep"
    ELSE IF qualified_depth_at_checkpoint(status, available) <= ContractDepth THEN "shallow" ELSE "between"

CkInit ==
    /\ checkpoint \in derive_next_epoch_checkpoint(NoCheckpoint, GenesisStatus, {})
    /\ prior_members = {}
    /\ depths = <<DepthOf(GenesisStatus, {})>>
    /\ halted = FALSE

\* The block before an epoch starts: derive, validate, keep; or be refused for ever,
\* because the next attempt derives from the same registry.
NextEpoch(status, available) ==
    LET derived == derive_next_epoch_checkpoint(checkpoint, status, available)
    IN  /\ ~halted
        /\ \E next \in derived :
             IF next.members = {}
             THEN /\ halted' = (\E v \in Validators : status[v] \notin {"BANNED", "ONBOARDING"})
                  /\ UNCHANGED <<checkpoint, prior_members, depths>>
             ELSE /\ checkpoint' = next
                  /\ prior_members' = checkpoint.members
                  /\ depths' = LET longer == Append(depths, DepthOf(status, available))
                               IN  IF Len(longer) > History + 1 THEN Tail(longer) ELSE longer
                  /\ UNCHANGED halted

CkNext ==
    \E status \in [Validators -> Statuses], available \in SUBSET OperatorsOf(Validators \ Genesis) :
      NextEpoch(status, available)

CkSpec == CkInit /\ [][CkNext]_ckVars

-------------------------------------------------------------------------------
Permutation(S) == {p \in [1..Cardinality(S) -> S] : \A i, j \in 1..Cardinality(S) : i # j => p[i] # p[j]}

\* From round n on the members take turns by ticket rank.
ticket_pow_fallback_member(ranked, round, n) == ranked[1 + ((round - n) % n)]

\* schedule is the proposer schedule of the height, ranked the members by ticket.
canonical_leader_for_height_round(schedule, ranked, round, n) ==
    IF round < n THEN schedule[1 + round] ELSE ticket_pow_fallback_member(ranked, round, n)

\* The committee grows or shrinks only after enough consecutive epochs that call for it,
\* through fallbacks and escapes as well; the bootstrap of a single validator starts anew.
TargetNeedsStreak ==
    [][ LET last(n) == {depths'[i] : i \in (Len(depths') - n + 1)..Len(depths')}
        IN  /\ (checkpoint'.target = LargeTarget /\ checkpoint.target # LargeTarget
                  => Len(depths') >= ExpandEpochs /\ last(ExpandEpochs) = {"deep"})
            /\ (checkpoint'.target = SmallTarget /\ checkpoint.target = LargeTarget
                  /\ depths'[Len(depths')] # "grace"
                  => Len(depths') >= ContractEpochs /\ last(ContractEpochs) = {"shallow"}) ]_ckVars

\* The chain does not stop for want of a committee while anybody who is not banned has a
\* bond, even if nobody is active; a committee drawn in NORMAL mode is as large as the target
\* says, with one member per operator: whoever was counted can take a seat; and nobody who has
\* a seat is passed over: whatever the schedule of a height and the tickets of the epoch are,
\* every member leads once in each n rounds, early or late.
CommitteeFormed ==
    LET n == Cardinality(checkpoint.members)
    IN  /\ ~halted
        /\ checkpoint.mode = "NORMAL" =>
             /\ n = Fewer(MaxCommittee, checkpoint.target)
             /\ Cardinality(OperatorsOf(checkpoint.members)) = n
        /\ \A schedule, ranked \in Permutation(checkpoint.members) : \A turn \in 0..3 :
             {canonical_leader_for_height_round(schedule, ranked, turn * n + i, n) : i \in 0..(n - 1)}
               = checkpoint.members
================================================================================
