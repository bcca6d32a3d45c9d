------------------------- MODULE AvailabilityOperators -------------------------
(***************************************************************************)
(* What a finalized block does to the availability state                  *)
(* (consensus/availability_retention.cpp, called from                     *)
(* apply_frontier_record_impl).  Certified lane records become retained   *)
(* prefixes; at the end of an epoch every registered operator passes one  *)
(* audit iteration per block of the epoch, and moves between WARMUP,      *)
(* ACTIVE and PROBATION.  Live derivation credits every audit as answered *)
(* in time (live_epoch_audit_outcomes), so there is no other outcome, the *)
(* score is never negative and nobody is ever ejected.                    *)
(***************************************************************************)
EXTENDS Naturals, FiniteSets

CONSTANTS
    Operators,        \* operators that may register
    GenesisOperators, \* those of the genesis validators
    EpochBlocks,      \* committee_epoch_blocks
    Replication,      \* replication_factor
    Audits,           \* audits_per_operator_per_epoch
    MinAudits,        \* min_warmup_audits
    WarmupEpochs,     \* warmup_epochs
    EligibleScore,    \* eligibility_min_score
    AlphaPercent,     \* score_alpha_bps / 100
    Window,           \* retention_window_min_epochs
    FewOperators,     \* 3: up to so many operators recover in one epoch
    MaxHeight         \* bound: heights of the instance

ASSUME AvailabilityAssumption ==
    /\ IsFiniteSet(Operators) /\ GenesisOperators \subseteq Operators
    /\ EpochBlocks \in Nat \ {0} /\ Replication \in Nat \ {0}
    /\ Audits \in Nat \ {0} /\ MinAudits \in Nat \ {0} /\ WarmupEpochs \in Nat
    /\ EligibleScore \in Nat \ {0} /\ AlphaPercent \in 0..100
    /\ Window \in Nat \ {0} /\ FewOperators \in Nat /\ MaxHeight \in Nat

VARIABLES
    height,           \* finalized_height
    bonds,            \* registered operator -> its bond reaches min_bond
    operators,        \* availability_state.operators
    retained_prefixes,\* heights whose records are retained (one lane)
    current_epoch,    \* availability_state.current_epoch, a height
    refused           \* verdict on the last block that was tried

avVars == <<height, bonds, operators, retained_prefixes, current_epoch, refused>>

Registered == DOMAIN bonds

OperatorState ==
    [ status: {"WARMUP", "ACTIVE", "PROBATION"}, bonded: BOOLEAN, score: Nat, successful_audits: Nat,
      warmup_epochs: Nat, retained: Nat, was_ever_active: BOOLEAN, recovery: Nat ]

\* The entry of an operator seen for the first time.
NewOperator ==
    [ status |-> "WARMUP", bonded |-> FALSE, score |-> 0, successful_audits |-> 0, warmup_epochs |-> 0,
      retained |-> 0, was_ever_active |-> FALSE, recovery |-> 0 ]

-------------------------------------------------------------------------------
\* Recovery is quicker while there are few operators.
probation_recovery_threshold_epochs(n) == IF n <= FewOperators THEN 1 ELSE 2

\* Every audit succeeded, so the success rate needs no condition of its own.
warmup_complete(s) ==
    s.successful_audits >= MinAudits /\ s.warmup_epochs >= WarmupEpochs /\ s.bonded

\* An operator on probation that has answered everything for long enough.
recovered(s, threshold) ==
    s.status = "PROBATION" /\ s.was_ever_active /\ s.bonded /\ s.recovery >= threshold

Activate(s) == [s EXCEPT !.status = "ACTIVE", !.was_ever_active = TRUE, !.recovery = 0]

\* The first condition that holds decides.
update_operator_status(s, threshold) ==
    IF s.status = "WARMUP" /\ warmup_complete(s) THEN Activate(s)
    ELSE IF recovered(s, threshold)
      THEN [Activate(s) EXCEPT !.score = IF s.score >= EligibleScore THEN s.score ELSE EligibleScore]
    ELSE IF s.status = "PROBATION" /\ s.score >= EligibleScore /\ s.bonded THEN Activate(s)
    ELSE IF s.status = "ACTIVE" /\ (s.score < EligibleScore \/ ~s.bonded)
      THEN [s EXCEPT !.status = "PROBATION", !.recovery = 0]
    ELSE s

\* The status would not move if it were evaluated once more.  Without a recovery
\* threshold (numeric_limits max) the recovery rule never applies.
operator_state_status_is_idempotent(s) ==
    /\ ~(s.status = "WARMUP" /\ warmup_complete(s))
    /\ ~(s.status = "PROBATION" /\ s.score >= EligibleScore /\ s.bonded)
    /\ ~(s.status = "ACTIVE" /\ (s.score < EligibleScore \/ ~s.bonded))

\* One audit for an operator on probation that holds nothing, so that it can recover.
live_epoch_audit_outcomes(count, on_probation) ==
    IF count > 0 THEN Audits ELSE IF on_probation THEN 1 ELSE 0

apply_epoch_audit_outcomes(s, count, threshold) ==
    LET recovering == s.status = "PROBATION" /\ s.was_ever_active
        outcomes == live_epoch_audit_outcomes(count, recovering)
        audited ==
          [s EXCEPT !.score = (@ * AlphaPercent) \div 100 + outcomes,
                    !.successful_audits = @ + outcomes,
                    !.warmup_epochs = @ + 1,
                    !.retained = count,
                    !.recovery = IF recovering /\ s.bonded
                                 THEN IF outcomes > 0 THEN @ + 1 ELSE 0
                                 ELSE IF s.status # "ACTIVE" THEN 0 ELSE @]
    IN  update_operator_status(audited, threshold)

Live(h, epoch) == epoch < h + Window

expire_retained_prefixes(prefixes, epoch) == {h \in prefixes : Live(h, epoch)}

\* Slip: the bond recorded when the operator was first seen is kept.
with_current_bond_slip(ops, registry) ==
    [o \in DOMAIN registry |->
       IF o \in DOMAIN ops THEN ops[o] ELSE [NewOperator EXCEPT !.bonded = registry[o]]]

\* Every registered operator has an entry, with the bond the registry has now.
with_current_bond(ops, registry) ==
    [o \in DOMAIN registry |->
       [(IF o \in DOMAIN ops THEN ops[o] ELSE NewOperator) EXCEPT !.bonded = registry[o]]]

\* Who holds which prefix: the operators that rank first by a hash of seed, prefix
\* and key, any set of the right size, drawn anew in every iteration.
Assignments(prefixes, registered) ==
    LET n == IF Replication < Cardinality(registered) THEN Replication ELSE Cardinality(registered)
    IN  [prefixes -> {S \in SUBSET registered : Cardinality(S) = n}]

assigned_prefix_count(holders, i, o) ==
    Cardinality({x \in DOMAIN holders : x[1] = i /\ o \in holders[x]})

\* refresh_live_availability_state with advance_epoch, in iteration i.
refresh_live_availability_state(ops, registry, holders, i) ==
    LET entries == with_current_bond(ops, registry)
        threshold == probation_recovery_threshold_epochs(Cardinality(DOMAIN registry))
    IN  [o \in DOMAIN registry |->
           apply_epoch_audit_outcomes(entries[o], assigned_prefix_count(holders, i, o), threshold)]

\* The epoch counter is a height: the loop takes one iteration per block of the epoch.
\* holders[<<i, h>>] are the holders of prefix h in iteration i, if it has not expired by then.
advance_live_availability_epoch(ops, registry, holders, iterations) ==
    LET step[i \in 0..iterations] ==
          IF i = 0 THEN ops ELSE refresh_live_availability_state(step[i - 1], registry, holders, i)
    IN  step[iterations]

committee_epoch_start(h) == ((h - 1) \div EpochBlocks) * EpochBlocks + 1

AtEpochStart == committee_epoch_start(height + 1) = height + 1

validate_availability_state(ops) == \A o \in DOMAIN ops : operator_state_status_is_idempotent(ops[o])

-------------------------------------------------------------------------------
\* Genesis operators are registered with a bond and start in WARMUP.
AvInit ==
    /\ height = 0
    /\ bonds = [o \in GenesisOperators |-> TRUE]
    /\ operators = [o \in GenesisOperators |-> [NewOperator EXCEPT !.bonded = TRUE]]
    /\ retained_prefixes = {}
    /\ current_epoch = 1
    /\ refused = FALSE

\* A block with certified lane records adds a prefix (one per lane, one lane here).
update_availability_from_frontier(records) ==
    IF records THEN retained_prefixes \cup {height + 1} ELSE retained_prefixes

\* Registrations and bonds change with the transactions of the block: at most one here.
BondsAfterBlock ==
    {bonds} \cup {[o \in Registered \cup {p} |-> IF o = p THEN b ELSE bonds[o]] : p \in Operators, b \in BOOLEAN}

\* apply_frontier_record_impl: the prefixes of the block, the end of an epoch, the
\* validation.  A block that fails it is refused and leaves no trace but the verdict.
ApplyBlock(records, registry) ==
    LET next_epoch == committee_epoch_start(height + 2)
        iterations == next_epoch - current_epoch
        prefixes == update_availability_from_frontier(records)
    IN  /\ height < MaxHeight
        /\ \E holders \in Assignments({x \in (1..iterations) \X prefixes : Live(x[2], current_epoch + x[1])},
                                       DOMAIN registry) :
             LET advanced == advance_live_availability_epoch(operators, registry, holders, iterations)
             IN  IF validate_availability_state(advanced)
                 THEN /\ height' = height + 1
                      /\ bonds' = registry
                      /\ operators' = advanced
                      /\ retained_prefixes' = IF iterations = 0 THEN prefixes
                                              ELSE expire_retained_prefixes(prefixes, next_epoch)
                      /\ current_epoch' = next_epoch
                      /\ refused' = FALSE
                 ELSE refused' = TRUE /\ UNCHANGED <<height, bonds, operators, retained_prefixes, current_epoch>>

AvNext == \E records \in BOOLEAN, registry \in BondsAfterBlock : ApplyBlock(records, registry)

AvSpec == AvInit /\ [][AvNext]_avVars

-------------------------------------------------------------------------------
\* floor_sqrt_u64, exact for the counts an instance reaches.
floor_sqrt(n) == CHOOSE r \in 0..n : r * r <= n /\ (r + 1) * (r + 1) > n

\* Score with the bonus for history, three times the root of the prefixes held.
operator_eligibility_score(s) == s.score + 3 * floor_sqrt(s.retained)

operator_is_eligible(s) ==
    s.status = "ACTIVE" /\ s.bonded /\ operator_eligibility_score(s) >= EligibleScore

\* The availability state is a function over operators with entries of the right shape.
AvTypeOK ==
    /\ height \in 0..MaxHeight /\ current_epoch \in Nat /\ refused \in BOOLEAN
    /\ bonds \in [Registered -> BOOLEAN] /\ Registered \subseteq Operators
    /\ DOMAIN operators \subseteq Registered
    /\ operators \in [DOMAIN operators -> OperatorState]
    /\ retained_prefixes \subseteq 1..MaxHeight

\* Nobody counts without having served the warm-up: an operator that left WARMUP was audited
\* often and long enough, and only a former member is ever on probation.  And when the
\* committee of an epoch is about to be drawn, an operator that counts as eligible has the
\* bond in the registry now and a score that stands without the bonus (bonds may have
\* changed in every block since the last refresh).
EligibleIsEarned ==
    \A o \in DOMAIN operators :
      /\ operators[o].status # "WARMUP" =>
           /\ operators[o].was_ever_active
           /\ operators[o].successful_audits >= MinAudits
           /\ operators[o].warmup_epochs >= WarmupEpochs
      /\ AtEpochStart /\ height > 0 /\ operator_is_eligible(operators[o]) =>
           bonds[o] /\ operators[o].score >= EligibleScore

\* docs/spec/AVAILABILITY_STATE_COMPLETENESS.md: each operator status is idempotent under
\* the live rules, so an honest block is not refused for its availability state.
StatusIsIdempotent == ~refused
================================================================================
