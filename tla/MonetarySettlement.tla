--------------------------- MODULE MonetarySettlement ---------------------------
(***************************************************************************)
(* Units of the ledger, block by block: emission (consensus/monetary.cpp), *)
(* the rewards and fees an epoch collects, its settlement in the first     *)
(* block of the next epoch, the protocol reserve and the turnstile of the  *)
(* confidential pool (consensus/confidential_supply.cpp).  The order is    *)
(* that of apply_frontier_record_impl: settle, accrue, recycle what was    *)
(* burned.  Bonds are equal, so a seat has weight one.                     *)
(***************************************************************************)
EXTENDS Integers, Sequences, FiniteSets, Functions

CONSTANTS
    Members,          \* committee members, ordered keys
    BlocksPerEpoch,   \* committee_epoch_blocks
    BlocksPerYear,    \* BLOCKS_PER_YEAR_365
    YearBudget,       \* emission_year_budgets, one entry per emission year
    AccrualPercent,   \* RESERVE_ACCRUAL_BPS
    FeeReservePercent,\* FEE_RESERVE_BPS
    OnboardingPercent,\* ONBOARDING_REWARD_BPS
    PayoutPercent,    \* RESERVE_PAYOUT_BPS_PER_YEAR per epoch
    ThresholdPercent, \* participation_threshold_bps
    GenesisUnits,     \* bound: units before the first block
    MaxTransfer,      \* bound: units one block pays as fees, burns or moves to the pool
    LastHeight        \* bound: heights of the instance

ASSUME MonetaryAssumption ==
    /\ IsFiniteSet(Members) /\ Members \subseteq Nat /\ Members # {}
    /\ BlocksPerEpoch \in Nat \ {0} /\ BlocksPerYear \in Nat \ {0}
    /\ YearBudget \in Seq(Nat)
    /\ {AccrualPercent, FeeReservePercent, OnboardingPercent, PayoutPercent, ThresholdPercent} \subseteq 0..100
    /\ GenesisUnits \in Nat /\ MaxTransfer \in Nat /\ LastHeight \in Nat

VARIABLES
    ledger_height,    \* finalized_height
    transparent,      \* units in spendable transparent outputs
    confidential_pool_value,
    protocol_reserve, \* protocol_reserve_balance_units
    epoch_reward,     \* epoch_reward_states of the open epoch
    emitted           \* history: sum of the rewards of all blocks

moVars == <<ledger_height, transparent, confidential_pool_value, protocol_reserve, epoch_reward, emitted>>

Lesser(a, b) == IF a < b THEN a ELSE b
Greater(a, b) == IF a > b THEN a ELSE b
Percent(units, p) == (units * p) \div 100

NoRewards ==
    [ total |-> 0, accrual |-> 0, fees |-> 0, recycled |-> 0,
      score |-> [m \in Members |-> 0], expected |-> [m \in Members |-> 0], observed |-> [m \in Members |-> 0] ]

-------------------------------------------------------------------------------
EmissionBlocks == Len(YearBudget) * BlocksPerYear

\* A year's budget in equal parts; the first blocks of the year take the remainder.
reward_units(h) ==
    IF h >= EmissionBlocks THEN 0
    ELSE LET budget == YearBudget[1 + (h \div BlocksPerYear)]
         IN  (budget \div BlocksPerYear) + (IF h % BlocksPerYear < budget % BlocksPerYear THEN 1 ELSE 0)

\* The part of heights 1..h in one year, without adding them up one by one.
emitted_in_year(h, year) ==
    LET lo == Greater(1, year * BlocksPerYear)
        hi == Lesser(Lesser(h, EmissionBlocks - 1), (year + 1) * BlocksPerYear - 1)
        budget == YearBudget[year + 1]
        remainder == budget % BlocksPerYear
        from == lo - year * BlocksPerYear
        to == hi - year * BlocksPerYear
        extra == IF from < remainder THEN Lesser(to, remainder - 1) - from + 1 ELSE 0
    IN  IF lo > hi THEN 0 ELSE (budget \div BlocksPerYear) * (to - from + 1) + extra

emitted_supply_units(h) ==
    IF h = 0 THEN 0 ELSE SumFunction([y \in 1..Len(YearBudget) |-> emitted_in_year(h, y - 1)])

reserve_payout_units(h, balance) == IF h < EmissionBlocks THEN 0 ELSE Percent(balance, PayoutPercent)

fee_reserve_share_units(fees) == Percent(fees, FeeReservePercent)

onboarding_reward_units(rewards) == Percent(rewards, OnboardingPercent)

\* In proportion to the scores; the last of the members that score gets the remainder,
\* the leader everything if nobody scores.
distribute_pool(units, score, leader) ==
    LET total == SumFunction(score)
        share == [m \in Members |-> IF total = 0 THEN 0 ELSE (units * score[m]) \div total]
        last == CHOOSE m \in Members : score[m] > 0 /\ \A n \in Members : score[n] > 0 => n <= m
        rest == units - SumFunction(share)
    IN  IF total = 0 THEN [m \in Members |-> IF m = leader THEN units ELSE 0]
        ELSE [share EXCEPT ![last] = @ + rest]

apply_participation_penalty(score, percent) ==
    IF ThresholdPercent = 0 \/ percent >= ThresholdPercent THEN score ELSE (score * percent) \div ThresholdPercent

\* What a member has earned after the penalty for the blocks it missed.
settlement_scores(r) ==
    [m \in Members |->
       LET percent == IF r.expected[m] = 0 THEN 100
                      ELSE (Lesser(r.observed[m], r.expected[m]) * 100) \div r.expected[m]
       IN  apply_participation_penalty(r.score[m], percent)]

\* The validators' pool and the onboarding pool of the new committee (a seat each).
compute_epoch_settlement_payout(r, subsidy, leader, committee) ==
    LET onboarding == IF committee = {} THEN 0 ELSE onboarding_reward_units(r.total)
        fees == r.fees - fee_reserve_share_units(r.fees)
        validators == distribute_pool(r.total - onboarding + fees + subsidy, settlement_scores(r), leader)
        joiners == distribute_pool(onboarding, [m \in Members |-> IF m \in committee THEN 1 ELSE 0], leader)
    IN  SumFunction([m \in Members |-> validators[m] + joiners[m]])

\* Credit for the block: rewards split between validators and reserve by the total so
\* far, so that rounding does not add up; participation is that of the parent.
accrue_frontier_epoch_reward(r, h, fees, signers, leader) ==
    LET gross == reward_units(h)
        accrual == Percent(r.total + r.accrual + gross, AccrualPercent)
        seat(m) == 1 + (IF m = leader THEN 1 ELSE 0)
    IN  [r EXCEPT !.total = @ + gross - (accrual - r.accrual),
                  !.accrual = accrual,
                  !.fees = @ + fees,
                  !.score = [m \in Members |-> @[m] + seat(m)],
                  !.expected = [m \in Members |-> @[m] + 1],
                  !.observed = [m \in Members |-> @[m] + (IF m \in signers THEN 1 ELSE 0)]]

\* The first block of an epoch after the first settles the one before.
settles(h) == h > BlocksPerEpoch /\ (h - 1) % BlocksPerEpoch = 0

\* Slip: the subsidy is paid but not taken from the reserve.
reserve_after_settlement_slip(r, subsidy) ==
    protocol_reserve + r.accrual + fee_reserve_share_units(r.fees) + r.recycled

\* mark_epoch_reward_settled_for_height.
reserve_after_settlement(r, subsidy) ==
    LET credited == protocol_reserve + r.accrual + fee_reserve_share_units(r.fees) + r.recycled
    IN  IF credited >= subsidy THEN credited - subsidy ELSE 0

-------------------------------------------------------------------------------
MoInit ==
    /\ ledger_height = 0
    /\ transparent = GenesisUnits
    /\ confidential_pool_value = 0
    /\ protocol_reserve = 0
    /\ epoch_reward = NoRewards
    /\ emitted = 0

\* What the transactions of a block may do: pay fees, burn a slashed bond, hide units or
\* bring them back (never more than are in the pool).
Transactions ==
    { t \in [fees: 0..MaxTransfer, burned: 0..MaxTransfer, hidden: 0..MaxTransfer, revealed: 0..MaxTransfer] :
        /\ t.fees + t.burned + t.hidden <= transparent
        /\ t.revealed <= confidential_pool_value + t.hidden
        /\ t.hidden = 0 \/ t.revealed = 0 }

\* The open epoch of height h: a new one at its first block.
OpenEpoch(h) == IF (h - 1) % BlocksPerEpoch = 0 THEN NoRewards ELSE epoch_reward

ApplyLedgerBlock(t, signers, leader, committee) ==
    LET h == ledger_height + 1
        due == IF settles(h) THEN epoch_reward ELSE NoRewards
        subsidy == IF settles(h) THEN reserve_payout_units(h, protocol_reserve + due.accrual) ELSE 0
        paid == compute_epoch_settlement_payout(due, subsidy, leader, committee)
        accrued == accrue_frontier_epoch_reward(OpenEpoch(h), h, t.fees, signers, leader)
    IN  /\ ledger_height < LastHeight
        /\ ledger_height' = h
        /\ emitted' = emitted + reward_units(h)
        /\ protocol_reserve' = IF settles(h) THEN reserve_after_settlement(due, subsidy) ELSE protocol_reserve
        /\ epoch_reward' = [accrued EXCEPT !.recycled = @ + t.burned]
        /\ confidential_pool_value' = confidential_pool_value + t.hidden - t.revealed
        /\ transparent' = transparent + t.revealed - t.hidden - t.fees - t.burned
                            + (IF settles(h) THEN paid ELSE 0)

MoNext ==
    \E t \in Transactions, signers \in SUBSET Members \ {{}}, leader \in Members, committee \in {{}, Members} :
      ApplyLedgerBlock(t, signers, leader, committee)

MoSpec == MoInit /\ [][MoNext]_moVars

-------------------------------------------------------------------------------
\* Units held by an epoch that is not settled yet.
Pending(r) == r.total + r.accrual + r.fees + r.recycled

\* No unit is made or lost: outputs, pool, reserve and what the open epoch holds add up to
\* the genesis units and the emission, whatever is burned, hidden, paid as a fee or left
\* over by a division, across every settlement; and the closed form of the emission, which
\* sets the minimum bond, is the sum of the rewards, over the turn of a year and past the last.
SupplyConserved ==
    /\ transparent + confidential_pool_value + protocol_reserve + Pending(epoch_reward) = GenesisUnits + emitted
    /\ emitted_supply_units(ledger_height) = emitted
================================================================================
