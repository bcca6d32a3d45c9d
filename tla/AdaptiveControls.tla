---------------------------- MODULE AdaptiveControls ----------------------------
(***************************************************************************)
(* Two values every node steers from the finalized history: the ticket     *)
(* difficulty of an epoch (ticket_difficulty_bits_for_epoch) and the base   *)
(* fee of a block (next_base_fee_per_kib).  How well an epoch went, how     *)
(* many validators there are and how full a block was are inputs.           *)
(***************************************************************************)
EXTENDS Integers, Sequences

CONSTANTS
    MinBits, MaxBits,     \* bounds of the difficulty
    WindowEpochs,         \* kWindowEpochs: epochs inspected
    MaxBaseFee,           \* BASE_FEE_MAX_PER_KIB
    Target                \* BASE_FEE_TARGET_FULLNESS_PPM; a block is at most 2 * Target full

ASSUME ControlAssumption ==
    /\ MinBits \in Nat /\ MaxBits \in Nat /\ MinBits <= MaxBits
    /\ WindowEpochs \in Nat \ {0} /\ MaxBaseFee \in Nat \ {0} /\ Target \in Nat \ {0}

VARIABLES
    ticket_difficulty_bits,
    epochs_seen,      \* finalized_block_metadata by epoch, newest last: "good", "poor" or "fair"
    since_rise,       \* history: epochs since the difficulty last rose
    base_fee_per_kib

acVars == <<ticket_difficulty_bits, epochs_seen, since_rise, base_fee_per_kib>>

Clamp(x, lo, hi) == IF x < lo THEN lo ELSE IF x > hi THEN hi ELSE x

-------------------------------------------------------------------------------
\* Epochs of one kind at the end of the window, up to the first of another kind.
Consecutive(seen, kind) ==
    LET run[n \in 0..Len(seen)] == \A i \in (Len(seen) - n + 1)..Len(seen) : seen[i] = kind
    IN  CHOOSE n \in 0..Len(seen) : run[n] /\ (n = Len(seen) \/ ~run[n + 1])

\* Slip: poor epochs are counted wherever they are in the window.
consecutive_unhealthy_epochs_slip(seen) ==
    Len(SelectSeq(seen, LAMBDA k : k = "poor"))

consecutive_unhealthy_epochs(seen) == Consecutive(seen, "poor")

\* An epoch counts as healthy only while there are more validators than seats.
consecutive_healthy_epochs(seen, crowded) == IF crowded THEN Consecutive(seen, "good") ELSE 0

adjust_bounded_ticket_difficulty_bits(bits, crowded, healthy, unhealthy) ==
    LET out == Clamp(bits, MinBits, MaxBits)
    IN  IF crowded /\ healthy >= 2 /\ out < MaxBits THEN out + 1
        ELSE IF unhealthy >= 3 /\ out > MinBits THEN out - 1
        ELSE out

\* At most an eighth, at least one.
base_fee_step(base, distance) ==
    LET step == (base * distance) \div (Target * 8) IN IF step > 1 THEN step ELSE 1

next_base_fee_per_kib(base, fullness) ==
    Clamp(IF fullness > Target THEN base + base_fee_step(base, fullness - Target)
          ELSE IF fullness < Target
            THEN LET step == base_fee_step(base, Target - fullness) IN IF base > step THEN base - step ELSE 0
          ELSE base,
          0, MaxBaseFee)

-------------------------------------------------------------------------------
AcInit ==
    /\ ticket_difficulty_bits = MinBits
    /\ epochs_seen = << >>
    /\ since_rise = WindowEpochs
    /\ base_fee_per_kib = 0

\* The end of an epoch: its blocks are the newest entry of the window.
CloseEpoch(kind, crowded) ==
    LET longer == Append(epochs_seen, kind)
        seen == IF Len(longer) > WindowEpochs THEN Tail(longer) ELSE longer
        bits == adjust_bounded_ticket_difficulty_bits(ticket_difficulty_bits, crowded,
                   consecutive_healthy_epochs(seen, crowded), consecutive_unhealthy_epochs(seen))
    IN  /\ epochs_seen' = seen
        /\ ticket_difficulty_bits' = bits
        /\ since_rise' = IF bits > ticket_difficulty_bits THEN 0
                         ELSE IF since_rise < WindowEpochs THEN since_rise + 1 ELSE since_rise
        /\ UNCHANGED base_fee_per_kib

FillBlock(fullness) ==
    /\ base_fee_per_kib' = next_base_fee_per_kib(base_fee_per_kib, fullness)
    /\ UNCHANGED <<ticket_difficulty_bits, epochs_seen, since_rise>>

AcNext ==
    \/ \E kind \in {"good", "poor", "fair"}, crowded \in BOOLEAN : CloseEpoch(kind, crowded)
    \/ \E fullness \in 0..(2 * Target) : FillBlock(fullness)

AcSpec == AcInit /\ [][AcNext]_acVars

-------------------------------------------------------------------------------
\* The difficulty does not swing: after it rose it falls at the earliest three epochs later,
\* however good and poor epochs alternate and however the validators come and go.  The base
\* fee never sticks: a block emptier than the target lowers it and a fuller one raises it,
\* however small the fee has become, unless it is at its bound.
ControlsSteady ==
    [][ /\ ticket_difficulty_bits' < ticket_difficulty_bits => since_rise >= 2
        /\ \A fullness \in 0..(2 * Target) :
             LET next == next_base_fee_per_kib(base_fee_per_kib, fullness)
             IN  /\ fullness < Target /\ base_fee_per_kib > 0 => next < base_fee_per_kib
                 /\ fullness > Target /\ base_fee_per_kib < MaxBaseFee => next > base_fee_per_kib ]_acVars
================================================================================
