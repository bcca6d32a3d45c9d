-------------------------- MODULE ValidatorRegistry --------------------------
(* The operations of the validator registry on one entry, and the sets read *)
(* from a whole registry. A registry is a function from keys to entries; a  *)
(* key that was never registered has the status NONE. Keys are naturals:    *)
(* the registry is an ordered map, and some loops depend on the order.      *)
EXTENDS Integers, FiniteSets

CONSTANTS
    Keys,          \* validator public keys
    Warmup,        \* validator_warmup_blocks
    Cooldown,      \* validator_cooldown_blocks
    UnbondDelay,   \* unbond_delay_blocks
    BlsKeys        \* keys for time signatures; a registered one belongs to one validator

\* BlsPublicKey{}: no key for time signatures
NoBls == 0

\* A set of keys has a last one: keys are byte strings of one length.
ASSUME RegistryAssumption ==
    /\ Keys \subseteq Nat
    /\ \A S \in SUBSET Keys : S # {} => \E k \in S : \A j \in S : j <= k
    /\ Warmup \in Nat /\ Cooldown \in Nat /\ UnbondDelay \in Nat
    /\ NoBls \notin BlsKeys

Statuses == {"NONE", "ONBOARDING", "PENDING", "ACTIVE", "SUSPENDED", "EXITING", "BANNED"}

\* OutPoint{}: no bond, or the bond of a genesis validator, which is no output
Zero == <<0, 0>>

Latest(a, b) == IF a >= b THEN a ELSE b

\* ValidatorInfo of a key that is not in the map
Unregistered ==
    [status |-> "NONE", joined |-> 0, bonded |-> FALSE, bond |-> Zero, unbond |-> 0,
     until |-> 0, exit |-> 0, eligible |-> 0, seen |-> 0, bls |-> NoBls]

GenesisEntry == [Unregistered EXCEPT !.status = "ACTIVE", !.bonded = TRUE]

\* bls_key_owner: somebody else in registry r registered b
TakenBls(r, k, b) == \E j \in Keys \ {k} : r[j].bls = b

\* A key for time signatures belongs to one validator, which never changes it.
bls_key_assignable(r, k, b) == ~TakenBls(r, k, b) /\ r[k].bls \in {NoBls, b}

register_onboarding(v, b, h) ==
    IF v.status = "NONE" THEN [v EXCEPT !.status = "ONBOARDING", !.joined = h, !.bls = b] ELSE v

\* A key joins with at least the minimum of the block when it is new, or has left (its bond
\* withdrawn) and cooled down.
can_register_bond(v, amount, min, h) ==
    /\ amount >= min
    /\ \/ v.status = "NONE"
       \/ /\ v.status \in {"ONBOARDING", "EXITING"}
          /\ ~v.bonded
          /\ (Cooldown > 0 /\ v.exit > 0) => h >= v.exit + Cooldown

\* The counters of the liveness window and the exit height survive a rejoin.
register_bond(v, o, b, h) ==
    [v EXCEPT !.status = "PENDING", !.joined = h, !.bonded = TRUE, !.bond = o, !.unbond = 0,
              !.bls = b]

request_unbond(v, h) ==
    IF v.status \in {"NONE", "BANNED"} \/ ~v.bonded THEN v
    ELSE [v EXCEPT !.status = "EXITING", !.unbond = h, !.exit = h]

finalize_withdrawal(v) ==
    IF v.status = "NONE" THEN v ELSE [v EXCEPT !.bonded = FALSE, !.bond = Zero]

ban(v, h) ==
    IF v.status = "NONE" THEN v
    ELSE [v EXCEPT !.status = "BANNED", !.unbond = Latest(v.unbond, h),
                   !.exit = Latest(v.exit, Latest(v.unbond, h))]

can_withdraw_bond(v, h) ==
    /\ v.bonded
    /\ v.status = "EXITING"
    /\ v.unbond # 0
    /\ h >= v.unbond + UnbondDelay

\* Entry v once the chain is at height h: suspensions end and warmups complete.
advance_height(v, h) ==
    CASE v.status = "SUSPENDED" /\ v.until > 0 /\ h >= v.until ->
            [v EXCEPT !.status = "ACTIVE", !.until = 0]
      [] v.status = "PENDING" /\ h >= v.joined + Warmup -> [v EXCEPT !.status = "ACTIVE"]
      [] OTHER -> v

is_effectively_active(v, h) ==
    /\ v.bonded
    /\ v.until <= h
    /\ \/ v.status = "ACTIVE"
       \/ v.status = "PENDING" /\ h >= v.joined + Warmup

active_sorted(r, h) == {k \in Keys : is_effectively_active(r[k], h)}

(* The loops that take validators out of the active set go through the keys *)
(* in order and skip one that is the last still active: when every active   *)
(* key is to leave, the greatest of them stays.                             *)
Spared(r, leaving, h) ==
    {k \in active_sorted(r, h) :
        /\ active_sorted(r, h) \subseteq leaving
        /\ \A j \in active_sorted(r, h) : j <= k}
=============================================================================
