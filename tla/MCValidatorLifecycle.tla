------------------------ MODULE MCValidatorLifecycle ------------------------
(* Instances of ValidatorLifecycle for TLC. *)
EXTENDS ValidatorLifecycle

ThreeKeys == 1..3
First == {1}
Nobody == {}

\* The first bond of key 2 is the smallest; the second join of key 3 names the key for time
\* signatures of key 2.
MCAmount == [o \in Keys \X (1..Bonds) |-> IF o = <<2, 1>> THEN 1 ELSE 2]
MCBlsOf == [o \in Keys \X (1..Bonds) |-> IF o = <<3, 2>> THEN 2 ELSE o[1]]

\* The second unit is asked for while two validators are active, and near the end.
MCMinBond(x, S) == IF Cardinality(S) >= 2 \/ x >= 6 THEN 2 ELSE 1
=============================================================================
