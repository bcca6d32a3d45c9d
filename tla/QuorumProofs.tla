---------------------------- MODULE QuorumProofs ----------------------------
(* Facts about quorums that hold for every committee with                   *)
(* 3 * Faulty < Members.                                                    *)
EXTENDS CommitteeQuorum, FiniteSetTheorems, TLAPS

\* The threshold is more than two thirds: two quorums overlap in more members
\* than the faulty ones (consensus::quorum_threshold).
LEMMA ThresholdArithmetic ==
    ASSUME NEW n \in Nat, NEW f \in Nat, 3 * f < n
    PROVE  /\ quorum_threshold(n) \in Nat
           /\ quorum_threshold(n) > f
           /\ 2 * quorum_threshold(n) > n + f
  BY DEF quorum_threshold

\* The members of a set are finitely many.
LEMMA MembersFinite ==
    ASSUME NEW S
    PROVE  /\ IsFiniteSet(S \cap Members)
           /\ Cardinality(S \cap Members) \in Nat
           /\ Cardinality(S \cap Members) <= Cardinality(Members)
           /\ Cardinality(Members) \in Nat
           /\ IsFiniteSet(Faulty)
           /\ Cardinality(Faulty) \in Nat
<1>1. IsFiniteSet(Members) /\ Faulty \subseteq Members
  BY CommitteeAssumption
<1>2. S \cap Members \subseteq Members
  OBVIOUS
<1>3. IsFiniteSet(S \cap Members) /\ Cardinality(S \cap Members) <= Cardinality(Members)
  BY <1>1, <1>2, FS_Subset
<1>4. IsFiniteSet(Faulty)
  BY <1>1, FS_Subset
<1> QED
  BY <1>1, <1>3, <1>4, FS_CardinalityType

\* Any two quorums share an honest member.
LEMMA QuorumsIntersect ==
    ASSUME NEW A, NEW B, IsQuorum(A), IsQuorum(B)
    PROVE  \E p \in Honest : p \in A /\ p \in B
<1> DEFINE a == A \cap Members
           b == B \cap Members
           n == Cardinality(Members)
           f == Cardinality(Faulty)
           Q == quorum_threshold(n)
<1>1. /\ IsFiniteSet(a) /\ IsFiniteSet(b) /\ IsFiniteSet(Faulty)
      /\ Cardinality(a) \in Nat /\ Cardinality(b) \in Nat
      /\ n \in Nat /\ f \in Nat
  BY MembersFinite
<1>2. 3 * f < n
  BY CommitteeAssumption
<1>3. Q \in Nat /\ 2 * Q > n + f
  BY <1>1, <1>2, ThresholdArithmetic
<1>4. Cardinality(a) >= Q /\ Cardinality(b) >= Q
  BY DEF IsQuorum
<1>5. /\ IsFiniteSet(a \cup b)
      /\ Cardinality(a \cup b) = Cardinality(a) + Cardinality(b) - Cardinality(a \cap b)
  BY <1>1, FS_Union
<1>6. Cardinality(a \cup b) <= n
  <2>1. a \cup b \subseteq Members
    OBVIOUS
  <2> QED
    BY <2>1, FS_Subset, CommitteeAssumption
<1>7. Cardinality(a \cap b) \in Nat
  <2>1. IsFiniteSet(a \cap b)
    BY <1>1, FS_Intersection
  <2> QED
    BY <2>1, FS_CardinalityType
<1>8. Cardinality(a \cap b) > f
  <2> HIDE DEF a, b, n, f, Q
  <2> QED
    BY <1>1, <1>3, <1>4, <1>5, <1>6, <1>7
<1>9. ASSUME a \cap b \subseteq Faulty
      PROVE  FALSE
  <2>1. Cardinality(a \cap b) <= f
    BY <1>9, <1>1, FS_Subset
  <2> HIDE DEF a, b, n, f, Q
  <2> QED
    BY <2>1, <1>1, <1>7, <1>8
<1> QED
  BY <1>9 DEF Honest

\* A set with a quorum in it is a quorum.
LEMMA QuorumMonotone ==
    ASSUME NEW A, NEW B, A \subseteq B, IsQuorum(A)
    PROVE  IsQuorum(B)
<1>1. A \cap Members \subseteq B \cap Members
  OBVIOUS
<1>2. Cardinality(A \cap Members) <= Cardinality(B \cap Members)
  BY <1>1, MembersFinite, FS_Subset
<1>3. quorum_threshold(Cardinality(Members)) \in Nat
  BY MembersFinite, ThresholdArithmetic, CommitteeAssumption
<1> QED
  BY <1>2, <1>3, MembersFinite DEF IsQuorum

---------------------------------------------------------------------------
(* What every step of the rules leaves true.                                *)

\* n - Q + 1 members are more than the faulty ones.
LEMMA FPlusOneHasHonest ==
    ASSUME NEW A, FPlusOne(A)
    PROVE  \E q \in Honest : q \in A
<1> DEFINE a == A \cap Members
           n == Cardinality(Members)
           f == Cardinality(Faulty)
<1>1. n \in Nat /\ f \in Nat /\ IsFiniteSet(Faulty) /\ Cardinality(a) \in Nat
  BY MembersFinite
<1>2. 3 * f < n
  BY CommitteeAssumption
<1>3. Cardinality(a) >= n - quorum_threshold(n) + 1
  BY DEF FPlusOne
<1>4. Cardinality(a) > f
  <2> HIDE DEF a, n, f
  <2> QED
    BY <1>1, <1>2, <1>3 DEF quorum_threshold
<1>5. ASSUME a \subseteq Faulty
      PROVE  FALSE
  <2>1. Cardinality(a) <= f
    BY <1>5, <1>1, FS_Subset
  <2> HIDE DEF a, n, f
  <2> QED
    BY <2>1, <1>1, <1>4
<1> QED
  BY <1>5 DEF Honest
=============================================================================
