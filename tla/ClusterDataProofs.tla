--------------------------- MODULE ClusterDataProofs ---------------------------
(***************************************************************************)
(* What groupID and ValidatorSubnet return, for groups of any size and any *)
(* number of subnets.  That a group can be sorted at all is not shown by   *)
(* induction: the place of an operator is the number of those up to it.    *)
(***************************************************************************)
EXTENDS ClusterData, FiniteSetTheorems, FunctionTheorems, TLAPS

\* A group has as many operators as its array has places.
LEMMA GroupSize ==
  ASSUME NEW g \in Groups
  PROVE  /\ DOMAIN g = 1 .. Len(g) /\ Len(g) \in Nat
         /\ InGroup(g) \subseteq Nat
         /\ IsFiniteSet(InGroup(g)) /\ Cardinality(InGroup(g)) = Len(g)
         /\ IsFiniteSet(DOMAIN g) /\ Cardinality(DOMAIN g) = Len(g)
<1>1. /\ g \in Seq(Nat) /\ Len(g) \in Nat /\ DOMAIN g = 1 .. Len(g)
      /\ g \in [1 .. Len(g) -> Nat]
      /\ \A k, l \in DOMAIN g : g[k] = g[l] => k = l
  BY DEF Groups
<1>2. IsFiniteSet(1 .. Len(g)) /\ Cardinality(1 .. Len(g)) = Len(g)
  <2>1. \A n \in Nat : IsFiniteSet(1 .. n) /\ Cardinality(1 .. n) = n
    BY FS_Interval
  <2>2. QED
    BY <1>1, <2>1
<1>3. g \in [1 .. Len(g) -> InGroup(g)] /\ \A x \in InGroup(g) : \E k \in 1 .. Len(g) : g[k] = x
  BY <1>1 DEF InGroup
<1>4. g \in Bijection(1 .. Len(g), InGroup(g))
  BY <1>1, <1>3, Fun_IsBij
<1>5. IsFiniteSet(InGroup(g)) /\ Cardinality(InGroup(g)) = Len(g)
  BY <1>2, <1>4, FS_Bijection DEF ExistsBijection
<1>6. InGroup(g) \subseteq Nat
  BY <1>1 DEF InGroup
<1>7. QED
  BY <1>1, <1>2, <1>5, <1>6

\* A group can be sorted.
LEMMA GroupSorts ==
  ASSUME NEW g \in Groups
  PROVE  \E q \in [DOMAIN g -> InGroup(g)] : Ascending(q)
<1> DEFINE S == InGroup(g)
           UpTo(x) == {y \in S : y <= x}
           R == [x \in S |-> Cardinality(UpTo(x))]
           q == [k \in DOMAIN g |-> CHOOSE x \in S : R[x] = k]
<1>1. /\ DOMAIN g = 1 .. Len(g) /\ Len(g) \in Nat
      /\ S \subseteq Nat /\ IsFiniteSet(S) /\ Cardinality(S) = Len(g)
      /\ IsFiniteSet(DOMAIN g) /\ Cardinality(DOMAIN g) = Len(g)
  BY GroupSize
<1>2. ASSUME NEW x \in S
      PROVE  /\ UpTo(x) \in SUBSET S /\ IsFiniteSet(UpTo(x))
             /\ R[x] = Cardinality(UpTo(x))
             /\ R[x] \in DOMAIN g
  <2>1. UpTo(x) \in SUBSET S /\ x \in UpTo(x) /\ R[x] = Cardinality(UpTo(x))
    BY <1>1
  <2>2. IsFiniteSet(UpTo(x)) /\ Cardinality(UpTo(x)) <= Len(g)
    BY <1>1, <2>1, FS_Subset
  <2>3. Cardinality(UpTo(x)) \in Nat /\ Cardinality(UpTo(x)) # 0
    BY <2>1, <2>2, FS_CardinalityType, FS_EmptySet
  <2>4. QED
    BY <1>1, <2>1, <2>2, <2>3
<1>3. ASSUME NEW x \in S, NEW y \in S, x < y PROVE R[x] < R[y]
  <2>1. UpTo(x) \in SUBSET UpTo(y) /\ y \notin UpTo(x) /\ y \in UpTo(y)
    BY <1>1, <1>3
  <2>2. /\ Cardinality(UpTo(x)) <= Cardinality(UpTo(y))
        /\ Cardinality(UpTo(x)) # Cardinality(UpTo(y))
    BY <1>2, <2>1, FS_Subset
  <2>3. Cardinality(UpTo(x)) \in Nat /\ Cardinality(UpTo(y)) \in Nat
    BY <1>2, FS_CardinalityType
  <2>4. QED
    BY <2>2, <2>3
<1>4. \A x \in S : R[x] \in DOMAIN g
  BY <1>2
<1> HIDE DEF R
<1>5. R \in Injection(S, DOMAIN g)
  <2>1. R \in [S -> DOMAIN g]
    BY <1>4 DEF R
  <2>2. ASSUME NEW x \in S, NEW y \in S, R[x] = R[y] PROVE x = y
    <3>1. R[x] \in Nat /\ x \in Nat /\ y \in Nat
      BY <1>1, <1>4
    <3>2. ~(x < y) /\ ~(y < x)
      BY <1>3, <2>2, <3>1
    <3>3. QED
      BY <3>1, <3>2
  <2>3. QED
    BY <2>1, <2>2, Fun_IsInj
<1>6. R \in Surjection(S, DOMAIN g)
  BY <1>1, <1>5, FS_Injection
<1>7. \A k \in DOMAIN g : \E x \in S : R[x] = k
  BY <1>6, Fun_SurjectionProperties
<1>8. /\ q \in [DOMAIN g -> S]
      /\ \A k \in DOMAIN g : q[k] \in S /\ R[q[k]] = k
  BY <1>7
<1> HIDE DEF q
<1>9. ASSUME NEW k \in DOMAIN g, NEW l \in DOMAIN g, k < l PROVE q[k] < q[l]
  <2>1. q[k] \in S /\ q[l] \in S /\ R[q[k]] = k /\ R[q[l]] = l
    BY <1>8
  <2>2. k \in Nat /\ l \in Nat /\ q[k] \in Nat /\ q[l] \in Nat
    BY <1>1, <2>1
  <2>3. ~(q[l] < q[k])
    BY <1>3, <1>9, <2>1, <2>2
  <2>4. q[k] # q[l]
    BY <1>9, <2>1, <2>2
  <2>5. QED
    BY <2>2, <2>3, <2>4
<1>10. QED
  BY <1>8, <1>9 DEF Ascending

\* The name of a group is the same operators in a row ...
LEMMA NameTellsGroup ==
  ASSUME NEW g \in Groups
  PROVE  groupID(g) \in Groups /\ InGroup(groupID(g)) = InGroup(g)
<1> DEFINE q == groupID(g)
<1>1. q \in [DOMAIN g -> InGroup(g)] /\ Ascending(q)
  BY GroupSorts DEF groupID
<1>2. /\ DOMAIN g = 1 .. Len(g) /\ Len(g) \in Nat
      /\ InGroup(g) \subseteq Nat
      /\ IsFiniteSet(InGroup(g)) /\ Cardinality(InGroup(g)) = Len(g)
      /\ IsFiniteSet(DOMAIN g) /\ Cardinality(DOMAIN g) = Len(g)
  BY GroupSize
<1> HIDE DEF q
<1>3. ASSUME NEW k \in DOMAIN g, NEW l \in DOMAIN g, q[k] = q[l] PROVE k = l
  <2>1. q[k] \in Nat /\ k \in Nat /\ l \in Nat
    BY <1>1, <1>2
  <2>2. ~(k < l) /\ ~(l < k)
    BY <1>1, <1>3, <2>1 DEF Ascending
  <2>3. QED
    BY <2>1, <2>2
<1>4. q \in Injection(DOMAIN g, InGroup(g))
  BY <1>1, <1>3, Fun_IsInj
<1>5. q \in Surjection(DOMAIN g, InGroup(g))
  BY <1>2, <1>4, FS_Injection
<1>6. \A x \in InGroup(g) : \E k \in DOMAIN g : q[k] = x
  BY <1>5, Fun_SurjectionProperties
<1>7. InGroup(q) = InGroup(g)
  BY <1>1, <1>6 DEF InGroup
<1>8. q \in Seq(Nat)
  BY <1>1, <1>2
<1>9. q \in Groups
  BY <1>1, <1>3, <1>8 DEF Groups
<1>10. QED
  BY <1>7, <1>9 DEF q

\* ... and nothing about the order they are written in.
LEMMA GroupTellsName ==
  ASSUME NEW g \in Groups, NEW h \in Groups, InGroup(g) = InGroup(h)
  PROVE  groupID(g) = groupID(h)
<1>1. DOMAIN g = DOMAIN h
  BY GroupSize
<1>2. QED
  BY <1>1 DEF groupID

\* Keys of ten characters fall into one of the subnets, hexadecimal or not.
LEMMA SubnetInRange ==
  ASSUME NEW pk \in Keys, pk.long, NEW n \in Nat \ {0}
  PROVE  ValidatorSubnet(pk, n) \in 0 .. n - 1
<1>1. hexToUint64(pk.head) \in Nat
  BY DEF hexToUint64, Keys, NotHex
<1>2. hexToUint64(pk.head) % n \in 0 .. n - 1
  BY <1>1
<1>3. QED
  BY <1>2 DEF ValidatorSubnet

===============================================================================
