------------------------------ MODULE PinProofs ------------------------------
(***************************************************************************)
(* Proofs about Pin and PinGroup.                                          *)
(***************************************************************************)
EXTENDS Pin, FiniteSetTheorems, TLAPS

\* Two pins of a group never share a dense position, so gathering what was
\* scattered gives back the bits that had a pin.
LEMMA RankIncreases ==
    ASSUME NEW m, IsFiniteSet(m), m \subseteq Nat,
           NEW i \in m, NEW j \in m, i < j
    PROVE  Rank(m, i) < Rank(m, j)
<1> DEFINE L == {k \in m : k < i}
           U == {k \in m : k < j}
<1>1. IsFiniteSet(U)
    BY FS_Subset
<1>2. i \in U /\ i \notin L
    BY i \in Nat
<1>3. \A k \in m : k < i => k < j
  <2>1. i \in Nat /\ j \in Nat /\ \A k \in m : k \in Nat
      OBVIOUS
  <2> QED BY <2>1
<1>4. L \subseteq U
    BY <1>3
<1>5. Cardinality(L) < Cardinality(U)
  <2> HIDE DEF L, U
  <2>1. Cardinality(L) \in Nat /\ Cardinality(U) \in Nat
      BY <1>1, <1>4, FS_Subset, FS_CardinalityType
  <2>2. Cardinality(L) <= Cardinality(U) /\ Cardinality(L) # Cardinality(U)
      BY <1>1, <1>2, <1>4, FS_Subset
  <2> QED BY <2>1, <2>2
<1> QED BY <1>5 DEF Rank

LEMMA RankInjective ==
    ASSUME NEW m, IsFiniteSet(m), m \subseteq Nat,
           NEW i \in m, NEW j \in m, Rank(m, i) = Rank(m, j)
    PROVE  i = j
<1>1. Rank(m, i) \in Nat /\ Rank(m, j) \in Nat
    BY FS_Subset, FS_CardinalityType DEF Rank
<1>2. i < j => Rank(m, i) < Rank(m, j)
    BY RankIncreases, Zenon
<1>3. j < i => Rank(m, j) < Rank(m, i)
    BY RankIncreases, Zenon
<1>4. i \in Nat /\ j \in Nat
    OBVIOUS
<1> QED BY <1>1, <1>2, <1>3, <1>4

\* The dense positions of a group of n pins are the lowest n bits.
LEMMA RankRange ==
    ASSUME NEW m, IsFiniteSet(m), m \subseteq Nat
    PROVE  {Rank(m, i) : i \in m} = 0..(Cardinality(m) - 1)
<1> DEFINE n == Cardinality(m)
           f == [i \in m |-> Rank(m, i)]
<1>1. n \in Nat
    BY FS_CardinalityType
<1>2. ASSUME NEW i \in m PROVE Rank(m, i) \in 0..(n - 1)
  <2> DEFINE L == {j \in m : j < i}
  <2>1. i \in m /\ i \notin L /\ L \subseteq m
      BY i \in Nat
  <2>2. IsFiniteSet(L) /\ Cardinality(L) <= n /\ Cardinality(L) # n
    <3> HIDE DEF L
    <3> QED BY <2>1, FS_Subset
  <2>3. Cardinality(L) \in Nat
      BY <2>2, FS_CardinalityType
  <2>4. Cardinality(L) \in 0..(n - 1)
    <3> HIDE DEF L, n
    <3> QED BY <1>1, <2>2, <2>3
  <2> QED BY <2>4 DEF Rank
<1>3. f \in Injection(m, 0..(n - 1))
  <2>1. f \in [m -> 0..(n - 1)]
      BY <1>2
  <2>2. \A i, j \in m : f[i] = f[j] => i = j
      BY RankInjective
  <2> QED BY <2>1, <2>2 DEF Injection, IsInjective
<1>4. IsFiniteSet(0..(n - 1)) /\ Cardinality(0..(n - 1)) = n
  <2> HIDE DEF n
  <2> QED BY <1>1, FS_Interval
<1>5. f \in Surjection(m, 0..(n - 1))
  <2> HIDE DEF f, n
  <2>1. n = Cardinality(m)
      BY DEF n
  <2> QED BY <1>3, <1>4, <2>1, FS_Injection
<1>6. \A k \in 0..(n - 1) : \E i \in m : f[i] = k
    BY <1>5 DEF Surjection
<1> QED BY <1>2, <1>6

\* sk_pin_group_set followed by sk_pin_group_read: the lowest n bits of the
\* value come back, for every group of n pins and every value.
THEOREM RoundTrip ==
    ASSUME NEW m, IsFiniteSet(m), m \subseteq Nat, NEW v
    PROVE  Densify(m, Sparsify(m, v)) = v \cap 0..(Cardinality(m) - 1)
<1>1. Densify(m, Sparsify(m, v)) = v \cap {Rank(m, i) : i \in m}
    BY DEF Densify, Sparsify
<1> QED BY <1>1, RankRange

\* sk_pin_group_read followed by sk_pin_group_set stores what was there.
THEOREM RoundTripBack ==
    ASSUME NEW m, IsFiniteSet(m), m \subseteq Nat, NEW s
    PROVE  Sparsify(m, Densify(m, s)) = m \cap s
<1>1. ASSUME NEW i \in m, Rank(m, i) \in Densify(m, s) PROVE i \in s
  <2>1. PICK k \in m \cap s : Rank(m, i) = Rank(m, k)
      BY <1>1 DEF Densify
  <2> QED BY <2>1, RankInjective
<1>2. ASSUME NEW i \in m \cap s PROVE Rank(m, i) \in Densify(m, s)
    BY DEF Densify
<1> QED BY <1>1, <1>2 DEF Sparsify

-----------------------------------------------------------------------------

IInv == TypeOK /\ LevelsKept /\ ReadsFresh

LEMMA InitIInv == Init => IInv
BY DEF Init, IInv, TypeOK, LevelsKept, ReadsFresh

\* A call that only reads keeps the invariant, if what it may store is typed.
LEMMA ReadKeeps ==
    ASSUME IInv, NEW c \in Ctx, NEW op \in Ops,
           NEW m \in SUBSET Pins, NEW b \in SUBSET Pins,
           IF op = "toggle" THEN m \subseteq PinsOf[c] /\ NotLockedOut(c) ELSE Quiet,
           Read(c, op, m, b)
    PROVE  IInv'
<1> DEFINE r == [op |-> op, mask |-> m, bits |-> b, reg |-> odr]
<1>1. r \in Calls /\ r # Idle
    BY IdleAssumption DEF Calls, IInv, TypeOK
<1>2. call' = [call EXCEPT ![c] = r] /\ odr' = odr /\ level' = level
    BY DEF Read
<1>3. call \in [Ctx -> Calls \cup {Idle}]
    BY DEF IInv, TypeOK
<1>4. TypeOK'
    BY <1>1, <1>2, <1>3 DEF IInv, TypeOK
<1>5. LevelsKept'
    BY <1>2 DEF IInv, LevelsKept
<1>6. ASSUME NEW d \in Ctx, call'[d] # Idle
      PROVE  IF call'[d].op = "toggle"
             THEN /\ call'[d].mask \subseteq PinsOf[d]
                  /\ call'[d].reg \cap call'[d].mask = odr' \cap call'[d].mask
             ELSE /\ call'[d].reg = odr'
                  /\ \A e \in Ctx \ {d} : call'[e] = Idle
  <2>1. CASE d = c
    <3>1. call'[d] = r
        BY <1>2, <1>3, <2>1
    <3>2. CASE op = "toggle"
        BY <1>2, <2>1, <3>1, <3>2
    <3>3. CASE op # "toggle"
        BY <1>2, <1>3, <2>1, <3>1, <3>3 DEF Quiet
    <3> QED BY <3>2, <3>3
  <2>2. CASE d # c
    <3>1. call'[d] = call[d] /\ call[d] # Idle
        BY <1>2, <1>3, <1>6, <2>2
    <3>2. op = "toggle" /\ NotLockedOut(c)
        BY <3>1 DEF Quiet
    <3>3. call[d].op = "toggle"
        BY <1>3, <2>2, <3>1, <3>2 DEF NotLockedOut, In, Calls, Ops
    <3> QED BY <1>2, <3>1, <3>3 DEF IInv, ReadsFresh
  <2> QED BY <2>1, <2>2
<1>7. ReadsFresh'
    BY <1>6 DEF ReadsFresh
<1> QED BY <1>4, <1>5, <1>7 DEF IInv

\* Every step keeps the invariant.
LEMMA StepIInv == IInv /\ [Next]_vars => IInv'
<1> SUFFICES ASSUME IInv, [Next]_vars PROVE IInv'
    OBVIOUS
<1> USE PinAssumption, OwnerAssumption
<1>t. call \in [Ctx -> Calls \cup {Idle}] /\ odr \subseteq Pins /\ level = odr
    BY DEF IInv, TypeOK, LevelsKept
<1>1. ASSUME NEW c \in Ctx, NEW p \in PinsOf[c], NEW v \in BOOLEAN, PinSet(c, p, v)
      PROVE  IInv'
  <2>1. TypeOK' /\ LevelsKept'
      BY <1>1, <1>t DEF PinSet, IInv, TypeOK, LevelsKept
  <2>2. call' = call /\ call[c] = Idle
      BY <1>1 DEF PinSet
  <2>3. ASSUME NEW d \in Ctx, call[d] # Idle
        PROVE  /\ call[d].op = "toggle"
               /\ call[d].mask \subseteq PinsOf[d]
               /\ call[d].reg \cap call[d].mask = odr' \cap call[d].mask
    <3>1. call[d].op = "toggle"
        BY <1>1, <1>t, <2>2, <2>3 DEF PinSet, NotLockedOut, In, Calls, Ops
    <3>2. call[d].mask \subseteq PinsOf[d] /\ call[d].reg \cap call[d].mask = odr \cap call[d].mask
        BY <2>3, <3>1 DEF IInv, ReadsFresh
    <3>3. p \notin PinsOf[d]
        BY <1>1, <2>2, <2>3
    <3> QED BY <1>1, <3>1, <3>2, <3>3 DEF PinSet
  <2>4. ReadsFresh'
      BY <2>2, <2>3 DEF ReadsFresh
  <2> QED BY <2>1, <2>4 DEF IInv
<1>2. ASSUME NEW c \in Ctx, NEW p \in PinsOf[c], ToggleRead(c, p)
      PROVE  IInv'
  <2>1. {p} \in SUBSET Pins /\ {p} \subseteq PinsOf[c]
      OBVIOUS
  <2> QED BY <1>2, <2>1, ReadKeeps DEF ToggleRead, Ops
<1>3. ASSUME NEW c \in Ctx, NEW g \in Groups, NEW v \in Values,
             GroupSetRead(c, g, v) \/ GroupToggleRead(c, g, v)
      PROVE  IInv'
  <2>1. g.pins \in SUBSET Pins /\ SetBits(g, v) \in SUBSET Pins
          /\ Sparsify(g.pins, v) \in SUBSET Pins
      BY GroupAssumption DEF SetBits, Sparsify, Xor
  <2> QED BY <1>3, <2>1, ReadKeeps DEF GroupSetRead, GroupToggleRead, Ops
<1>4. ASSUME NEW c \in Ctx, ToggleStore(c)
      PROVE  IInv'
  <2>1. call[c] \in Calls /\ call[c] # Idle /\ call[c].op = "toggle"
      BY <1>4, <1>t DEF ToggleStore, In
  <2>2. call' = [call EXCEPT ![c] = Idle]
      BY <1>4 DEF ToggleStore, Return
  <2>3. /\ call[c].mask \subseteq PinsOf[c]
        /\ call[c].reg \cap call[c].mask = odr \cap call[c].mask
      BY <2>1 DEF IInv, ReadsFresh
  <2>4. odr' = Xor(odr, call[c].mask) /\ level' = odr'
      BY <1>4, <1>t, <2>3 DEF ToggleStore, Xor
  <2>5. TypeOK' /\ LevelsKept'
      BY <1>t, <2>1, <2>2, <2>4 DEF TypeOK, LevelsKept, Xor, Calls
  <2>6. ASSUME NEW d \in Ctx, call'[d] # Idle
        PROVE  /\ call'[d].op = "toggle"
               /\ call'[d].mask \subseteq PinsOf[d]
               /\ call'[d].reg \cap call'[d].mask = odr' \cap call'[d].mask
    <3>1. d # c /\ call'[d] = call[d]
        BY <1>t, <2>2, <2>6
    <3>2. call[d].op = "toggle"
        BY <1>4, <1>t, <2>6, <3>1 DEF ToggleStore, NotLockedOut, In, Calls, Ops
    <3>3. call[d].mask \subseteq PinsOf[d] /\ call[d].reg \cap call[d].mask = odr \cap call[d].mask
        BY <2>6, <3>1, <3>2 DEF IInv, ReadsFresh
    <3>4. call[d].mask \cap call[c].mask = {}
        BY <2>3, <3>1, <3>3
    <3> QED BY <2>4, <3>1, <3>2, <3>3, <3>4 DEF Xor
  <2>7. ReadsFresh'
      BY <2>6 DEF ReadsFresh
  <2> QED BY <2>5, <2>7 DEF IInv
<1>5. ASSUME NEW c \in Ctx, GroupSetStore(c) \/ GroupToggleStore(c)
      PROVE  IInv'
  <2>1. call[c] \in Calls /\ call[c] # Idle /\ call[c].op # "toggle"
      BY <1>5, <1>t DEF GroupSetStore, GroupToggleStore, In
  <2>2. call' = [call EXCEPT ![c] = Idle]
      BY <1>5 DEF GroupSetStore, GroupToggleStore, Return
  <2>3. call[c].reg = odr /\ \A d \in Ctx \ {c} : call[d] = Idle
      BY <2>1 DEF IInv, ReadsFresh
  <2>4. level' = odr' /\ odr' \subseteq Pins
    <3>1. CASE GroupSetStore(c)
        BY <1>t, <2>1, <2>3, <3>1 DEF GroupSetStore, Calls
    <3>2. CASE GroupToggleStore(c)
        BY <1>t, <2>1, <2>3, <3>2 DEF GroupToggleStore, Xor, Calls
    <3> QED BY <1>5, <3>1, <3>2
  <2>5. TypeOK' /\ LevelsKept'
      BY <1>t, <2>2, <2>4 DEF TypeOK, LevelsKept
  <2>6. \A d \in Ctx : call'[d] = Idle
      BY <1>t, <2>2, <2>3
  <2> QED BY <2>5, <2>6 DEF IInv, ReadsFresh
<1>6. CASE UNCHANGED vars
    BY <1>6 DEF vars, IInv, TypeOK, LevelsKept, ReadsFresh
<1>7. CASE Next
    BY <1>1, <1>2, <1>3, <1>4, <1>5, <1>7 DEF Next, Step
<1> QED BY <1>6, <1>7

\* In every behaviour of the port, for all contexts, pins and groups, every
\* pin has the level the completed calls gave it.
THEOREM PortKeepsLevels == Spec => []LevelsKept
<1>1. Spec => []IInv
    BY InitIInv, StepIInv, PTL DEF Spec
<1>2. IInv => LevelsKept
    BY DEF IInv
<1> QED BY <1>1, <1>2, PTL

\* The variables of the port keep their types.
THEOREM PortTyped == Spec => []TypeOK
<1>1. Spec => []IInv
    BY InitIInv, StepIInv, PTL DEF Spec
<1>2. IInv => TypeOK
    BY DEF IInv
<1> QED BY <1>1, <1>2, PTL

\* The only step that ends a group set is its own store.
LEMMA GroupSetEnds ==
    ASSUME IInv, [Next]_vars, NEW c \in Ctx, In(c, "group_set"), call'[c] = Idle
    PROVE  GroupSetStore(c)
<1>t. call \in [Ctx -> Calls \cup {Idle}]
    BY DEF IInv, TypeOK
<1>1. call[c] # Idle /\ call[c].op = "group_set"
    BY DEF In
<1>2. PICK d \in Ctx : Step(d)
    BY <1>1 DEF Next, vars
<1>3. CASE d = c
  <2>1. \A p, v : ~PinSet(c, p, v)
      BY <1>1 DEF PinSet
  <2>2. \A op, m, b : ~Read(c, op, m, b)
      BY <1>1 DEF Read
  <2>3. ~ToggleStore(c) /\ ~GroupToggleStore(c)
      BY <1>1 DEF ToggleStore, GroupToggleStore, In
  <2> QED BY <1>2, <1>3, <2>1, <2>2, <2>3
          DEF Step, ToggleRead, GroupSetRead, GroupToggleRead
<1>4. CASE d # c
  <2>1. \A x : call' = [call EXCEPT ![d] = x] => call'[c] = call[c]
      BY <1>t, <1>4
  <2> QED BY <1>1, <1>2, <2>1
          DEF Step, PinSet, Read, ToggleRead, GroupSetRead, GroupToggleRead,
              ToggleStore, GroupSetStore, GroupToggleStore, Return
<1> QED BY <1>3, <1>4

\* For every port, group and value, what a group set stores is what a group
\* read then returns.
THEOREM PortReadsBack == Spec => SetReadsBack
<1>1. Spec => []IInv
    BY InitIInv, StepIInv, PTL DEF Spec
<1> DEFINE Back ==
      \A c \in Ctx, g \in Groups, v \in Values :
          In(c, "group_set") /\ call'[c] = Idle
            /\ call[c].mask = g.pins /\ call[c].bits = SetBits(g, v)
          => GroupRead(g)' = v \cap 0..(Cardinality(g.pins) - 1)
<1>2. IInv /\ [Next]_vars => [Back]_vars
  <2> SUFFICES ASSUME IInv, [Next]_vars,
                      NEW c \in Ctx, NEW g \in Groups, NEW v \in Values,
                      In(c, "group_set"), call'[c] = Idle,
                      call[c].mask = g.pins, call[c].bits = SetBits(g, v)
               PROVE  GroupRead(g)' = v \cap 0..(Cardinality(g.pins) - 1)
      OBVIOUS
  <2>1. GroupSetStore(c)
      BY GroupSetEnds
  <2>2. odr' = (call[c].reg \ g.pins) \cup Xor(Sparsify(g.pins, v), g.inversions)
      BY <2>1 DEF GroupSetStore, SetBits
  <2>3. g.pins \cap Xor(odr', g.inversions) = g.pins \cap Sparsify(g.pins, v)
      BY <2>2, GroupAssumption DEF Xor, Sparsify
  <2>4. GroupRead(g)' = Densify(g.pins, Sparsify(g.pins, v))
    <3>1. GroupRead(g)' = Densify(g.pins, Xor(odr', g.inversions))
        BY DEF GroupRead, Densify, Xor
    <3> QED BY <2>3, <3>1 DEF Densify
  <2>5. IsFiniteSet(g.pins) /\ g.pins \subseteq Nat
    <3>1. g.pins \in SUBSET (0..15)
        BY GroupAssumption, PinAssumption
    <3>2. IsFiniteSet(0..15)
        BY FS_Interval, 0 \in Int, 15 \in Int, Zenon
    <3> QED BY <3>1, <3>2, FS_Subset
  <2> QED BY <2>4, <2>5, RoundTrip
<1> QED BY <1>1, <1>2, PTL DEF Spec, SetReadsBack

=============================================================================
