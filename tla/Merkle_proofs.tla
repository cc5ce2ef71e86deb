---------------------------- MODULE Merkle_proofs ----------------------------
(***************************************************************************)
(* Every transaction of every block has a merkle proof that verifies,      *)
(* whatever the number of transactions.                                    *)
(*                                                                         *)
(* Levels, positions and the hashes of a verification are defined by       *)
(* recursion on the level.  Induction is taken from the least element of a *)
(* set of naturals; that the recursive functions exist is shown of each.   *)
(***************************************************************************)
EXTENDS Merkle, Integers, WellFoundedInduction, TLAPS

-----------------------------------------------------------------------------
(* Induction on naturals, for sets *)

LEMMA LeastNatural ==
  ASSUME NEW T \in SUBSET Nat, T # {}
  PROVE  \E x \in T : \A y \in T : x <= y
<1> DEFINE R == {ss \in Nat \X Nat : ss[1] < ss[2]}
<1>1. R = OpToRel(<, Nat)
  BY DEF OpToRel
<1>2. IsWellFoundedOn(R, Nat)
  BY <1>1, NatLessThanWellFounded
<1> HIDE DEF R
<1>3. \E x \in T : \A y \in T : ~ (<<y, x>> \in R)
  BY <1>2, WFMin
<1>4. PICK x \in T : \A y \in T : ~ (<<y, x>> \in R)
  BY <1>3
<1>5. ASSUME NEW y \in T PROVE x <= y
  <2>1. <<y, x>> \in Nat \X Nat /\ ~ (<<y, x>> \in R)
    BY <1>4
  <2> QED BY <2>1 DEF R
<1> QED BY <1>5

LEMMA Induction ==
  ASSUME NEW T, 0 \in T, \A n \in Nat : n \in T => n + 1 \in T
  PROVE  \A n \in Nat : n \in T
<1> SUFFICES ASSUME NEW n \in Nat, n \notin T PROVE FALSE
  OBVIOUS
<1> DEFINE N == {m \in Nat : m \notin T}
<1>1. N \in SUBSET Nat /\ N # {}
  OBVIOUS
<1> HIDE DEF N
<1>2. PICK x \in N : \A y \in N : x <= y
  BY <1>1, LeastNatural
<1>3. x \in Nat /\ x \notin T
  BY DEF N
<1>4. x # 0 /\ x - 1 \in Nat /\ ~ (x <= x - 1)
  BY <1>3
<1>5. x - 1 \in T
  BY <1>2, <1>4 DEF N
<1> QED BY <1>3, <1>4, <1>5

-----------------------------------------------------------------------------
(* The recursive functions exist *)

\* one step up, for a level and the position on it
Up(x) == <<Above(x[1]), x[2] \div 2>>

\* g is right up to level n
RunsTo(g, x, n) == \A k \in 0 .. n : g[k] = IF k = 0 THEN x ELSE Up(g[k - 1])

LEMMA RunsExist ==
  ASSUME NEW x PROVE \A n \in Nat : \E g : RunsTo(g, x, n)
<1> DEFINE T == {n \in Nat : \E g : RunsTo(g, x, n)}
<1>1. 0 \in T
  <2>1. RunsTo([k \in Nat |-> x], x, 0)
    BY DEF RunsTo
  <2> QED BY <2>1
<1>2. ASSUME NEW n \in Nat, n \in T PROVE n + 1 \in T
  <2>1. PICK g : RunsTo(g, x, n)
    BY <1>2
  <2> DEFINE h == [k \in Nat |-> IF k <= n THEN g[k] ELSE Up(g[n])]
  <2>2. ASSUME NEW k \in 0 .. n + 1 PROVE h[k] = IF k = 0 THEN x ELSE Up(h[k - 1])
    <3>1. CASE k = 0
      BY <2>1, <3>1 DEF RunsTo
    <3>2. CASE k \in 1 .. n
      <4>1. h[k] = g[k] /\ h[k - 1] = g[k - 1]
        BY <3>2
      <4>2. g[k] = Up(g[k - 1])
        BY <2>1, <3>2 DEF RunsTo
      <4> QED BY <3>2, <4>1, <4>2
    <3>3. CASE k = n + 1
      <4>1. h[k] = Up(g[n]) /\ h[k - 1] = g[n]
        BY <3>3
      <4> QED BY <3>3, <4>1
    <3> QED BY <3>1, <3>2, <3>3
  <2> HIDE DEF h
  <2>3. RunsTo(h, x, n + 1)
    BY <2>2 DEF RunsTo
  <2> QED BY <2>3
<1> HIDE DEF T
<1>3. \A n \in Nat : n \in T
  BY <1>1, <1>2, Induction
<1> QED BY <1>3 DEF T

LEMMA RunsAgree ==
  ASSUME NEW x, NEW n \in Nat, NEW m \in Nat, NEW g, NEW h,
         RunsTo(g, x, n), RunsTo(h, x, m)
  PROVE  \A k \in Nat : k <= n /\ k <= m => g[k] = h[k]
<1> DEFINE T == {k \in Nat : k <= n /\ k <= m => g[k] = h[k]}
<1>1. 0 \in T
  BY DEF RunsTo
<1>2. ASSUME NEW k \in Nat, k \in T PROVE k + 1 \in T
  <2> SUFFICES ASSUME k + 1 <= n, k + 1 <= m PROVE g[k + 1] = h[k + 1]
    OBVIOUS
  <2>1. g[k] = h[k]
    BY <1>2
  <2>2. k + 1 # 0 /\ (k + 1) - 1 = k /\ k + 1 \in 0 .. n /\ k + 1 \in 0 .. m
    OBVIOUS
  <2>3. g[k + 1] = Up(g[k]) /\ h[k + 1] = Up(h[k])
    BY <2>2 DEF RunsTo
  <2> QED BY <2>1, <2>3
<1> HIDE DEF T
<1>3. \A k \in Nat : k \in T
  BY <1>1, <1>2, Induction
<1> QED BY <1>3 DEF T

LEMMA RunExists ==
  ASSUME NEW x
  PROVE  \E g : g[0] = x /\ \A k \in Nat : g[k + 1] = Up(g[k])
<1> DEFINE Run(k) == CHOOSE g : RunsTo(g, x, k)
           G == [k \in Nat |-> Run(k)[k]]
<1>1. ASSUME NEW k \in Nat PROVE RunsTo(Run(k), x, k)
  BY RunsExist
<1> HIDE DEF Run
<1>2. G[0] = x
  BY <1>1 DEF RunsTo
<1>3. ASSUME NEW k \in Nat PROVE G[k + 1] = Up(G[k])
  <2>1. k + 1 \in Nat /\ k + 1 # 0 /\ (k + 1) - 1 = k /\ k + 1 \in 0 .. k + 1
    OBVIOUS
  <2>2. RunsTo(Run(k), x, k) /\ RunsTo(Run(k + 1), x, k + 1)
    BY <1>1, <2>1
  <2>3. Run(k + 1)[k + 1] = Up(Run(k + 1)[k])
    BY <2>1, <2>2 DEF RunsTo
  <2>4. Run(k + 1)[k] = Run(k)[k]
    BY <2>1, <2>2, RunsAgree
  <2> QED BY <2>1, <2>3, <2>4
<1> HIDE DEF G
<1> QED BY <1>2, <1>3

LEMMA LevelsRecursion ==
  ASSUME NEW leaves
  PROVE  /\ Levels(leaves)[0] = leaves
         /\ \A k \in Nat : Levels(leaves)[k + 1] = Above(Levels(leaves)[k])
<1>1. PICK g : g[0] = <<leaves, 0>> /\ \A k \in Nat : g[k + 1] = Up(g[k])
  BY RunExists
<1> DEFINE G == [k \in Nat |-> g[k][1]]
<1>2. ASSUME NEW k \in Nat PROVE G[k] = IF k = 0 THEN leaves ELSE Above(G[k - 1])
  <2>1. CASE k = 0
    BY <1>1, <2>1
  <2>2. CASE k # 0
    <3>1. k - 1 \in Nat /\ (k - 1) + 1 = k
      BY <2>2
    <3>2. g[k] = Up(g[k - 1])
      BY <1>1, <3>1
    <3> QED BY <2>2, <3>1, <3>2 DEF Up
  <2> QED BY <2>1, <2>2
<1>3. G = [k \in Nat |-> IF k = 0 THEN leaves ELSE Above(G[k - 1])]
  BY <1>2
<1> HIDE DEF G
<1> DEFINE L == CHOOSE f : f = [k \in Nat |-> IF k = 0 THEN leaves ELSE Above(f[k - 1])]
<1>4. L = [k \in Nat |-> IF k = 0 THEN leaves ELSE Above(L[k - 1])]
  BY <1>3
<1>5. Levels(leaves) = L
  BY DEF Levels
<1> HIDE DEF L
<1>6. L[0] = leaves
  BY <1>4
<1>7. ASSUME NEW k \in Nat PROVE L[k + 1] = Above(L[k])
  <2>1. k + 1 \in Nat /\ k + 1 # 0 /\ (k + 1) - 1 = k
    OBVIOUS
  <2> QED BY <1>4, <2>1
<1> QED BY <1>5, <1>6, <1>7

LEMMA PositionRecursion ==
  ASSUME NEW index \in Nat
  PROVE  /\ Position(index)[0] = index
         /\ \A k \in Nat : Position(index)[k + 1] = Position(index)[k] \div 2
         /\ \A k \in Nat : Position(index)[k] \in Nat
<1>1. PICK g : g[0] = <<<<>>, index>> /\ \A k \in Nat : g[k + 1] = Up(g[k])
  BY RunExists
<1> DEFINE G == [k \in Nat |-> g[k][2]]
<1>2. ASSUME NEW k \in Nat PROVE G[k] = IF k = 0 THEN index ELSE G[k - 1] \div 2
  <2>1. CASE k = 0
    BY <1>1, <2>1
  <2>2. CASE k # 0
    <3>1. k - 1 \in Nat /\ (k - 1) + 1 = k
      BY <2>2
    <3>2. g[k] = Up(g[k - 1])
      BY <1>1, <3>1
    <3> QED BY <2>2, <3>1, <3>2 DEF Up
  <2> QED BY <2>1, <2>2
<1>3. G = [k \in Nat |-> IF k = 0 THEN index ELSE G[k - 1] \div 2]
  BY <1>2
<1> HIDE DEF G
<1> DEFINE P == CHOOSE f : f = [k \in Nat |-> IF k = 0 THEN index ELSE f[k - 1] \div 2]
<1>4. P = [k \in Nat |-> IF k = 0 THEN index ELSE P[k - 1] \div 2]
  BY <1>3
<1>5. Position(index) = P
  BY DEF Position
<1> HIDE DEF P
<1>6. P[0] = index
  BY <1>4
<1>7. ASSUME NEW k \in Nat PROVE P[k + 1] = P[k] \div 2
  <2>1. k + 1 \in Nat /\ k + 1 # 0 /\ (k + 1) - 1 = k
    OBVIOUS
  <2> QED BY <1>4, <2>1
<1>8. \A k \in Nat : P[k] \in Nat
  <2> DEFINE T == {k \in Nat : P[k] \in Nat}
  <2>1. 0 \in T /\ \A k \in Nat : k \in T => k + 1 \in T
    BY <1>6, <1>7
  <2> HIDE DEF T
  <2>2. \A k \in Nat : k \in T
    BY <2>1, Induction
  <2> QED BY <2>2 DEF T
<1> QED BY <1>5, <1>6, <1>7, <1>8

-----------------------------------------------------------------------------
(* Levels get shorter up to the root *)

IsLevel(s) == \E T : s \in Seq(T)

LEMMA LevelIsFinite == ASSUME NEW s, IsLevel(s) PROVE Len(s) \in Nat
BY DEF IsLevel

LEMMA LevelIsLonger ==
  ASSUME NEW s, IsLevel(s), Len(s) >= 1, Len(s) # 1 PROVE Len(s) > 1
<1> DEFINE n == Len(s)
<1>1. n \in Nat
  BY LevelIsFinite
<1>2. n >= 1 /\ n # 1
  OBVIOUS
<1> HIDE DEF n
<1>3. n > 1
  BY <1>1, <1>2
<1> QED BY <1>3 DEF n

LEMMA LevelAbove ==
  ASSUME NEW s, IsLevel(s), Len(s) > 1
  PROVE  /\ IsLevel(Above(s))
         /\ Len(Above(s)) = (Len(s) + 1) \div 2
         /\ \A i \in 1 .. Len(Above(s)) : Above(s)[i] = Parent(Padded(s)[2*i - 1], Padded(s)[2*i])
         /\ \A i \in 1 .. Len(s) : Padded(s)[i] = s[i]
<1>1. PICK T : s \in Seq(T)
  BY DEF IsLevel
<1> DEFINE n == Len(s)  p == Padded(s)  m == (n + 1) \div 2
<1>2. n \in Nat /\ s[n] \in T
  BY <1>1
<1>3. p \in Seq(T) /\ Len(p) \div 2 = m /\ \A i \in 1 .. n : p[i] = s[i]
  <2>1. CASE n % 2 = 1
    <3>1. p = Append(s, s[n])
      BY <2>1 DEF Padded
    <3>2. Len(p) = n + 1
      BY <1>1, <1>2, <3>1
    <3> QED BY <1>1, <1>2, <3>1, <3>2
  <2>2. CASE n % 2 # 1
    <3>1. p = s
      BY <2>2 DEF Padded
    <3>2. n \div 2 = (n + 1) \div 2
      BY <1>2, <2>2
    <3> QED BY <1>1, <3>1, <3>2
  <2> QED BY <2>1, <2>2
<1> DEFINE a == [i \in 1 .. m |-> Parent(p[2*i - 1], p[2*i])]
           V == {a[i] : i \in 1 .. m}
<1>4. Above(s) = a
  BY <1>3 DEF Above
<1>5. m \in Nat
  BY <1>2
<1>6. a \in [1 .. m -> V]
  OBVIOUS
<1> HIDE DEF p, m, V
<1>7. \A i \in 1 .. m : a[i] = Parent(p[2*i - 1], p[2*i])
  OBVIOUS
<1> HIDE DEF a
<1>8. a \in Seq(V) /\ Len(a) = m
  BY <1>5, <1>6
<1> QED BY <1>3, <1>4, <1>7, <1>8 DEF IsLevel, p, m

\* below the root every level is a sequence, shorter than the one before
LEMMA LevelLength ==
  ASSUME NEW leaves, IsLevel(leaves), Len(leaves) >= 1
  PROVE  \A k \in Nat :
           (\A j \in 0 .. k - 1 : Len(Levels(leaves)[j]) # 1) =>
             /\ IsLevel(Levels(leaves)[k])
             /\ Len(Levels(leaves)[k]) >= 1
             /\ Len(Levels(leaves)[k]) + k <= Len(leaves)
<1> DEFINE L == Levels(leaves)
           Below(k) == \A j \in 0 .. k - 1 : Len(L[j]) # 1
           Shorter(k) == IsLevel(L[k]) /\ Len(L[k]) >= 1 /\ Len(L[k]) + k <= Len(leaves)
           T == {k \in Nat : Below(k) => Shorter(k)}
<1>1. L[0] = leaves /\ \A k \in Nat : L[k + 1] = Above(L[k])
  BY LevelsRecursion
<1>2. Len(leaves) \in Nat
  BY LevelIsFinite
<1> HIDE DEF L
<1>3. 0 \in T
  BY <1>1, <1>2
<1>4. ASSUME NEW k \in Nat, k \in T PROVE k + 1 \in T
  <2> SUFFICES ASSUME Below(k + 1) PROVE Shorter(k + 1)
    <3> HIDE DEF Below, Shorter
    <3> QED OBVIOUS
  <2>1. Below(k) /\ Len(L[k]) # 1
    OBVIOUS
  <2>2. Shorter(k)
    <3> HIDE DEF Below, Shorter
    <3> QED BY <1>4, <2>1
  <2> DEFINE n == Len(L[k])
  <2>3. n \in Nat
    BY <2>2, LevelIsFinite
  <2>4. n > 1 /\ n + k <= Len(leaves)
    <3> HIDE DEF L
    <3> QED BY <2>1, <2>2, LevelIsLonger
  <2>5. IsLevel(L[k + 1]) /\ Len(L[k + 1]) = (n + 1) \div 2
    BY <1>1, <2>2, <2>4, LevelAbove
  <2> HIDE DEF n
  <2>6. (n + 1) \div 2 >= 1 /\ (n + 1) \div 2 <= n - 1
    BY <2>3, <2>4
  <2>7. (n + 1) \div 2 + (k + 1) <= Len(leaves)
    BY <1>2, <2>3, <2>4, <2>6
  <2> QED BY <2>5, <2>6, <2>7
<1> HIDE DEF T
<1>5. \A k \in Nat : k \in T
  BY <1>3, <1>4, Induction
<1> QED BY <1>5 DEF T, L

LEMMA DepthExists ==
  ASSUME NEW leaves, IsLevel(leaves), Len(leaves) >= 1
  PROVE  /\ Depth(leaves) \in Nat
         /\ Len(Levels(leaves)[Depth(leaves)]) = 1
         /\ \A j \in 0 .. Depth(leaves) - 1 : Len(Levels(leaves)[j]) # 1
<1> DEFINE L == Levels(leaves)
           N == {k \in 0 .. Len(leaves) : Len(L[k]) = 1}
<1>1. Len(leaves) \in Nat
  BY DEF IsLevel
<1>2. N # {}
  <2> SUFFICES ASSUME N = {} PROVE FALSE
    OBVIOUS
  <2>1. \A j \in 0 .. Len(leaves) - 1 : Len(L[j]) # 1
    BY <1>1
  <2> HIDE DEF L, N
  <2>2. Len(L[Len(leaves)]) >= 1 /\ Len(L[Len(leaves)]) + Len(leaves) <= Len(leaves)
        /\ IsLevel(L[Len(leaves)])
    BY <1>1, <2>1, LevelLength DEF L
  <2>3. Len(L[Len(leaves)]) \in Nat
    BY <2>2 DEF IsLevel
  <2> QED BY <1>1, <2>2, <2>3
<1>3. PICK k \in N : \A j \in N : k <= j
  <2>1. N \in SUBSET Nat
    BY <1>1
  <2> HIDE DEF N
  <2> QED BY <1>2, <2>1, LeastNatural
<1>4. k \in 0 .. Len(leaves) /\ Len(L[k]) = 1 /\ \A j \in 0 .. k - 1 : Len(L[j]) # 1
  BY <1>1, <1>3
<1> HIDE DEF L, N
<1>5. /\ Depth(leaves) \in 0 .. Len(leaves) /\ Len(L[Depth(leaves)]) = 1
      /\ \A j \in 0 .. Depth(leaves) - 1 : Len(L[j]) # 1
  BY <1>4 DEF Depth, L
<1> QED BY <1>1, <1>5 DEF L

-----------------------------------------------------------------------------
(* The verification follows the ancestors of the leaf *)

\* one level: the parent of a node and its sibling is the node above
LEMMA OneLevelUp ==
  ASSUME NEW s, IsLevel(s), Len(s) > 1, NEW at \in 0 .. Len(s) - 1
  PROVE  /\ at \div 2 \in 0 .. Len(Above(s)) - 1
         /\ LET sibling == Padded(s)[SiblingOf(at) + 1] IN
            Above(s)[(at \div 2) + 1] =
              IF at % 2 = 0 THEN Parent(s[at + 1], sibling) ELSE Parent(sibling, s[at + 1])
<1> DEFINE i == (at \div 2) + 1  a == Above(s)  p == Padded(s)
<1>1. Len(s) \in Nat /\ at \in Nat
  BY DEF IsLevel
<1>2. Len(a) = (Len(s) + 1) \div 2 /\ p[at + 1] = s[at + 1]
  <2>1. at + 1 \in 1 .. Len(s)
    BY <1>1
  <2> HIDE DEF a, p
  <2> QED BY <2>1, LevelAbove DEF a, p
<1>3. i \in 1 .. Len(a)
  BY <1>1, <1>2
<1>4. a[i] = Parent(p[2*i - 1], p[2*i])
  BY <1>3, LevelAbove
<1> HIDE DEF a, p
<1>5. CASE at % 2 = 0
  <2>1. 2*i - 1 = at + 1 /\ 2*i = SiblingOf(at) + 1
    BY <1>1, <1>5 DEF SiblingOf
  <2> QED BY <1>2, <1>3, <1>4, <1>5, <2>1 DEF a, p
<1>6. CASE at % 2 # 0
  <2>1. 2*i = at + 1 /\ 2*i - 1 = SiblingOf(at) + 1
    BY <1>1, <1>6 DEF SiblingOf
  <2> QED BY <1>2, <1>3, <1>4, <1>6, <2>1 DEF a, p
<1> QED BY <1>5, <1>6

LEMMA Ancestors ==
  ASSUME NEW leaves, IsLevel(leaves), Len(leaves) >= 1, NEW index \in 0 .. Len(leaves) - 1
  PROVE  \A k \in Nat : k <= Depth(leaves) =>
           Position(index)[k] \in 0 .. Len(Levels(leaves)[k]) - 1
<1> DEFINE L == Levels(leaves)  P == Position(index)  D == Depth(leaves)
           T == {k \in Nat : k <= D => P[k] \in 0 .. Len(L[k]) - 1}
<1>1. index \in Nat /\ Len(leaves) \in Nat
  BY DEF IsLevel
<1>2. L[0] = leaves /\ \A k \in Nat : L[k + 1] = Above(L[k])
  BY LevelsRecursion
<1>3. P[0] = index /\ \A k \in Nat : P[k + 1] = P[k] \div 2
  BY <1>1, PositionRecursion
<1>4. D \in Nat /\ \A j \in 0 .. D - 1 : Len(L[j]) # 1
  BY DepthExists
<1>5. ASSUME NEW k \in Nat, k <= D PROVE IsLevel(L[k]) /\ Len(L[k]) >= 1
  <2>1. \A j \in 0 .. k - 1 : Len(L[j]) # 1
    BY <1>4, <1>5
  <2> HIDE DEF D
  <2> QED BY <2>1, LevelLength
<1> HIDE DEF L, P, D
<1>6. 0 \in T
  BY <1>2, <1>3
<1>7. ASSUME NEW k \in Nat, k \in T PROVE k + 1 \in T
  <2> SUFFICES ASSUME k + 1 <= D PROVE P[k + 1] \in 0 .. Len(L[k + 1]) - 1
    OBVIOUS
  <2>1. k <= D /\ k \in 0 .. D - 1
    BY <1>4
  <2>2. P[k] \in 0 .. Len(L[k]) - 1 /\ IsLevel(L[k]) /\ Len(L[k]) >= 1 /\ Len(L[k]) # 1
    BY <1>4, <1>5, <1>7, <2>1
  <2>3. Len(L[k]) > 1
    BY <2>2, LevelIsLonger
  <2> QED BY <1>2, <1>3, <2>2, <2>3, OneLevelUp
<1> HIDE DEF T
<1>8. \A k \in Nat : k \in T
  BY <1>6, <1>7, Induction
<1> QED BY <1>8 DEF T, L, P, D

(* The siblings of a leaf lead a verification from the leaf to the root,   *)
(* for every number of leaves and every position.                          *)
THEOREM SiblingsVerify ==
  ASSUME NEW S, NEW leaves \in Seq(S), NEW index \in 0 .. Len(leaves) - 1
  PROVE  Verifies(leaves[index + 1], MerkleRoot(leaves), index, Siblings(leaves, index))
<1> DEFINE L == Levels(leaves)  P == Position(index)  D == Depth(leaves)
           path == Siblings(leaves, index)
           txid == leaves[index + 1]
<1>1. IsLevel(leaves) /\ Len(leaves) >= 1 /\ index \in Nat
  BY DEF IsLevel
<1>2. L[0] = leaves /\ \A k \in Nat : L[k + 1] = Above(L[k])
  BY LevelsRecursion
<1>3. P[0] = index /\ \A k \in Nat : P[k + 1] = P[k] \div 2
  BY <1>1, PositionRecursion
<1>4. D \in Nat /\ Len(L[D]) = 1 /\ \A j \in 0 .. D - 1 : Len(L[j]) # 1
  BY <1>1, DepthExists
<1>5. \A k \in Nat : k <= D => P[k] \in 0 .. Len(L[k]) - 1
  BY <1>1, Ancestors
<1>6. ASSUME NEW k \in 0 .. D PROVE IsLevel(L[k]) /\ Len(L[k]) >= 1
  <2>1. k \in Nat /\ \A j \in 0 .. k - 1 : Len(L[j]) # 1
    BY <1>4
  <2> HIDE DEF D
  <2> QED BY <1>1, <2>1, LevelLength
<1>7. path = [k \in 1 .. D |-> Padded(L[k - 1])[SiblingOf(P[k - 1]) + 1]]
  BY DEF Siblings
<1> HIDE DEF L, P, D, path
<1>8. Len(path) = D
  <2> DEFINE f(k) == Padded(L[k - 1])[SiblingOf(P[k - 1]) + 1]
             V == {f(k) : k \in 1 .. D}
  <2>1. path \in [1 .. D -> V]
    BY <1>7
  <2> HIDE DEF V
  <2> QED BY <1>4, <2>1
\* the node a verification reaches on level k
<1> DEFINE N == [k \in 0 .. D |-> L[k][P[k] + 1]]
<1>9. ASSUME NEW k \in 0 .. D
      PROVE  N[k] = IF k = 0 THEN txid
                    ELSE IF P[k - 1] % 2 = 0 THEN Parent(N[k - 1], path[k])
                         ELSE Parent(path[k], N[k - 1])
  <2>1. CASE k = 0
    BY <1>2, <1>3, <1>4, <2>1
  <2>2. CASE k # 0
    <3> DEFINE j == k - 1
    <3>1. j \in Nat /\ j \in 0 .. D - 1 /\ j \in 0 .. D /\ j + 1 = k /\ k \in 1 .. D
      BY <1>4, <2>2
    <3>2. IsLevel(L[j]) /\ Len(L[j]) >= 1 /\ Len(L[j]) # 1 /\ P[j] \in 0 .. Len(L[j]) - 1
      BY <1>4, <1>5, <1>6, <3>1
    <3>3. Len(L[j]) > 1
      <4> HIDE DEF j
      <4> QED BY <3>2, LevelIsLonger
    <3>4. L[k] = Above(L[j]) /\ P[k] = P[j] \div 2
      BY <1>2, <1>3, <3>1
    <3>5. path[k] = Padded(L[j])[SiblingOf(P[j]) + 1]
      BY <1>7, <3>1
    <3>6. N[k] = L[k][P[k] + 1] /\ N[j] = L[j][P[j] + 1]
      BY <3>1
    <3> HIDE DEF N, j
    <3>7. L[k][P[k] + 1] = IF P[j] % 2 = 0 THEN Parent(L[j][P[j] + 1], path[k])
                           ELSE Parent(path[k], L[j][P[j] + 1])
      BY <3>2, <3>3, <3>4, <3>5, OneLevelUp
    <3> QED BY <2>2, <3>6, <3>7 DEF j
  <2> QED BY <2>1, <2>2
<1>10. N = [k \in 0 .. D |-> IF k = 0 THEN txid
              ELSE IF P[k - 1] % 2 = 0 THEN Parent(N[k - 1], path[k])
                   ELSE Parent(path[k], N[k - 1])]
  BY <1>9
<1>11. N[0] = txid /\ N[D] = MerkleRoot(leaves)
  <2>1. P[D] = 0
    <3>1. D <= D
      BY <1>4
    <3>2. P[D] \in 0 .. Len(L[D]) - 1
      BY <1>4, <1>5, <3>1, Zenon
    <3>3. P[D] \in 0 .. 1 - 1
      BY <1>4, <3>2, Zenon
    <3> QED BY <3>3
  <2>2. 0 \in 0 .. D /\ D \in 0 .. D
    BY <1>4
  <2>3. MerkleRoot(leaves) = L[D][1]
    BY DEF MerkleRoot, L, D
  <2>4. N[0] = L[0][P[0] + 1] /\ N[D] = L[D][P[D] + 1]
    BY <2>2
  <2>5. N[0] = txid
    BY <1>2, <1>3, <2>4
  <2>6. N[D] = L[D][1]
    BY <2>1, <2>4
  <2> QED BY <2>3, <2>5, <2>6
<1> HIDE DEF N
<1> DEFINE M == CHOOSE g : g = [k \in 0 .. D |-> IF k = 0 THEN txid
                  ELSE IF P[k - 1] % 2 = 0 THEN Parent(g[k - 1], path[k])
                       ELSE Parent(path[k], g[k - 1])]
<1>12. M = [k \in 0 .. D |-> IF k = 0 THEN txid
              ELSE IF P[k - 1] % 2 = 0 THEN Parent(M[k - 1], path[k])
                   ELSE Parent(path[k], M[k - 1])]
  BY <1>10
<1>13. Verifies(txid, MerkleRoot(leaves), index, path) <=> M[D] = MerkleRoot(leaves)
  BY <1>8 DEF Verifies, P
<1> HIDE DEF M
<1>14. \A k \in Nat : k <= D => M[k] = N[k]
  <2> DEFINE T == {k \in Nat : k <= D => M[k] = N[k]}
  <2>1. 0 \in T
    BY <1>4, <1>11, <1>12
  <2>2. ASSUME NEW k \in Nat, k \in T PROVE k + 1 \in T
    <3> SUFFICES ASSUME k + 1 <= D PROVE M[k + 1] = N[k + 1]
      OBVIOUS
    <3>1. M[k] = N[k] /\ k + 1 \in 0 .. D /\ k + 1 # 0 /\ (k + 1) - 1 = k
      BY <1>4, <2>2
    <3> QED BY <1>9, <1>12, <3>1
  <2> HIDE DEF T
  <2>3. \A k \in Nat : k \in T
    BY <2>1, <2>2, Induction
  <2> QED BY <2>3 DEF T
<1>15. M[D] = N[D]
  BY <1>4, <1>14
<1> QED BY <1>11, <1>13, <1>15 DEF path

(* GenerateSPVProof of a transaction in the block gives a proof that       *)
(* VerifyRawProof accepts.                                                 *)
LEMMA SpvProofVerifies ==
  ASSUME NEW S, NEW leaves \in Seq(S), NEW txid, \E i \in DOMAIN leaves : leaves[i] = txid
  PROVE  LET proof == SpvProof(txid, leaves) IN
         Verifies(txid, proof.root, proof.index, proof.path)
<1> DEFINE i == CHOOSE i \in DOMAIN leaves : leaves[i] = txid
<1>1. i \in DOMAIN leaves /\ leaves[i] = txid
  OBVIOUS
<1> HIDE DEF i
<1>2. i - 1 \in 0 .. Len(leaves) - 1 /\ (i - 1) + 1 = i
  BY <1>1
<1>3. Verifies(txid, MerkleRoot(leaves), i - 1, Siblings(leaves, i - 1))
  BY <1>1, <1>2, SiblingsVerify
<1>4. SpvProof(txid, leaves) =
        [root |-> MerkleRoot(leaves), path |-> Siblings(leaves, i - 1), index |-> i - 1]
  BY DEF SpvProof, i
<1> QED BY <1>3, <1>4
=============================================================================
