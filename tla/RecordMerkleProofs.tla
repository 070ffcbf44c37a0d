------------------------- MODULE RecordMerkleProofs -------------------------
(***************************************************************************)
(* The record Merkle tree and its inclusion proofs, for every number of    *)
(* records and every length of an audit path.                              *)
(*                                                                         *)
(* The loops go level by level; RFC 6962 defines the tree by recursion.    *)
(* Both are compared block by block: at a level whose nodes stand for w    *)
(* records each, w a power of two, node i stands for block i of that       *)
(* width.  The loops of the producer are always there (BuiltTo).  What the *)
(* verifier has folded is the tree hash of its block exactly if the        *)
(* record and the siblings were the right ones (FoldedTo); as it does not  *)
(* know how many siblings are still to come, the invariant also says what  *)
(* a value can never be: it is no tree hash of a smaller block (NoBlock),  *)
(* at the right edge no tree hash of a later end of the list (NoTail), and *)
(* after a fold at the root none of any (Overrun).                         *)
(*                                                                         *)
(* Definitions by recursion are shown to satisfy their equations first,    *)
(* and induction is over sets of natural numbers: the smallest number that *)
(* is not in the set is a counterexample with none below it.               *)
(***************************************************************************)
EXTENDS RecordMerkle, SequenceTheorems, WellFoundedInduction, TLAPS

(* Induction on natural numbers, for a set of them. *)

\* A set that has each number all smaller numbers of which it has is Nat.
LEMMA StrongInduction ==
  ASSUME NEW T \in SUBSET Nat, \A k \in Nat : (\A j \in Nat : j < k => j \in T) => k \in T
  PROVE  T = Nat
<1> DEFINE R == OpToRel(<, Nat)
<1> SUFFICES ASSUME T # Nat PROVE FALSE
  OBVIOUS
<1>1. Nat \ T # {} /\ Nat \ T \subseteq Nat
  OBVIOUS
<1>2. PICK m \in Nat \ T : \A y \in Nat \ T : ~(<<y, m>> \in R)
  <2>1. IsWellFoundedOn(R, Nat)
    BY NatLessThanWellFounded, Zenon
  <2> HIDE DEF R
  <2> QED BY <1>1, <2>1, WFMin
<1>3. \A y \in Nat : y < m => <<y, m>> \in R
  BY Zenon DEF OpToRel
<1> QED BY <1>2, <1>3, Zenon
-----------------------------------------------------------------------------
(* The recursive definitions satisfy their equations.  For each of them, a   *)
(* function that does so below a bound is extended to the next argument.     *)

\* The functions that double from each number below N to the next.
PowerBelow(N) ==
  {g \in [Nat -> Nat] : \A k \in Nat : k < N => g[k] = IF k = 0 THEN 1 ELSE 2 * g[k - 1]}

LEMMA PowerExists == \A N \in Nat : PowerBelow(N) # {}
<1> DEFINE T == {N \in Nat : PowerBelow(N) # {}}
<1>1. ASSUME NEW N \in Nat, \A j \in Nat : j < N => j \in T
      PROVE  N \in T
  <2>1. CASE N = 0
    <3>1. [k \in Nat |-> 0] \in PowerBelow(N)
      BY <2>1 DEF PowerBelow
    <3> QED BY <3>1
  <2>2. CASE N # 0
    <3>1. PICK g \in PowerBelow(N - 1) : TRUE
      BY <1>1, <2>2
    <3> DEFINE h == [k \in Nat |-> IF k = N - 1 THEN IF k = 0 THEN 1 ELSE 2 * g[k - 1] ELSE g[k]]
    <3>2. h \in [Nat -> Nat]
      BY <3>1 DEF PowerBelow
    <3>3. ASSUME NEW k \in Nat, k < N
          PROVE  h[k] = IF k = 0 THEN 1 ELSE 2 * h[k - 1]
      BY <3>1, <3>3, <2>2 DEF PowerBelow
    <3>4. h \in PowerBelow(N)
      <4> HIDE DEF h
      <4> QED BY <3>2, <3>3 DEF PowerBelow
    <3> QED BY <3>4
  <2> QED BY <2>1, <2>2
<1> HIDE DEF T
<1>2. T = Nat
  BY <1>1, StrongInduction DEF T
<1> QED BY <1>2 DEF T

LEMMA PowerUnique ==
  ASSUME NEW N \in Nat, NEW M \in Nat, N <= M, NEW g \in PowerBelow(N), NEW h \in PowerBelow(M)
  PROVE  \A k \in Nat : k < N => g[k] = h[k]
<1> DEFINE T == {k \in Nat : k < N => g[k] = h[k]}
<1>1. ASSUME NEW k \in Nat, \A j \in Nat : j < k => j \in T
      PROVE  k \in T
  <2>1. SUFFICES ASSUME k < N PROVE g[k] = h[k]
    OBVIOUS
  <2>2. CASE k = 0
    BY <2>1, <2>2 DEF PowerBelow
  <2>3. CASE k # 0
    <3>1. g[k - 1] = h[k - 1]
      BY <1>1, <2>1, <2>3
    <3> QED BY <2>1, <2>3, <3>1 DEF PowerBelow
  <2> QED BY <2>2, <2>3
<1>2. T \in SUBSET Nat
  OBVIOUS
<1> HIDE DEF T
<1>3. T = Nat
  BY <1>1, <1>2, StrongInduction
<1> QED BY <1>3 DEF T

LEMMA PowerEquation ==
  /\ Power \in [Nat -> Nat]
  /\ \A k \in Nat : Power[k] = IF k = 0 THEN 1 ELSE 2 * Power[k - 1]
<1> DEFINE E(f) == [k \in Nat |-> IF k = 0 THEN 1 ELSE 2 * f[k - 1]]
           G(N) == CHOOSE g : g \in PowerBelow(N)
           f == [k \in Nat |-> G(k + 1)[k]]
<1>1. \A N \in Nat : G(N) \in PowerBelow(N)
  BY PowerExists
<1>2. \A N \in Nat, M \in Nat : N <= M => \A k \in Nat : k < N => G(N)[k] = G(M)[k]
  <2> HIDE DEF G
  <2> QED BY <1>1, PowerUnique
<1> HIDE DEF G
<1>3. f = E(f)
  <2>1. ASSUME NEW k \in Nat
        PROVE  f[k] = E(f)[k]
    <3>0. k + 1 \in Nat /\ k < k + 1 /\ G(k + 1) \in PowerBelow(k + 1)
      BY <1>1
    <3>1. CASE k = 0
      <4>1. G(k + 1)[k] = 1
        BY <3>0, <3>1 DEF PowerBelow
      <4> QED BY <3>1, <4>1
    <3>2. CASE k # 0
      <4>1. G(k + 1)[k] = 2 * G(k + 1)[k - 1]
        BY <3>0, <3>2 DEF PowerBelow
      <4>2. G(k + 1)[k - 1] = G(k)[k - 1]
        BY <1>2, <3>2
      <4>3. f[k - 1] = G(k)[k - 1]
        BY <3>2
      <4> QED BY <3>2, <4>1, <4>2, <4>3
    <3> QED BY <3>1, <3>2
  <2> QED BY <2>1
<1> HIDE DEF f
<1>4. Power = E(Power)
  <2>1. \E g : g = E(g)
    BY <1>3
  <2> QED BY <2>1 DEF Power
<1> DEFINE T == {k \in Nat : Power[k] \in Nat}
<1>5. ASSUME NEW k \in Nat, \A j \in Nat : j < k => j \in T
      PROVE  k \in T
  <2>1. Power[k] = IF k = 0 THEN 1 ELSE 2 * Power[k - 1]
    BY <1>4
  <2>2. CASE k # 0
    BY <1>5, <2>1, <2>2
  <2> QED BY <2>1, <2>2
<1> HIDE DEF T
<1>6. T = Nat
  BY <1>5, StrongInduction DEF T
<1>7. Power \in [Nat -> Nat]
  <2>1. \A k \in Nat : Power[k] \in Nat
    BY <1>6 DEF T
  <2>2. Power = [k \in Nat |-> Power[k]]
    BY <1>4
  <2> QED BY <2>1, <2>2
<1>8. \A k \in Nat : Power[k] = IF k = 0 THEN 1 ELSE 2 * Power[k - 1]
  BY <1>4
<1> QED BY <1>7, <1>8
-----------------------------------------------------------------------------
(* Powers of two. *)

Powers == {Power[k] : k \in Nat}

\* Power[k] exceeds k, so SplitAt looks at enough powers.
LEMMA PowerAbove == \A k \in Nat : Power[k] \in Nat /\ Power[k] > k
<1> DEFINE T == {k \in Nat : Power[k] > k}
<1>1. ASSUME NEW k \in Nat, \A j \in Nat : j < k => j \in T
      PROVE  k \in T
  <2>1. Power[k] = IF k = 0 THEN 1 ELSE 2 * Power[k - 1]
    BY PowerEquation
  <2>2. CASE k # 0
    <3>1. Power[k - 1] \in Nat /\ Power[k - 1] > k - 1
      BY <1>1, <2>2, PowerEquation
    <3> QED BY <2>1, <2>2, <3>1
  <2> QED BY <2>1, <2>2
<1> HIDE DEF T
<1>2. T = Nat
  BY <1>1, StrongInduction DEF T
<1> QED BY <1>2, PowerEquation DEF T

\* Powers of two are positive, closed under doubling, and all but 1 are doubled ones.
LEMMA PowerFacts ==
  /\ 1 \in Powers /\ Powers \subseteq Nat \ {0}
  /\ \A p \in Powers : 2 * p \in Powers
  /\ \A p \in Powers : p = 1 \/ \E r \in Powers : p = 2 * r
<1>1. Powers \subseteq Nat \ {0}
  BY PowerAbove DEF Powers
<1>2. 1 \in Powers
  BY PowerEquation DEF Powers
<1>3. ASSUME NEW p \in Powers
      PROVE  2 * p \in Powers
  <2>1. PICK k \in Nat : p = Power[k]
    BY DEF Powers
  <2>2. Power[k + 1] = 2 * Power[k]
    BY PowerEquation
  <2> QED BY <2>1, <2>2 DEF Powers
<1>4. ASSUME NEW p \in Powers, p # 1
      PROVE  \E r \in Powers : p = 2 * r
  <2>1. PICK k \in Nat : p = Power[k]
    BY DEF Powers
  <2>2. k # 0 /\ Power[k] = 2 * Power[k - 1]
    BY <1>4, <2>1, PowerEquation
  <2> QED BY <2>1, <2>2 DEF Powers
<1> QED BY <1>1, <1>2, <1>3, <1>4

\* A power of two divides every larger one.
LEMMA PowerDivides ==
  ASSUME NEW p \in Powers, NEW q \in Powers, p < q
  PROVE  \E c \in Nat \ {0} : q = p * (2 * c)
<1> DEFINE T == {b \in Nat : b \in Powers => \A a \in Powers : a < b => \E c \in Nat \ {0} : b = a * (2 * c)}
<1>1. ASSUME NEW b \in Nat, \A j \in Nat : j < b => j \in T
      PROVE  b \in T
  <2> SUFFICES ASSUME b \in Powers, NEW a \in Powers, a < b
               PROVE  \E c \in Nat \ {0} : b = a * (2 * c)
    OBVIOUS
  <2>1. a \in Nat \ {0} /\ b # 1
    BY PowerFacts
  <2>2. PICK r \in Powers : b = 2 * r
    BY <2>1, PowerFacts
  <2>3. r \in Nat \ {0} /\ r < b
    BY <2>2, PowerFacts
  <2>4. CASE a = r
    <3>1. b = a * (2 * 1)
      BY <2>1, <2>2, <2>4
    <3> QED BY <3>1
  <2>5. CASE a < r
    <3>1. PICK c \in Nat \ {0} : r = a * (2 * c)
      BY <1>1, <2>3, <2>5
    <3>2. 2 * c \in Nat \ {0} /\ b = a * (2 * (2 * c))
      BY <2>1, <2>2, <3>1
    <3> QED BY <3>2
  <2>6. CASE a > r
    <3>1. PICK s \in Powers : a = 2 * s
      BY <2>3, <2>6, PowerFacts
    <3>2. s \in Nat \ {0} /\ s < r
      BY <2>1, <2>2, <3>1, PowerFacts
    <3>3. PICK c \in Nat \ {0} : r = s * (2 * c)
      BY <1>1, <2>3, <3>2
    <3>4. s * c >= s /\ r = 2 * (s * c)
      BY <3>2, <3>3
    <3> QED BY <2>6, <3>1, <3>2, <3>4
  <2> QED BY <2>1, <2>3, <2>4, <2>5, <2>6
<1> HIDE DEF T
<1>2. T = Nat
  BY <1>1, StrongInduction DEF T
<1>3. q \in T
  BY <1>2, PowerFacts
<1> QED BY <1>3 DEF T

\* There is no power of two between one and its double.
LEMMA PowerGap ==
  ASSUME NEW p \in Powers, NEW q \in Powers, p < q
  PROVE  2 * p <= q
<1>1. PICK c \in Nat \ {0} : q = p * (2 * c)
  BY PowerDivides
<1>2. p \in Nat /\ q = 2 * (p * c) /\ p * c >= p
  BY <1>1, PowerFacts
<1> QED BY <1>2

\* SplitAt[m] is the largest power of two below m.
\* Every number from 2 on has a largest power of two below it.
LEMMA SplitExists == \A m \in Nat : m >= 2 => \E p \in Powers : p < m /\ m <= 2 * p
<1> DEFINE T == {m \in Nat : m >= 2 => \E p \in Powers : p < m /\ m <= 2 * p}
<1>1. ASSUME NEW m \in Nat, \A j \in Nat : j < m => j \in T
      PROVE  m \in T
  <2>1. SUFFICES ASSUME m >= 2 PROVE \E p \in Powers : p < m /\ m <= 2 * p
    OBVIOUS
  <2>2. CASE m = 2
    BY <2>2, PowerFacts
  <2>3. CASE m > 2
    <3>1. PICK p \in Powers : p < m - 1 /\ m - 1 <= 2 * p
      BY <1>1, <2>3
    <3>2. p \in Nat /\ 2 * p \in Powers
      BY PowerFacts
    <3>3. m <= 2 * p \/ (2 * p < m /\ m <= 2 * (2 * p))
      BY <2>3, <3>1, <3>2
    <3> QED BY <3>1, <3>2, <3>3
  <2> QED BY <2>1, <2>2, <2>3
<1> HIDE DEF T
<1>2. T = Nat
  BY <1>1, StrongInduction DEF T
<1> QED BY <1>2 DEF T

LEMMA SplitDef ==
  ASSUME NEW m \in 2..MaxRecords
  PROVE  SplitAt[m] \in Powers /\ SplitAt[m] < m /\ m <= 2 * SplitAt[m]
<1>0. m \in Nat /\ m >= 2
  BY BoundsAssumption
<1>1. PICK p \in Powers : p < m /\ m <= 2 * p
  BY <1>0, SplitExists
<1>2. PICK k \in Nat : p = Power[k]
  BY DEF Powers
<1>3. k \in 0..m
  BY <1>0, <1>1, <1>2, PowerAbove
<1>4. \E x \in {Power[j] : j \in 0..m} : x < m /\ m <= 2 * x
  BY <1>1, <1>2, <1>3
<1>5. /\ SplitAt[m] \in {Power[j] : j \in 0..m}
      /\ SplitAt[m] < m /\ m <= 2 * SplitAt[m]
  BY <1>4 DEF SplitAt
<1> QED BY <1>5 DEF Powers

\* ... and there is no other power of two with that property.
LEMMA SplitUnique ==
  ASSUME NEW m \in 2..MaxRecords, NEW p \in Powers, p < m, m <= 2 * p
  PROVE  SplitAt[m] = p
<1>1. p \in Nat \ {0} /\ m \in Nat
  BY PowerFacts, BoundsAssumption
<1>2. SplitAt[m] \in Powers /\ SplitAt[m] < m /\ m <= 2 * SplitAt[m]
  BY <1>1, SplitDef
<1>3. SplitAt[m] \in Nat
  BY <1>2, PowerFacts
<1>4. ~(p < SplitAt[m]) /\ ~(SplitAt[m] < p)
  BY <1>1, <1>2, <1>3, PowerGap
<1> QED BY <1>1, <1>3, <1>4
-----------------------------------------------------------------------------
SplitFrom(lo, hi) == lo + SplitAt[hi - lo + 1]

\* Both parts of a split are proper.
LEMMA SplitInside ==
  ASSUME NEW lo \in 1..MaxRecords, NEW hi \in 1..MaxRecords, lo < hi
  PROVE  SplitFrom(lo, hi) \in (lo + 1)..hi
<1>1. hi - lo + 1 \in 2..MaxRecords /\ lo \in Nat /\ hi \in Nat
  BY BoundsAssumption
<1>2. SplitAt[hi - lo + 1] \in Nat \ {0} /\ SplitAt[hi - lo + 1] < hi - lo + 1
  BY <1>1, SplitDef, PowerFacts
<1> QED BY <1>2 DEF SplitFrom

BlocksBelow(N) == {b \in Blocks : b[2] - b[1] < N}

\* The two parts of a block are blocks.
LEMMA BlockFacts ==
  ASSUME NEW b \in Blocks
  PROVE  /\ b[1] \in 1..MaxRecords /\ b[2] \in 1..MaxRecords /\ b = <<b[1], b[2]>>
         /\ b[1] < b[2] =>
              LET m == SplitFrom(b[1], b[2]) IN
              /\ m \in (b[1] + 1)..b[2]
              /\ <<b[1], m - 1>> \in Blocks /\ <<m, b[2]>> \in Blocks
<1>1. b[1] \in 1..MaxRecords /\ b[2] \in 1..MaxRecords /\ b = <<b[1], b[2]>>
  BY DEF Blocks
<1>2. ASSUME b[1] < b[2], NEW m \in (b[1] + 1)..b[2]
      PROVE  <<b[1], m - 1>> \in Blocks /\ <<m, b[2]>> \in Blocks
  BY <1>1, <1>2, BoundsAssumption DEF Blocks
<1>3. b[1] \in Nat /\ b[2] \in Nat
  BY <1>1, BoundsAssumption
<1> QED BY <1>1, <1>2, <1>3, SplitInside

LEMMA BelowFacts ==
  /\ \A b \in Blocks : b[1] \in Nat \ {0} /\ b[2] \in Nat \ {0}
  /\ \A N \in Nat : \A b \in BlocksBelow(N) : b \in Blocks /\ b[2] - b[1] < N
  /\ BlocksBelow(MaxRecords) = Blocks
<1>1. \A b \in Blocks : b[1] \in 1..MaxRecords /\ b[2] \in 1..MaxRecords
  BY DEF Blocks
<1>2. \A b \in Blocks : b[2] - b[1] < MaxRecords
  BY <1>1, BoundsAssumption
<1> QED BY <1>1, <1>2, BoundsAssumption DEF BlocksBelow

\* The right-hand side of TreeHash.
TreeStep(g, b) ==
  IF b[2] <= b[1] THEN hash_leaf(b[1])
  ELSE hash_node(g[<<b[1], SplitFrom(b[1], b[2]) - 1>>], g[<<SplitFrom(b[1], b[2]), b[2]>>])

TreeBelow(g, N) ==
  g = [b \in Blocks |-> g[b]] /\ \A b \in BlocksBelow(N) : g[b] = TreeStep(g, b)

LEMMA TreeExists == \A N \in Nat : \E g : TreeBelow(g, N)
<1> DEFINE T == {N \in Nat : \E g : TreeBelow(g, N)}
<1>1. ASSUME NEW N \in Nat, \A j \in Nat : j < N => j \in T
      PROVE  N \in T
  <2>1. CASE N = 0
    <3> DEFINE h == [b \in Blocks |-> hash_leaf(b[1])]
    <3>1. ASSUME NEW b \in BlocksBelow(N)
          PROVE  h[b] = TreeStep(h, b)
      <4>1. b \in Blocks /\ b[2] <= b[1]
        BY <2>1, <3>1, BelowFacts
      <4> QED BY <4>1 DEF TreeStep
    <3>2. TreeBelow(h, N)
      BY <3>1 DEF TreeBelow
    <3> QED BY <3>2
  <2>2. CASE N # 0
    <3>1. PICK g : TreeBelow(g, N - 1)
      BY <1>1, <2>2
    <3> DEFINE h == [b \in Blocks |-> IF b[2] - b[1] = N - 1 THEN TreeStep(g, b) ELSE g[b]]
    <3>2. ASSUME NEW b \in BlocksBelow(N)
          PROVE  h[b] = TreeStep(h, b)
      <4>1. b \in Blocks /\ b[1] \in Int /\ b[2] \in Int /\ b[2] - b[1] < N
        BY BelowFacts
      <4>2. h[b] = TreeStep(g, b)
        BY <2>2, <3>1, <4>1 DEF TreeBelow, BlocksBelow
      <4>3. CASE b[2] <= b[1]
        BY <4>2, <4>3 DEF TreeStep
      <4>4. CASE b[1] < b[2]
        <5> DEFINE m == SplitFrom(b[1], b[2])
                   l == <<b[1], m - 1>>
                   r == <<m, b[2]>>
        <5>1. m \in (b[1] + 1)..b[2] /\ l \in Blocks /\ r \in Blocks
          BY <4>1, <4>4, BlockFacts
        <5>2. l[2] - l[1] # N - 1 /\ r[2] - r[1] # N - 1
          <6> HIDE DEF m
          <6> QED BY <4>1, <5>1
        <5>3. h[l] = g[l] /\ h[r] = g[r]
          <6> HIDE DEF l, r
          <6> QED BY <5>1, <5>2
        <5>4. TreeStep(g, b) = hash_node(g[l], g[r])
          BY <4>1, <4>4 DEF TreeStep
        <5>5. TreeStep(h, b) = hash_node(h[l], h[r])
          <6> HIDE DEF h
          <6> QED BY <4>1, <4>4 DEF TreeStep
        <5> QED BY <4>2, <5>3, <5>4, <5>5
      <4> QED BY <4>1, <4>3, <4>4
    <3>3. h = [b \in Blocks |-> h[b]]
      OBVIOUS
    <3>4. TreeBelow(h, N)
      <4> HIDE DEF h
      <4> QED BY <3>2, <3>3 DEF TreeBelow
    <3> QED BY <3>4
  <2> QED BY <2>1, <2>2
<1> HIDE DEF T
<1>2. T = Nat
  BY <1>1, StrongInduction DEF T
<1> QED BY <1>2 DEF T

\* TreeHash is the tree hash of RFC 6962.
LEMMA TreeHashEquation == \A b \in Blocks : TreeHash[b] = TreeStep(TreeHash, b)
<1>1. PICK g : TreeBelow(g, MaxRecords)
  BY TreeExists, BoundsAssumption
<1>2. Blocks = BlocksBelow(MaxRecords)
  BY BelowFacts
<1>3. g = [b \in Blocks |-> TreeStep(g, b)]
  BY <1>1, <1>2 DEF TreeBelow
<1>4. TreeHash = [b \in Blocks |-> TreeStep(TreeHash, b)]
  BY <1>3 DEF TreeHash, TreeStep, SplitFrom
<1> QED BY <1>4
-----------------------------------------------------------------------------
\* The right-hand side of AuditPath.
PathStep(i, g, b) ==
  LET m == SplitFrom(b[1], b[2])
  IN  IF b[2] <= b[1] THEN << >>
      ELSE IF i < m THEN Append(g[<<b[1], m - 1>>], TreeHash[<<m, b[2]>>])
      ELSE Append(g[<<m, b[2]>>], TreeHash[<<b[1], m - 1>>])

PathBelow(i, g, N) ==
  g = [b \in Blocks |-> g[b]] /\ \A b \in BlocksBelow(N) : g[b] = PathStep(i, g, b)

LEMMA PathExists == \A i, N \in Nat : \E g : PathBelow(i, g, N)
<1> SUFFICES ASSUME NEW i \in Nat PROVE \A N \in Nat : \E g : PathBelow(i, g, N)
  OBVIOUS
<1> DEFINE T == {N \in Nat : \E g : PathBelow(i, g, N)}
<1>1. ASSUME NEW N \in Nat, \A j \in Nat : j < N => j \in T
      PROVE  N \in T
  <2>1. CASE N = 0
    <3> DEFINE h == [b \in Blocks |-> << >>]
    <3>1. ASSUME NEW b \in BlocksBelow(N)
          PROVE  h[b] = PathStep(i, h, b)
      <4>1. b \in Blocks /\ b[2] <= b[1]
        BY <2>1, <3>1, BelowFacts
      <4> QED BY <4>1 DEF PathStep
    <3>2. PathBelow(i, h, N)
      BY <3>1 DEF PathBelow
    <3> QED BY <3>2
  <2>2. CASE N # 0
    <3>1. PICK g : PathBelow(i, g, N - 1)
      BY <1>1, <2>2
    <3> DEFINE h == [b \in Blocks |-> IF b[2] - b[1] = N - 1 THEN PathStep(i, g, b) ELSE g[b]]
    <3>2. ASSUME NEW b \in BlocksBelow(N)
          PROVE  h[b] = PathStep(i, h, b)
      <4>1. b \in Blocks /\ b[1] \in Int /\ b[2] \in Int /\ b[2] - b[1] < N
        BY BelowFacts
      <4>2. h[b] = PathStep(i, g, b)
        BY <2>2, <3>1, <4>1 DEF PathBelow, BlocksBelow
      <4>3. CASE b[2] <= b[1]
        BY <4>2, <4>3 DEF PathStep
      <4>4. CASE b[1] < b[2]
        <5> DEFINE m == SplitFrom(b[1], b[2])
                   l == <<b[1], m - 1>>
                   r == <<m, b[2]>>
        <5>1. m \in (b[1] + 1)..b[2] /\ l \in Blocks /\ r \in Blocks
          BY <4>1, <4>4, BlockFacts
        <5>2. l[2] - l[1] # N - 1 /\ r[2] - r[1] # N - 1
          <6> HIDE DEF m
          <6> QED BY <4>1, <5>1
        <5>3. h[l] = g[l] /\ h[r] = g[r]
          <6> HIDE DEF l, r
          <6> QED BY <5>1, <5>2
        <5>4. PathStep(i, g, b) = IF i < m THEN Append(g[l], TreeHash[r]) ELSE Append(g[r], TreeHash[l])
          BY <4>1, <4>4 DEF PathStep
        <5>5. PathStep(i, h, b) = IF i < m THEN Append(h[l], TreeHash[r]) ELSE Append(h[r], TreeHash[l])
          <6> HIDE DEF h
          <6> QED BY <4>1, <4>4 DEF PathStep
        <5> QED BY <4>2, <5>3, <5>4, <5>5
      <4> QED BY <4>1, <4>3, <4>4
    <3>3. h = [b \in Blocks |-> h[b]]
      OBVIOUS
    <3>4. PathBelow(i, h, N)
      <4> HIDE DEF h
      <4> QED BY <3>2, <3>3 DEF PathBelow
    <3> QED BY <3>4
  <2> QED BY <2>1, <2>2
<1> HIDE DEF T
<1>2. T = Nat
  BY <1>1, StrongInduction DEF T
<1> QED BY <1>2 DEF T

\* AuditPath is the audit path of RFC 6962.
LEMMA AuditPathEquation ==
  \A i \in Nat : \A b \in Blocks : AuditPath(i)[b] = PathStep(i, AuditPath(i), b)
<1> SUFFICES ASSUME NEW i \in Nat PROVE \A b \in Blocks : AuditPath(i)[b] = PathStep(i, AuditPath(i), b)
  OBVIOUS
<1>1. PICK g : PathBelow(i, g, MaxRecords)
  BY PathExists, BoundsAssumption
<1>2. Blocks = BlocksBelow(MaxRecords)
  BY BelowFacts
<1>3. g = [b \in Blocks |-> PathStep(i, g, b)]
  BY <1>1, <1>2 DEF PathBelow
<1>4. AuditPath(i) = [b \in Blocks |-> PathStep(i, AuditPath(i), b)]
  BY <1>3 DEF AuditPath, PathStep, SplitFrom
<1> QED BY <1>4
-----------------------------------------------------------------------------
\* The right-hand side of OddPart.
OddStep(g, i) == IF i # 0 /\ i % 2 = 0 THEN g[i \div 2] ELSE i

OddBelow(g, N) ==
  /\ g = [i \in 0..MaxRecords |-> g[i]]
  /\ \A i \in 0..MaxRecords : i < N => g[i] = OddStep(g, i)

LEMMA OddExists == \A N \in Nat : \E g : OddBelow(g, N)
<1> DEFINE T == {N \in Nat : \E g : OddBelow(g, N)}
<1>1. ASSUME NEW N \in Nat, \A j \in Nat : j < N => j \in T
      PROVE  N \in T
  <2>1. CASE N = 0
    <3> DEFINE h == [i \in 0..MaxRecords |-> i]
    <3>1. OddBelow(h, N)
      BY <2>1, BoundsAssumption DEF OddBelow
    <3> QED BY <3>1
  <2>2. CASE N # 0
    <3>1. PICK g : OddBelow(g, N - 1)
      BY <1>1, <2>2
    <3> DEFINE h == [i \in 0..MaxRecords |-> IF i = N - 1 THEN OddStep(g, i) ELSE g[i]]
    <3>2. ASSUME NEW i \in 0..MaxRecords, i < N
          PROVE  h[i] = OddStep(h, i)
      <4>1. h[i] = OddStep(g, i)
        BY <2>2, <3>1, <3>2, BoundsAssumption DEF OddBelow
      <4>2. CASE i # 0 /\ i % 2 = 0
        <5>1. i \div 2 \in 0..MaxRecords /\ i \div 2 # N - 1
          BY <3>2, <4>2, BoundsAssumption
        <5>2. h[i \div 2] = g[i \div 2]
          BY <5>1
        <5> HIDE DEF h
        <5> QED BY <4>1, <4>2, <5>2 DEF OddStep
      <4>3. CASE ~(i # 0 /\ i % 2 = 0)
        BY <4>1, <4>3 DEF OddStep
      <4> QED BY <4>2, <4>3
    <3>3. h = [i \in 0..MaxRecords |-> h[i]]
      OBVIOUS
    <3>4. OddBelow(h, N)
      <4> HIDE DEF h
      <4> QED BY <3>2, <3>3 DEF OddBelow
    <3> QED BY <3>4
  <2> QED BY <2>1, <2>2
<1> HIDE DEF T
<1>2. T = Nat
  BY <1>1, StrongInduction DEF T
<1> QED BY <1>2 DEF T

\* OddPart is what the inner loop computes.
LEMMA OddPartEquation == \A i \in 0..MaxRecords : OddPart[i] = OddStep(OddPart, i)
<1>1. PICK g : OddBelow(g, MaxRecords + 1)
  BY OddExists, BoundsAssumption
<1>2. \A i \in 0..MaxRecords : g[i] = OddStep(g, i)
  BY <1>1, BoundsAssumption DEF OddBelow
<1>3. g = [i \in 0..MaxRecords |-> OddStep(g, i)]
  BY <1>1, <1>2 DEF OddBelow
<1>4. OddPart = [i \in 0..MaxRecords |-> OddStep(OddPart, i)]
  BY <1>3 DEF OddPart, OddStep
<1> QED BY <1>4

\* The inner loop divides by the largest power of two it can.
LEMMA OddPartFacts ==
  /\ OddPart[0] = 0
  /\ \A i \in 1..MaxRecords :
       /\ OddPart[i] \in Nat /\ OddPart[i] % 2 = 1
       /\ \E z \in Powers : i = OddPart[i] * z
<1> DEFINE Good(i) == /\ OddPart[i] \in Nat /\ OddPart[i] % 2 = 1
                      /\ \E z \in Powers : i = OddPart[i] * z
           T == {i \in Nat : i \in 1..MaxRecords => Good(i)}
<1>1. ASSUME NEW i \in Nat, \A j \in Nat : j < i => j \in T
      PROVE  i \in T
  <2>1. SUFFICES ASSUME i \in 1..MaxRecords PROVE Good(i)
    OBVIOUS
  <2>2. i \in 0..MaxRecords /\ i # 0
    BY <2>1, BoundsAssumption
  <2>3. CASE i % 2 = 0
    <3>1. OddPart[i] = OddPart[i \div 2]
      BY <2>2, <2>3, OddPartEquation DEF OddStep
    <3>2. i \div 2 \in Nat /\ i \div 2 < i /\ i \div 2 \in 1..MaxRecords
      BY <2>1, <2>3, BoundsAssumption
    <3>3. Good(i \div 2)
      BY <1>1, <3>2
    <3>4. PICK z \in Powers : i \div 2 = OddPart[i \div 2] * z
      BY <3>3
    <3>5. 2 * z \in Powers /\ i = OddPart[i] * (2 * z)
      <4>1. z \in Nat /\ i = 2 * (i \div 2) /\ 2 * z \in Powers
        BY <2>3, PowerFacts
      <4>2. \A a, b \in Nat : 2 * (a * b) = a * (2 * b)
        OBVIOUS
      <4>3. i = 2 * (OddPart[i] * z) /\ OddPart[i] \in Nat
        BY <3>1, <3>3, <3>4, <4>1
      <4> QED BY <4>1, <4>2, <4>3
    <3> QED BY <3>1, <3>3, <3>5
  <2>4. CASE i % 2 # 0
    <3>1. OddPart[i] = i
      BY <2>2, <2>4, OddPartEquation DEF OddStep
    <3>2. i % 2 = 1 /\ i = i * 1
      BY <2>4
    <3> QED BY <3>1, <3>2, PowerFacts
  <2> QED BY <2>3, <2>4
<1> HIDE DEF T
<1>2. T = Nat
  BY <1>1, StrongInduction DEF T
<1>3. OddPart[0] = 0
  BY OddPartEquation, BoundsAssumption DEF OddStep
<1>4. \A i \in 1..MaxRecords : i \in T
  BY <1>2, BoundsAssumption
<1> QED BY <1>3, <1>4 DEF T
-----------------------------------------------------------------------------
(* Blocks of a list of m records.  At width w, a power of two, block i starts *)
(* at record i * w + 1, and the last block, l, ends with the list.            *)

Position(i, w, t) == i * w <= t /\ t < (i + 1) * w

Block(i, l, w, m) == <<i * w + 1, IF i = l THEN m ELSE (i + 1) * w>>

\* Comparing multiples of the same width.
LEMMA Monotone ==
  \A a, b, c \in Nat : /\ a <= b => a * c <= b * c
                       /\ a * c < b * c => a < b
<1>1. ASSUME NEW a \in Nat, NEW b \in Nat, NEW c \in Nat, a <= b
      PROVE  a * c <= b * c
  <2>1. PICK d \in Nat : b = a + d
    <3>1. b - a \in Nat /\ b = a + (b - a)
      BY <1>1
    <3> QED BY <3>1
  <2>2. (a + d) * c = a * c + d * c /\ d * c \in Nat /\ a * c \in Nat
    OBVIOUS
  <2> QED BY <2>1, <2>2
<1>2. ASSUME NEW a \in Nat, NEW b \in Nat, NEW c \in Nat, a * c < b * c
      PROVE  a < b
  <2>1. CASE b <= a
    <3>1. b * c <= a * c
      BY <1>1, <2>1
    <3>2. a * c \in Nat /\ b * c \in Nat
      OBVIOUS
    <3> QED BY <1>2, <3>1, <3>2
  <2> QED BY <2>1
<1> QED BY <1>1, <1>2

\* The halves of an index, at twice the width.
LEMMA Doubled ==
  ASSUME NEW i \in Nat, NEW w \in Nat
  PROVE  /\ i % 2 = 0 => (i \div 2) * (2 * w) = i * w /\ ((i \div 2) + 1) * (2 * w) = i * w + 2 * w
         /\ i % 2 = 1 => (i \div 2) * (2 * w) + w = i * w /\ ((i \div 2) + 1) * (2 * w) = i * w + w
         /\ (i + 1) * w = i * w + w /\ i * w \in Nat
<1>1. PICK j \in Nat : j = i \div 2 /\ (i = 2 * j \/ i = 2 * j + 1)
  OBVIOUS
<1>2. j * (2 * w) = (2 * j) * w /\ (j + 1) * (2 * w) = (2 * j) * w + 2 * w
      /\ (2 * j + 1) * w = (2 * j) * w + w /\ (i + 1) * w = i * w + w /\ i * w \in Nat
  OBVIOUS
<1>3. i % 2 = 0 => i = 2 * j
  BY <1>1
<1>4. i % 2 = 1 => i = 2 * j + 1
  BY <1>1
<1> QED BY <1>1, <1>2, <1>3, <1>4

LEMMA Halve ==
  ASSUME NEW i \in Nat, NEW w \in Nat, NEW t \in Nat, Position(i, w, t)
  PROVE  Position(i \div 2, 2 * w, t)
<1>1. i % 2 = 0 \/ i % 2 = 1
  OBVIOUS
<1>2. i \div 2 \in Nat /\ (i \div 2) * (2 * w) \in Nat
  OBVIOUS
<1> QED BY <1>1, <1>2, Doubled DEF Position

\* The position of a smaller number is not larger.
LEMMA Earlier ==
  ASSUME NEW i \in Nat, NEW l \in Nat, NEW w \in Nat, NEW t \in Nat, NEW k \in Nat,
         t <= k, Position(i, w, t), Position(l, w, k)
  PROVE  i <= l
<1>1. i * w < (l + 1) * w
  BY Doubled DEF Position
<1>2. i < l + 1
  BY <1>1, Monotone
<1> QED BY <1>2

\* A block is not empty and lies in the list.
LEMMA BlockBounds ==
  ASSUME NEW m \in 1..MaxRecords, NEW w \in Powers, NEW l \in Nat, NEW i \in 0..l, Position(l, w, m - 1)
  PROVE  /\ Block(i, l, w, m) \in Blocks
         /\ Block(i, l, w, m)[1] = i * w + 1
         /\ Block(i, l, w, m)[2] = IF i = l THEN m ELSE i * w + w
         /\ i * w + 1 <= Block(i, l, w, m)[2] /\ Block(i, l, w, m)[2] <= m
<1>1. i \in Nat /\ w \in Nat \ {0} /\ m \in Nat
  BY PowerFacts, BoundsAssumption
<1>2. /\ (i + 1) * w = i * w + w /\ i * w \in Nat /\ i * w <= l * w
      /\ i # l => (i + 1) * w <= l * w
  BY <1>1, Monotone, Doubled
<1>3. l * w <= m - 1
  BY DEF Position
<1>4. l * w \in Nat
  BY <1>1
<1> QED BY <1>1, <1>2, <1>3, <1>4, BoundsAssumption DEF Block, Blocks
-----------------------------------------------------------------------------
TreeHashes == {TreeHash[b] : b \in Blocks}

\* Audit paths consist of tree hashes.
LEMMA PathType ==
  ASSUME NEW i \in Nat
  PROVE  \A b \in Blocks : AuditPath(i)[b] \in Seq(TreeHashes)
<1> DEFINE T == {N \in Nat : \A b \in BlocksBelow(N) : AuditPath(i)[b] \in Seq(TreeHashes)}
<1>1. ASSUME NEW N \in Nat, \A j \in Nat : j < N => j \in T
      PROVE  N \in T
  <2> SUFFICES ASSUME NEW b \in BlocksBelow(N)
               PROVE  AuditPath(i)[b] \in Seq(TreeHashes)
    OBVIOUS
  <2>1. b \in Blocks /\ b[1] \in Nat /\ b[2] \in Nat /\ b[2] - b[1] < N
    BY BelowFacts
  <2>2. AuditPath(i)[b] = PathStep(i, AuditPath(i), b)
    BY <2>1, AuditPathEquation
  <2>3. CASE b[2] <= b[1]
    BY <2>2, <2>3 DEF PathStep
  <2>4. CASE b[1] < b[2]
    <3> DEFINE m == SplitFrom(b[1], b[2])
               c == <<b[1], m - 1>>
               d == <<m, b[2]>>
    <3>1. m \in (b[1] + 1)..b[2] /\ c \in Blocks /\ d \in Blocks
      BY <2>1, <2>4, BlockFacts
    <3>2. N # 0 /\ c \in BlocksBelow(N - 1) /\ d \in BlocksBelow(N - 1)
      <4> HIDE DEF m
      <4> QED BY <2>1, <2>4, <3>1 DEF BlocksBelow
    <3>3. AuditPath(i)[c] \in Seq(TreeHashes) /\ AuditPath(i)[d] \in Seq(TreeHashes)
      BY <1>1, <3>2
    <3>4. TreeHash[c] \in TreeHashes /\ TreeHash[d] \in TreeHashes
      BY <3>1 DEF TreeHashes
    <3>5. AuditPath(i)[b] = IF i < m THEN Append(AuditPath(i)[c], TreeHash[d])
                            ELSE Append(AuditPath(i)[d], TreeHash[c])
      BY <2>1, <2>2, <2>4 DEF PathStep
    <3> HIDE DEF m, c, d
    <3> QED BY <3>3, <3>4, <3>5
  <2> QED BY <2>1, <2>3, <2>4
<1> HIDE DEF T
<1>2. T = Nat
  BY <1>1, StrongInduction DEF T
<1>3. MaxRecords \in T
  BY <1>2, BoundsAssumption
<1> QED BY <1>3, BelowFacts DEF T
-----------------------------------------------------------------------------
\* Blocks of one record.
LEMMA Leaf ==
  ASSUME NEW x \in 1..MaxRecords, NEW t \in Nat
  PROVE  /\ <<x, x>> \in Blocks
         /\ TreeHash[<<x, x>>] = hash_leaf(x)
         /\ AuditPath(t)[<<x, x>>] = << >>
<1>1. <<x, x>> \in Blocks /\ x \in Int
  BY BoundsAssumption DEF Blocks
<1> DEFINE b == <<x, x>>
<1>2. b[2] <= b[1] /\ b[1] = x
  BY <1>1
<1>3. TreeHash[b] = TreeStep(TreeHash, b) /\ AuditPath(t)[b] = PathStep(t, AuditPath(t), b)
  BY <1>1, TreeHashEquation, AuditPathEquation
<1> HIDE DEF b
<1>4. TreeHash[b] = hash_leaf(x) /\ AuditPath(t)[b] = << >>
  BY <1>2, <1>3 DEF TreeStep, PathStep
<1> QED BY <1>1, <1>4 DEF b

\* A list of more than p and at most 2p records is split after the first p.
LEMMA Node ==
  ASSUME NEW lo \in 1..MaxRecords, NEW hi \in 1..MaxRecords, NEW p \in Powers,
         lo + p <= hi, hi < lo + 2 * p, NEW t \in Nat
  PROVE  /\ <<lo, lo + p - 1>> \in Blocks /\ <<lo + p, hi>> \in Blocks
         /\ TreeHash[<<lo, hi>>] = hash_node(TreeHash[<<lo, lo + p - 1>>], TreeHash[<<lo + p, hi>>])
         /\ AuditPath(t)[<<lo, hi>>] =
              IF t < lo + p THEN Append(AuditPath(t)[<<lo, lo + p - 1>>], TreeHash[<<lo + p, hi>>])
              ELSE Append(AuditPath(t)[<<lo + p, hi>>], TreeHash[<<lo, lo + p - 1>>])
<1>1. p \in Nat \ {0} /\ lo \in Nat /\ hi \in Nat /\ lo < hi
  BY PowerFacts, BoundsAssumption
<1>2. SplitAt[hi - lo + 1] = p
  <2>1. hi - lo + 1 \in 2..MaxRecords /\ p < hi - lo + 1 /\ hi - lo + 1 <= 2 * p
    BY <1>1, BoundsAssumption
  <2> QED BY <2>1, SplitUnique
<1>3. SplitFrom(lo, hi) = lo + p
  BY <1>2 DEF SplitFrom
<1>4. <<lo, hi>> \in Blocks /\ <<lo, lo + p - 1>> \in Blocks /\ <<lo + p, hi>> \in Blocks
  BY <1>1, BoundsAssumption DEF Blocks
<1>5. TreeHash[<<lo, hi>>] = TreeStep(TreeHash, <<lo, hi>>)
      /\ AuditPath(t)[<<lo, hi>>] = PathStep(t, AuditPath(t), <<lo, hi>>)
  BY <1>4, TreeHashEquation, AuditPathEquation
<1>6. TreeHash[<<lo, hi>>] = hash_node(TreeHash[<<lo, lo + p - 1>>], TreeHash[<<lo + p, hi>>])
  BY <1>1, <1>3, <1>5 DEF TreeStep
<1>7. AuditPath(t)[<<lo, hi>>] =
        IF t < lo + p THEN Append(AuditPath(t)[<<lo, lo + p - 1>>], TreeHash[<<lo + p, hi>>])
        ELSE Append(AuditPath(t)[<<lo + p, hi>>], TreeHash[<<lo, lo + p - 1>>])
  BY <1>1, <1>3, <1>5 DEF PathStep
<1> QED BY <1>4, <1>6, <1>7

\* Two neighbours make a block of twice the width; the last block, without a
\* right neighbour, is one as it is.
LEMMA Parent ==
  ASSUME NEW m \in 1..MaxRecords, NEW w \in Powers, NEW l \in Nat, NEW i \in 0..l,
         Position(l, w, m - 1), NEW t \in Nat
  PROVE  LET up == Block(i \div 2, l \div 2, 2 * w, m)
             me == Block(i, l, w, m)
             left == Block(i - 1, l, w, m)
             right == Block(i + 1, l, w, m)
         IN  /\ i % 2 = 1 =>
                  /\ left \in Blocks
                  /\ TreeHash[up] = hash_node(TreeHash[left], TreeHash[me])
                  /\ Position(i, w, t) =>
                       AuditPath(t + 1)[up] = Append(AuditPath(t + 1)[me], TreeHash[left])
             /\ i % 2 = 0 /\ i < l =>
                  /\ right \in Blocks
                  /\ TreeHash[up] = hash_node(TreeHash[me], TreeHash[right])
                  /\ Position(i, w, t) =>
                       AuditPath(t + 1)[up] = Append(AuditPath(t + 1)[me], TreeHash[right])
             /\ i % 2 = 0 /\ i = l => up = me
<1> DEFINE up == Block(i \div 2, l \div 2, 2 * w, m)
           me == Block(i, l, w, m)
           left == Block(i - 1, l, w, m)
           right == Block(i + 1, l, w, m)
<1> SUFFICES /\ i % 2 = 1 =>
                  /\ left \in Blocks
                  /\ TreeHash[up] = hash_node(TreeHash[left], TreeHash[me])
                  /\ Position(i, w, t) =>
                       AuditPath(t + 1)[up] = Append(AuditPath(t + 1)[me], TreeHash[left])
             /\ i % 2 = 0 /\ i < l =>
                  /\ right \in Blocks
                  /\ TreeHash[up] = hash_node(TreeHash[me], TreeHash[right])
                  /\ Position(i, w, t) =>
                       AuditPath(t + 1)[up] = Append(AuditPath(t + 1)[me], TreeHash[right])
             /\ i % 2 = 0 /\ i = l => up = me
  OBVIOUS
<1>1. /\ i \in Nat /\ w \in Nat \ {0} /\ m \in Nat /\ i * w \in Nat /\ l * w \in Nat
      /\ i \div 2 \in 0..(l \div 2) /\ l \div 2 \in Nat /\ 2 * w \in Powers
  BY PowerFacts, BoundsAssumption, Doubled
<1>2. Position(l \div 2, 2 * w, m - 1)
  BY <1>1, Halve
<1>3. /\ up \in Blocks /\ me \in Blocks
      /\ me = <<i * w + 1, me[2]>> /\ up = <<(i \div 2) * (2 * w) + 1, up[2]>>
      /\ me[2] = (IF i = l THEN m ELSE i * w + w)
      /\ up[2] = (IF i \div 2 = l \div 2 THEN m ELSE (i \div 2) * (2 * w) + 2 * w)
      /\ i * w + 1 <= me[2] /\ me[2] <= m
      /\ (i \div 2) * (2 * w) + 1 <= up[2] /\ up[2] <= m
  <2>1. /\ me \in Blocks /\ me[1] = i * w + 1 /\ me[2] = (IF i = l THEN m ELSE i * w + w)
        /\ i * w + 1 <= me[2] /\ me[2] <= m
    BY BlockBounds
  <2> DEFINE j == i \div 2
             k == l \div 2
             W == 2 * w
  <2>2. j \in 0..k /\ k \in Nat /\ W \in Powers /\ Position(k, W, m - 1)
    BY <1>1, <1>2
  <2>3. /\ Block(j, k, W, m) \in Blocks /\ Block(j, k, W, m)[1] = j * W + 1
        /\ Block(j, k, W, m)[2] = (IF j = k THEN m ELSE j * W + W)
        /\ j * W + 1 <= Block(j, k, W, m)[2] /\ Block(j, k, W, m)[2] <= m
    <3> HIDE DEF j, k, W
    <3> QED BY <2>2, BlockBounds
  <2>4. me = <<me[1], me[2]>> /\ up = <<up[1], up[2]>>
    BY <2>1, <2>3, BlockFacts
  <2> QED BY <2>1, <2>3, <2>4
<1>4. m - 1 < l * w + w
  BY <1>1, Doubled DEF Position
<1>5. me[2] <= i * w + w
  BY <1>1, <1>3, <1>4
<1>6. Position(i, w, t) <=> i * w <= t /\ t < i * w + w
  BY <1>1, Doubled DEF Position
<1>7. CASE i % 2 = 1
  <2>1. (i \div 2) * (2 * w) = i * w - w /\ i - 1 \in Nat /\ i - 1 # l
    BY <1>1, <1>7, Doubled
  <2>2. left = <<i * w - w + 1, i * w>>
    <3>1. (i - 1) * w = i * w - w /\ ((i - 1) + 1) * w = i * w
      BY <1>1, <2>1, Doubled
    <3> QED BY <2>1, <3>1 DEF Block
  <2>3. up[2] = me[2]
    <3>1. i \div 2 = l \div 2 => i = l
      BY <1>1, <1>7
    <3>2. i = l => i \div 2 = l \div 2
      OBVIOUS
    <3> QED BY <1>1, <1>3, <2>1, <3>1, <3>2
  <2>4. me = <<i * w + 1, up[2]>> /\ up = <<i * w - w + 1, up[2]>>
    BY <1>3, <2>1, <2>3
  <2> DEFINE lo == i * w - w + 1
             hi == up[2]
  <2>5. /\ lo \in 1..MaxRecords /\ hi \in 1..MaxRecords /\ lo + w <= hi /\ hi < lo + 2 * w
        /\ lo + w - 1 = i * w /\ lo + w = i * w + 1
    BY <1>1, <1>3, <1>5, <2>1, <2>3, BoundsAssumption
  <2>6. /\ <<lo, i * w>> \in Blocks
        /\ TreeHash[<<lo, hi>>] = hash_node(TreeHash[<<lo, i * w>>], TreeHash[<<i * w + 1, hi>>])
        /\ t + 1 >= i * w + 1 =>
             AuditPath(t + 1)[<<lo, hi>>] =
               Append(AuditPath(t + 1)[<<i * w + 1, hi>>], TreeHash[<<lo, i * w>>])
    <3> HIDE DEF lo, hi
    <3>1. t + 1 \in Nat /\ i * w + 1 \in Nat
      BY <1>1
    <3>2. /\ <<lo, lo + w - 1>> \in Blocks
          /\ TreeHash[<<lo, hi>>] = hash_node(TreeHash[<<lo, lo + w - 1>>], TreeHash[<<lo + w, hi>>])
          /\ AuditPath(t + 1)[<<lo, hi>>] =
              IF t + 1 < lo + w THEN Append(AuditPath(t + 1)[<<lo, lo + w - 1>>], TreeHash[<<lo + w, hi>>])
              ELSE Append(AuditPath(t + 1)[<<lo + w, hi>>], TreeHash[<<lo, lo + w - 1>>])
      BY <2>5, <3>1, Node
    <3>3. t + 1 >= i * w + 1 => ~(t + 1 < i * w + 1)
      BY <3>1
    <3> QED BY <2>5, <3>2, <3>3
  <2>7. i * w <= t => t + 1 >= i * w + 1
    BY <1>1
  <2>8. /\ left \in Blocks
        /\ TreeHash[up] = hash_node(TreeHash[left], TreeHash[me])
        /\ Position(i, w, t) =>
             AuditPath(t + 1)[up] = Append(AuditPath(t + 1)[me], TreeHash[left])
    <3> HIDE DEF up, me, left
    <3> QED BY <1>6, <2>2, <2>4, <2>6, <2>7
  <2>9. i % 2 # 0
    BY <1>7
  <2> HIDE DEF up, me, left, right
  <2> QED BY <2>8, <2>9
<1>8. CASE i % 2 = 0 /\ i < l
  <2>1. (i \div 2) * (2 * w) = i * w /\ i + 1 \in 0..l
    BY <1>1, <1>8, Doubled
  <2>2. /\ right \in Blocks /\ right = <<i * w + w + 1, right[2]>>
        /\ right[2] = (IF i + 1 = l THEN m ELSE i * w + w + w)
        /\ i * w + w + 1 <= right[2]
    <3> DEFINE j == i + 1
    <3>1. j * w = i * w + w
      BY <1>1, Doubled
    <3>2. /\ Block(j, l, w, m) \in Blocks /\ Block(j, l, w, m)[1] = j * w + 1
          /\ Block(j, l, w, m)[2] = (IF j = l THEN m ELSE j * w + w)
          /\ j * w + 1 <= Block(j, l, w, m)[2]
      <4> HIDE DEF j
      <4> QED BY <2>1, BlockBounds DEF j
    <3>3. right = <<right[1], right[2]>>
      BY <3>2, BlockFacts
    <3> QED BY <3>1, <3>2, <3>3
  <2>3. up[2] = right[2]
    <3>1. i \div 2 = l \div 2 <=> i + 1 = l
      BY <1>1, <1>8
    <3> QED BY <1>1, <1>3, <2>1, <2>2, <3>1
  <2>4. me = <<i * w + 1, i * w + w>>
    BY <1>3, <1>8
  <2> DEFINE lo == i * w + 1
             hi == up[2]
  <2>5. lo \in 1..MaxRecords /\ hi \in 1..MaxRecords /\ lo + w - 1 = i * w + w /\ lo + w = i * w + w + 1
    BY <1>1, <1>3, <2>1, BoundsAssumption
  <2>6. lo + w <= hi /\ hi < lo + 2 * w
    <3>2. i + 1 = l => l * w = i * w + w
      BY <1>1, Doubled
    <3>3. right[2] <= i * w + w + w
      BY <1>1, <1>4, <2>2, <3>2
    <3> QED BY <1>1, <2>3, <2>2, <2>5, <3>3
  <2>7. /\ TreeHash[<<lo, hi>>] = hash_node(TreeHash[<<lo, i * w + w>>], TreeHash[<<i * w + w + 1, hi>>])
        /\ t + 1 < i * w + w + 1 =>
             AuditPath(t + 1)[<<lo, hi>>] =
               Append(AuditPath(t + 1)[<<lo, i * w + w>>], TreeHash[<<i * w + w + 1, hi>>])
    <3> HIDE DEF lo, hi
    <3>1. t + 1 \in Nat
      OBVIOUS
    <3>2. /\ TreeHash[<<lo, hi>>] = hash_node(TreeHash[<<lo, lo + w - 1>>], TreeHash[<<lo + w, hi>>])
          /\ AuditPath(t + 1)[<<lo, hi>>] =
              IF t + 1 < lo + w THEN Append(AuditPath(t + 1)[<<lo, lo + w - 1>>], TreeHash[<<lo + w, hi>>])
              ELSE Append(AuditPath(t + 1)[<<lo + w, hi>>], TreeHash[<<lo, lo + w - 1>>])
      BY <2>5, <2>6, <3>1, Node
    <3> QED BY <2>5, <3>2
  <2>8. t < i * w + w => t + 1 < i * w + w + 1
    BY <1>1
  <2>9. /\ TreeHash[up] = hash_node(TreeHash[me], TreeHash[right])
        /\ Position(i, w, t) =>
             AuditPath(t + 1)[up] = Append(AuditPath(t + 1)[me], TreeHash[right])
    <3>1. up = <<i * w + 1, up[2]>> /\ right = <<i * w + w + 1, up[2]>>
      BY <1>3, <2>1, <2>2, <2>3
    <3> HIDE DEF up, me, right
    <3> QED BY <1>6, <2>4, <2>7, <2>8, <3>1
  <2>10. i % 2 # 1 /\ i # l
    BY <1>8
  <2> HIDE DEF up, me, left, right
  <2> QED BY <2>2, <2>9, <2>10
<1>9. CASE i % 2 = 0 /\ i = l
  <2>1. (i \div 2) * (2 * w) = i * w
    BY <1>1, <1>9, Doubled
  <2> QED BY <1>3, <1>9, <2>1
<1> QED BY <1>1, <1>7, <1>8, <1>9
-----------------------------------------------------------------------------
(* The inductive invariant. *)

\* The last blocks of all widths start at the records of the spine.
Spine(m) ==
  {x \in 1..m : \E q \in Powers, k \in 0..m : x = k * q + 1 /\ Position(k, q, m - 1)}

\* v is the tree hash of b exactly if d and u are the digest at t and the audit path in b.
Honest(t, d, b, v, u) ==
  /\ v = TreeHash[b] <=> d = t + 1 /\ u = AuditPath(t + 1)[b]
  /\ Len(u) = Len(AuditPath(t + 1)[b])

\* v is no tree hash of a block narrower than w.
NoBlock(v, w) ==
  \A q \in Powers, y \in 1..MaxRecords :
    q < w /\ y + q - 1 <= MaxRecords => v # TreeHash[<<y, y + q - 1>>]

\* v is no tree hash of an end of the list that starts after lo, on the spine.
NoTail(v, m, lo) == \A x \in Spine(m) : x > lo => v # TreeHash[<<x, m>>]

\* The loops over level are at blocks of width w.
BuiltTo(w) ==
  LET l == Len(level) - 1
  IN  /\ Position(l, w, n - 1) /\ Position(pos, w, target)
      /\ \A i \in 0..l : level[i + 1] = TreeHash[Block(i, l, w, n)]
      /\ path = AuditPath(target + 1)[Block(pos, l, w, n)]

\* The folded part of a proof stands for the block of width w at index.
FoldedTo(w) ==
  /\ Position(index, w, target) /\ Position(last, w, n - 1)
  /\ Honest(target, digest, Block(index, last, w, n), value, used)
  /\ index < last => NoBlock(value, w)
  /\ index = last => NoTail(value, n, index * w + 1)

\* More was folded than the path of any record takes.
Overrun ==
  /\ index = 0 /\ last = 0
  /\ Len(used) > Len(AuditPath(target + 1)[<<1, n>>])
  /\ NoTail(value, n, 0)

Sizes ==
  /\ level \in Seq(TreeHashes) /\ path \in Seq(TreeHashes)
  /\ used \in Seq(TreeHashes \cup SiblingHashes[n])
  /\ Len(path) + Len(level) <= n

FoldInv ==
  /\ phase = "build" => used = << >> /\ index = 0 /\ last = 0
  /\ phase # "build" => Len(level) = 1
  /\ phase \in {"fold", "accepted"} => (\E w \in Powers : FoldedTo(w)) \/ Overrun
  /\ phase = "accepted" => last = 0 /\ value = level[1]

MerkleInv ==
  /\ TypeOK /\ Sizes
  /\ \E w \in Powers : BuiltTo(w)
  /\ FoldInv

\* Leaves and nodes have different prefixes, and neither collide.
LEMMA HashesDiffer ==
  /\ \A x, l, r : hash_leaf(x) # hash_node(l, r)
  /\ \A x, y : hash_leaf(x) = hash_leaf(y) => x = y
  /\ \A l, r, k, s : hash_node(l, r) = hash_node(k, s) => l = k /\ r = s
BY DEF hash_leaf, hash_node

\* A node over a value that is no tree of a smaller width is none of this width.
LEMMA NoBlockNode ==
  ASSUME NEW v, NEW s, NEW w \in Powers, NoBlock(v, w)
  PROVE  NoBlock(hash_node(s, v), 2 * w) /\ NoBlock(hash_node(v, s), 2 * w)
<1> SUFFICES ASSUME NEW q \in Powers, NEW y \in 1..MaxRecords, q < 2 * w, y + q - 1 <= MaxRecords
             PROVE  /\ hash_node(s, v) # TreeHash[<<y, y + q - 1>>]
                    /\ hash_node(v, s) # TreeHash[<<y, y + q - 1>>]
  BY DEF NoBlock
<1>1. q \in Nat \ {0} /\ w \in Nat \ {0} /\ y \in Nat
  BY PowerFacts, BoundsAssumption
<1>2. CASE q = 1
  <2>1. TreeHash[<<y, y>>] = hash_leaf(y) /\ y + q - 1 = y
    BY <1>1, <1>2, Leaf
  <2> QED BY <2>1, HashesDiffer
<1>3. CASE q # 1
  <2>1. PICK r \in Powers : q = 2 * r
    BY <1>3, PowerFacts
  <2>2. r \in Nat \ {0} /\ r < w
    BY <1>1, <2>1, PowerFacts
  <2> DEFINE hi == y + q - 1
  <2>3. /\ hi \in 1..MaxRecords /\ y + r <= hi /\ hi < y + 2 * r
        /\ y + r \in 1..MaxRecords /\ hi = (y + r) + r - 1 /\ y + r - 1 <= MaxRecords
    BY <1>1, <2>1, <2>2, BoundsAssumption
  <2> HIDE DEF hi
  <2>4. TreeHash[<<y, hi>>] = hash_node(TreeHash[<<y, y + r - 1>>], TreeHash[<<y + r, hi>>])
    BY <1>1, <2>3, Node
  <2>5. v # TreeHash[<<y, y + r - 1>>]
    BY <2>2, <2>3 DEF NoBlock
  <2>6. v # TreeHash[<<y + r, hi>>]
    <3>1. (y + r) + r - 1 <= MaxRecords
      BY <2>3, BoundsAssumption
    <3> DEFINE z == y + r
    <3>2. v # TreeHash[<<z, z + r - 1>>]
      <4>1. z \in 1..MaxRecords /\ z + r - 1 <= MaxRecords
        BY <2>3, <3>1
      <4> HIDE DEF z
      <4> QED BY <2>2, <4>1 DEF NoBlock
    <3> QED BY <2>3, <3>2
  <2> QED BY <2>4, <2>5, <2>6, HashesDiffer DEF hi
<1> QED BY <1>2, <1>3

LEMMA SpineBounds ==
  ASSUME NEW m \in 1..MaxRecords, NEW x \in Spine(m)
  PROVE  x \in 1..m /\ x \in 1..MaxRecords /\ x \in Nat /\ m \in Nat
BY BoundsAssumption DEF Spine

\* A spine record is the first of the last block of width w, or not after the
\* first one of the last block of width 2 * w, or the first of a block inside.
LEMMA SpineOrder ==
  ASSUME NEW m \in 1..MaxRecords, NEW x \in Spine(m), NEW w \in Powers, NEW l \in Nat,
         Position(l, w, m - 1)
  PROVE  x - 1 >= l * w \/ x - 1 <= (l \div 2) * (2 * w)
<1>1. PICK q \in Powers, k \in 0..m : x = k * q + 1 /\ Position(k, q, m - 1)
  BY DEF Spine
<1>2. /\ q \in Nat \ {0} /\ w \in Nat \ {0} /\ m \in Nat /\ k \in Nat /\ x \in Nat
      /\ l \div 2 \in Nat /\ 2 * w \in Powers /\ 2 * w \in Nat
  BY PowerFacts, SpineBounds, <1>1
<1>3. CASE q < 2 * w
  <2>1. \E c \in Nat \ {0} : w = q * c
    <3>1. CASE q = w
      BY <1>2, <3>1
    <3>2. CASE q # w
      <4>1. q < w
        BY <1>2, <1>3, <3>2, PowerGap
      <4>2. PICK c \in Nat \ {0} : w = q * (2 * c)
        BY <4>1, PowerDivides
      <4> QED BY <4>2
    <3> QED BY <3>1, <3>2
  <2>2. PICK c \in Nat \ {0} : w = q * c
    BY <2>1
  <2>3. l * w = (l * c) * q /\ l * c \in Nat
    BY <1>2, <2>2
  <2>4. (l * c) * q < (k + 1) * q
    BY <1>1, <1>2, <2>3, Doubled DEF Position
  <2>5. l * c <= k
    BY <1>2, <2>3, <2>4, Monotone
  <2>6. l * w <= k * q
    BY <1>2, <2>3, <2>5, Monotone
  <2> QED BY <1>1, <1>2, <2>3, <2>6
<1>4. CASE q >= 2 * w
  <2>1. \E c \in Nat \ {0} : q = (2 * w) * c
    <3>1. CASE q = 2 * w
      BY <1>2, <3>1
    <3>2. CASE q # 2 * w
      <4> DEFINE W == 2 * w
      <4>1. W \in Powers /\ W < q
        BY <1>2, <1>4, <3>2
      <4>2. PICK c \in Nat \ {0} : q = W * (2 * c)
        <5> HIDE DEF W
        <5> QED BY <4>1, PowerDivides
      <4> QED BY <4>2
    <3> QED BY <3>1, <3>2
  <2>2. PICK c \in Nat \ {0} : q = (2 * w) * c
    BY <2>1
  <2>3. k * q = (k * c) * (2 * w) /\ k * c \in Nat
    BY <1>2, <2>2
  <2>4. Position(l \div 2, 2 * w, m - 1)
    BY <1>2, Halve
  <2>5. (k * c) * (2 * w) < (l \div 2 + 1) * (2 * w)
    <3>1. k * q <= m - 1 /\ m - 1 < (l \div 2 + 1) * (2 * w)
      BY <1>1, <2>4 DEF Position
    <3>2. k * q \in Nat /\ (l \div 2 + 1) * (2 * w) \in Nat
      BY <1>2, Doubled
    <3> QED BY <1>2, <2>3, <3>1, <3>2
  <2>6. k * c <= l \div 2
    BY <1>2, <2>3, <2>5, Monotone
  <2>7. k * q <= (l \div 2) * (2 * w)
    BY <1>2, <2>3, <2>6, Monotone
  <2> QED BY <1>1, <1>2, <2>7
<1> QED BY <1>2, <1>3, <1>4

\* The right part of a tail of the list is a tail.
LEMMA SpineNext ==
  ASSUME NEW m \in 1..MaxRecords, NEW x \in Spine(m), x < m
  PROVE  \E y \in Spine(m) : x < y /\ \E h : TreeHash[<<x, m>>] = hash_node(h, TreeHash[<<y, m>>])
<1>1. PICK q \in Powers, k \in 0..m : x = k * q + 1 /\ Position(k, q, m - 1)
  BY DEF Spine
<1>2. q \in Nat \ {0} /\ m \in Nat /\ k \in Nat /\ x \in Nat /\ x \in 1..MaxRecords
      /\ k * q \in Nat /\ (k + 1) * q = k * q + q
  BY PowerFacts, SpineBounds, Doubled, <1>1
<1> DEFINE p == SplitAt[m - x + 1]
<1>3. p \in Powers /\ p < m - x + 1 /\ m - x + 1 <= 2 * p
  <2>1. m - x + 1 \in 2..MaxRecords
    BY <1>2, BoundsAssumption
  <2> QED BY <2>1, SplitDef
<1> HIDE DEF p
<1>4. p \in Nat \ {0} /\ p < q
  BY <1>1, <1>2, <1>3, PowerFacts DEF Position
<1>5. PICK c \in Nat \ {0} : q = p * (2 * c)
  BY <1>3, <1>4, PowerDivides
<1> DEFINE j == k * (2 * c) + 1
<1>6. /\ j \in Nat /\ j * p = k * q + p /\ (j + 1) * p = k * q + 2 * p
  BY <1>2, <1>4, <1>5
<1>7. j \in 0..m /\ x + p = j * p + 1 /\ Position(j, p, m - 1) /\ x + p \in 1..m
  <2>1. x + p = j * p + 1 /\ Position(j, p, m - 1) /\ x + p \in 1..m
    BY <1>1, <1>2, <1>3, <1>4, <1>6 DEF Position
  <2>2. j * 1 <= j * p
    <3> HIDE DEF j
    <3>1. 1 * j <= p * j
      BY <1>4, <1>6, Monotone
    <3> QED BY <1>4, <1>6, <3>1
  <2> HIDE DEF j
  <2> QED BY <1>2, <1>4, <1>6, <2>1, <2>2
<1>8. x + p \in Spine(m)
  <2> HIDE DEF j
  <2> QED BY <1>3, <1>7 DEF Spine
<1>9. TreeHash[<<x, m>>] = hash_node(TreeHash[<<x, x + p - 1>>], TreeHash[<<x + p, m>>])
  <2>1. x + p <= m /\ m < x + 2 * p
    BY <1>2, <1>3, <1>4
  <2> QED BY <1>2, <1>3, <2>1, Node
<1> QED BY <1>2, <1>4, <1>8, <1>9

\* Neither a node over a value that is no later tail ...
LEMMA NoTailNode ==
  ASSUME NEW v, NEW s, NEW m \in 1..MaxRecords, NEW a \in Int, NEW b \in Int,
         NoTail(v, m, b), \A x \in Spine(m) : x > a => x >= b
  PROVE  NoTail(hash_node(s, v), m, a)
<1> SUFFICES ASSUME NEW x \in Spine(m), x > a
             PROVE  hash_node(s, v) # TreeHash[<<x, m>>]
  BY DEF NoTail
<1>1. x \in 1..m /\ x \in 1..MaxRecords /\ x \in Nat /\ m \in Nat
  BY SpineBounds
<1>2. CASE x = m
  <2>1. TreeHash[<<x, m>>] = hash_leaf(x)
    BY <1>1, <1>2, Leaf
  <2> QED BY <2>1, HashesDiffer
<1>3. CASE x < m
  <2>1. PICK y \in Spine(m) : x < y /\ \E h : TreeHash[<<x, m>>] = hash_node(h, TreeHash[<<y, m>>])
    BY <1>3, SpineNext
  <2>2. y \in Nat /\ x >= b
    BY SpineBounds
  <2>3. y > b
    BY <1>1, <2>1, <2>2
  <2>4. v # TreeHash[<<y, m>>]
    BY <2>3 DEF NoTail
  <2> QED BY <2>1, <2>4, HashesDiffer
<1> QED BY <1>1, <1>2, <1>3

\* ... nor one over a value that is no smaller block can be a later tail.
LEMMA NoTailEdge ==
  ASSUME NEW v, NEW s, NEW w \in Powers, NoBlock(v, w), NEW m \in 1..MaxRecords, NEW l \in Nat,
         Position(l, w, m - 1)
  PROVE  NoTail(hash_node(v, s), m, (l \div 2) * (2 * w) + 1)
<1> SUFFICES ASSUME NEW x \in Spine(m), x > (l \div 2) * (2 * w) + 1
             PROVE  hash_node(v, s) # TreeHash[<<x, m>>]
  BY DEF NoTail
<1>1. x \in 1..m /\ x \in 1..MaxRecords /\ x \in Nat /\ m \in Nat /\ m \in 1..MaxRecords
      /\ w \in Nat \ {0} /\ l * w \in Nat /\ (l \div 2) * (2 * w) \in Nat
  BY SpineBounds, PowerFacts, Doubled
<1>2. CASE x = m
  <2>1. TreeHash[<<x, m>>] = hash_leaf(x)
    BY <1>1, <1>2, Leaf
  <2> QED BY <2>1, HashesDiffer
<1>3. CASE x < m
  <2> DEFINE p == SplitAt[m - x + 1]
  <2>1. p \in Powers /\ p < m - x + 1 /\ m - x + 1 <= 2 * p
    <3>1. m - x + 1 \in 2..MaxRecords
      BY <1>1, <1>3, BoundsAssumption
    <3> QED BY <3>1, SplitDef
  <2> HIDE DEF p
  <2>2. p \in Nat \ {0}
    BY <2>1, PowerFacts
  <2>3. TreeHash[<<x, m>>] = hash_node(TreeHash[<<x, x + p - 1>>], TreeHash[<<x + p, m>>])
    <3>1. x + p <= m /\ m < x + 2 * p
      BY <1>1, <2>1, <2>2
    <3> QED BY <1>1, <2>1, <3>1, Node
  <2>4. x - 1 >= l * w
    BY <1>1, SpineOrder
  <2>5. p < w /\ x + p - 1 <= MaxRecords
    <3>1. m - 1 < l * w + w
      BY <1>1, Doubled DEF Position
    <3> QED BY <1>1, <2>1, <2>2, <2>4, <3>1, BoundsAssumption
  <2>6. v # TreeHash[<<x, x + p - 1>>]
    BY <1>1, <2>1, <2>5 DEF NoBlock
  <2> QED BY <2>3, <2>6, HashesDiffer
<1> QED BY <1>1, <1>2, <1>3

\* A node stands for the parent block exactly if both its parts are right.
LEMMA HonestNode ==
  ASSUME NEW t \in Nat, NEW d, NEW b \in Blocks, NEW up \in Blocks, NEW c \in Blocks, NEW H, NEW v,
         NEW s \in H, NEW u \in Seq(H), TreeHashes \subseteq H,
         Honest(t, d, b, v, u), AuditPath(t + 1)[up] = Append(AuditPath(t + 1)[b], TreeHash[c])
  PROVE  /\ TreeHash[up] = hash_node(TreeHash[c], TreeHash[b]) =>
              Honest(t, d, up, hash_node(s, v), Append(u, s))
         /\ TreeHash[up] = hash_node(TreeHash[b], TreeHash[c]) =>
              Honest(t, d, up, hash_node(v, s), Append(u, s))
<1> DEFINE p == AuditPath(t + 1)[b]
           h == TreeHash[c]
<1>1. p \in Seq(H) /\ h \in H
  <2>1. p \in Seq(TreeHashes) /\ h \in TreeHashes
    BY PathType DEF TreeHashes
  <2> QED BY <2>1
<1> HIDE DEF p, h
<1>2. Append(u, s) = Append(p, h) <=> u = p /\ s = h
  BY <1>1, AppendInjective
<1>3. Len(u) = Len(p) => Len(Append(u, s)) = Len(Append(p, h))
  BY <1>1
<1> QED BY <1>2, <1>3, HashesDiffer DEF Honest, p, h

\* The audit path within a block is shorter than the whole one, unless the
\* block is the whole list.
LEMMA PathGrows ==
  ASSUME NEW m \in 1..MaxRecords, NEW t \in 0..m - 1
  PROVE  \A w \in Powers, i, l \in Nat :
           Position(i, w, t) /\ Position(l, w, m - 1) /\ l # 0 =>
             Len(AuditPath(t + 1)[Block(i, l, w, m)]) < Len(AuditPath(t + 1)[<<1, m>>])
<1> DEFINE Size(i, l, w) == Len(AuditPath(t + 1)[Block(i, l, w, m)])
           Whole == Len(AuditPath(t + 1)[<<1, m>>])
           T == {d \in Nat : \A w \in Powers, i, l \in Nat :
                   w + d >= m /\ Position(i, w, t) /\ Position(l, w, m - 1) /\ l # 0 => Size(i, l, w) < Whole}
<1>1. m \in Nat /\ m \in 1..MaxRecords /\ t \in Nat /\ t <= m - 1
  BY BoundsAssumption
<1>2. ASSUME NEW d \in Nat, \A j \in Nat : j < d => j \in T,
             NEW w \in Powers, NEW i \in Nat, NEW l \in Nat,
             w + d >= m, Position(i, w, t), Position(l, w, m - 1), l # 0
      PROVE  Size(i, l, w) < Whole
  <2> DEFINE j == i \div 2
             k == l \div 2
             W == 2 * w
             me == Block(i, l, w, m)
             up == Block(j, k, W, m)
  <2>1. w \in Nat \ {0} /\ W \in Powers /\ j \in Nat /\ k \in Nat
    BY PowerFacts
  <2>2. Position(j, W, t) /\ Position(k, W, m - 1)
    BY <1>1, <1>2, <2>1, Halve
  <2>3. i \in 0..l /\ j \in 0..k
    <3>1. i <= l
      BY <1>1, <1>2, <2>1, Earlier
    <3> QED BY <3>1
  <2>4. w < m
    <3>1. 1 * w <= l * w /\ l * w <= m - 1
      BY <1>2, <2>1, Monotone DEF Position
    <3> QED BY <1>1, <2>1, <3>1
  <2>5. k # 0 => Size(j, k, W) < Whole
    <3>1. d - 1 \in Nat /\ W + (d - 1) >= m
      BY <1>1, <1>2, <2>1, <2>4
    <3>2. d - 1 \in T
      BY <1>2, <3>1
    <3> HIDE DEF j, k, W
    <3> QED BY <2>1, <2>2, <3>1, <3>2
  <2>6. k = 0 => Size(j, k, W) = Whole
    <3> SUFFICES ASSUME k = 0 PROVE up = <<1, m>>
      OBVIOUS
    <3>1. j = 0
      BY <2>3
    <3> HIDE DEF j, k, W
    <3>2. 0 * W = 0
      BY <2>1, PowerFacts
    <3> QED BY <3>1, <3>2 DEF Block
  <2>7. CASE i % 2 = 0 /\ i = l
    <3>1. up = me /\ k # 0
      <4>1. up = me
        BY <1>2, <2>3, <2>7, Parent
      <4> QED BY <1>2, <2>7, <4>1
    <3> QED BY <2>5, <3>1
  <2>8. CASE ~(i % 2 = 0 /\ i = l)
    <3>1. \E c \in Blocks : AuditPath(t + 1)[up] = Append(AuditPath(t + 1)[me], TreeHash[c])
      <4> DEFINE left == Block(i - 1, l, w, m)
                 right == Block(i + 1, l, w, m)
      <4>1. /\ i % 2 = 1 =>
                 left \in Blocks /\ AuditPath(t + 1)[up] = Append(AuditPath(t + 1)[me], TreeHash[left])
            /\ i % 2 = 0 /\ i < l =>
                 right \in Blocks /\ AuditPath(t + 1)[up] = Append(AuditPath(t + 1)[me], TreeHash[right])
        <5>1. Position(i, w, t) /\ Position(l, w, m - 1) /\ t \in Nat
          BY <1>1, <1>2
        <5>2. /\ i % 2 = 1 => left \in Blocks
              /\ i % 2 = 1 /\ Position(i, w, t) =>
                   AuditPath(t + 1)[up] = Append(AuditPath(t + 1)[me], TreeHash[left])
          BY <2>3, <5>1, Parent
        <5>3. /\ i % 2 = 0 /\ i < l => right \in Blocks
              /\ i % 2 = 0 /\ i < l /\ Position(i, w, t) =>
                   AuditPath(t + 1)[up] = Append(AuditPath(t + 1)[me], TreeHash[right])
          BY <2>3, <5>1, Parent
        <5> HIDE DEF up, me, left, right
        <5> QED BY <5>1, <5>2, <5>3
      <4>2. i % 2 = 1 \/ (i % 2 = 0 /\ i < l)
        BY <2>3, <2>8
      <4> HIDE DEF up, me, left, right
      <4> QED BY <4>1, <4>2
    <3>2. PICK c \in Blocks : AuditPath(t + 1)[up] = Append(AuditPath(t + 1)[me], TreeHash[c])
      BY <3>1
    <3>3. AuditPath(t + 1)[me] \in Seq(TreeHashes) /\ TreeHash[c] \in TreeHashes
      <4>1. me \in Blocks
        BY <1>2, <2>3, BlockBounds
      <4>2. t + 1 \in Nat
        BY <1>1
      <4> HIDE DEF me
      <4> QED BY <4>1, <4>2, PathType DEF TreeHashes
    <3> DEFINE a == AuditPath(t + 1)[me]
    <3>4. Size(i, l, w) \in Nat /\ Size(j, k, W) = Size(i, l, w) + 1
      <4>1. a \in Seq(TreeHashes) /\ Len(a) = Size(i, l, w) /\ Len(Append(a, TreeHash[c])) = Size(j, k, W)
        BY <3>2, <3>3
      <4> HIDE DEF a
      <4> QED BY <3>3, <4>1
    <3> HIDE DEF j, k, W
    <3>5. Size(j, k, W) <= Whole
      <4>1. Size(j, k, W) \in Nat
        BY <3>4
      <4>2. CASE k = 0
        BY <2>6, <4>1, <4>2
      <4>3. CASE k # 0
        <5>1. Whole \in Nat
          <6>1. <<1, m>> \in Blocks /\ t + 1 \in Nat
            BY <1>1, BoundsAssumption DEF Blocks
          <6> QED BY <6>1, PathType
        <5> QED BY <2>5, <4>1, <4>3, <5>1
      <4> QED BY <4>2, <4>3
    <3>6. Whole \in Nat
      <4>1. <<1, m>> \in Blocks /\ t + 1 \in Nat
        BY <1>1, BoundsAssumption DEF Blocks
      <4> QED BY <4>1, PathType
    <3> HIDE DEF Size, Whole
    <3> QED BY <3>4, <3>5, <3>6
  <2> QED BY <2>7, <2>8
<1> HIDE DEF Size, Whole
<1>3. ASSUME NEW d \in Nat, \A j \in Nat : j < d => j \in T
      PROVE  d \in T
  BY <1>2, <1>3
<1> HIDE DEF T
<1>4. T = Nat
  BY <1>3, StrongInduction DEF T
<1>5. ASSUME NEW w \in Powers, NEW i \in Nat, NEW l \in Nat,
             Position(i, w, t), Position(l, w, m - 1), l # 0
      PROVE  Size(i, l, w) < Whole
  <2>1. m \in T /\ w + m >= m
    BY <1>1, <1>4, PowerFacts
  <2> QED BY <1>5, <2>1 DEF T
<1> QED BY <1>5 DEF Size, Whole
-----------------------------------------------------------------------------
\* The blocks of width 1 are the records.
LEMMA UnitBlocks ==
  ASSUME NEW m \in 1..MaxRecords, NEW i \in 0..m - 1
  PROVE  /\ 1 \in Powers /\ m - 1 \in Nat /\ i \in Nat
         /\ Position(i, 1, i) /\ Position(m - 1, 1, m - 1)
         /\ Block(i, m - 1, 1, m) = <<i + 1, i + 1>>
         /\ <<i + 1, i + 1>> \in Blocks
         /\ TreeHash[<<i + 1, i + 1>>] = hash_leaf(i + 1)
         /\ \A t \in Nat : AuditPath(t)[<<i + 1, i + 1>>] = << >>
<1>1. i + 1 \in 1..MaxRecords /\ m - 1 \in Nat /\ i \in Nat /\ m \in Nat
  BY BoundsAssumption
<1>2. Block(i, m - 1, 1, m) = <<i + 1, i + 1>>
  BY <1>1 DEF Block
<1>3. Position(i, 1, i) /\ Position(m - 1, 1, m - 1)
  BY <1>1 DEF Position
<1> QED BY <1>1, <1>2, <1>3, Leaf, PowerFacts

LEMMA InitInv == Init => MerkleInv
<1> SUFFICES ASSUME Init PROVE MerkleInv
  OBVIOUS
<1>1. /\ n \in 1..MaxRecords /\ target \in 0..n - 1 /\ n \in Nat /\ target \in Nat
      /\ level = [i \in 1..n |-> hash_leaf(i)] /\ pos = target /\ path = << >> /\ phase = "build"
      /\ digest = 0 /\ used = << >> /\ index = 0 /\ last = 0
  BY BoundsAssumption DEF Init, Leaves
<1>2. \A i \in 0..n - 1 : level[i + 1] = TreeHash[<<i + 1, i + 1>>] /\ <<i + 1, i + 1>> \in Blocks
  <2> SUFFICES ASSUME NEW i \in 0..n - 1
               PROVE  level[i + 1] = TreeHash[<<i + 1, i + 1>>] /\ <<i + 1, i + 1>> \in Blocks
    OBVIOUS
  <2>1. TreeHash[<<i + 1, i + 1>>] = hash_leaf(i + 1) /\ <<i + 1, i + 1>> \in Blocks
    BY <1>1, UnitBlocks
  <2>2. i + 1 \in 1..n
    BY <1>1
  <2>3. level[i + 1] = hash_leaf(i + 1)
    BY <1>1, <2>2
  <2> QED BY <2>1, <2>3
<1>3. level \in Seq(TreeHashes) /\ Len(level) = n
  <2>1. ASSUME NEW i \in 1..n PROVE hash_leaf(i) \in TreeHashes
    <3>1. i - 1 \in 0..n - 1 /\ (i - 1) + 1 = i
      BY <1>1
    <3>2. <<i, i>> \in Blocks /\ TreeHash[<<i, i>>] = hash_leaf(i)
      BY <1>1, <3>1, UnitBlocks
    <3> QED BY <3>2 DEF TreeHashes
  <2> QED BY <1>1, <2>1
<1>4. TypeOK
  BY <1>1, <1>3, BoundsAssumption DEF TypeOK
<1>5. Sizes
  BY <1>1, <1>3 DEF Sizes
<1>6. BuiltTo(1)
  <2>1. \A i \in 0..n - 1 : Block(i, n - 1, 1, n) = <<i + 1, i + 1>>
    BY <1>1, UnitBlocks
  <2>2. Position(n - 1, 1, n - 1) /\ Position(pos, 1, target)
    BY <1>1, UnitBlocks
  <2>3. AuditPath(target + 1)[<<target + 1, target + 1>>] = << >>
    <3>1. target + 1 \in Nat /\ target + 1 \in 1..MaxRecords
      BY <1>1, BoundsAssumption
    <3> QED BY <3>1, Leaf
  <2> QED BY <1>1, <1>2, <1>3, <2>1, <2>2, <2>3 DEF BuiltTo
<1>7. FoldInv
  BY <1>1 DEF FoldInv
<1> QED BY <1>4, <1>5, <1>6, <1>7, PowerFacts DEF MerkleInv

\* One iteration of the loops over level doubles the width.
LEMMA ClimbStep == MerkleInv /\ Climb => MerkleInv'
<1> SUFFICES ASSUME MerkleInv, Climb PROVE MerkleInv'
  OBVIOUS
<1> DEFINE L == Len(level)
           l == L - 1
<1>1. /\ n \in 1..MaxRecords /\ target \in 0..n - 1 /\ n \in Nat /\ target \in Nat /\ n \in 1..MaxRecords
      /\ L \in 1..n /\ pos \in 0..l /\ L > 1 /\ l \in Nat /\ pos \in Nat
      /\ level \in Seq(TreeHashes) /\ path \in Seq(TreeHashes) /\ Len(path) + L <= n
  BY BoundsAssumption DEF MerkleInv, TypeOK, Sizes, Climb
<1>2. PICK w \in Powers : BuiltTo(w)
  BY DEF MerkleInv
<1>3. /\ Position(l, w, n - 1) /\ Position(pos, w, target)
      /\ \A i \in 0..l : level[i + 1] = TreeHash[Block(i, l, w, n)]
      /\ path = AuditPath(target + 1)[Block(pos, l, w, n)]
  BY <1>2 DEF BuiltTo
<1>4. w \in Nat /\ 2 * w \in Powers
  BY PowerFacts
<1>5. /\ level' = NextLevel(level) /\ pos' = pos \div 2
      /\ path' = IF Sibling < L THEN Append(path, level[Sibling + 1]) ELSE path
      /\ n' = n /\ target' = target
  BY DEF Climb
<1>6. /\ level' = [p \in 1..(L + 1) \div 2 |->
            IF 2 * p <= L THEN hash_node(level[2 * p - 1], level[2 * p]) ELSE level[2 * p - 1]]
      /\ (L + 1) \div 2 \in Nat /\ (L + 1) \div 2 >= 1 /\ (L + 1) \div 2 <= L - 1
      /\ (L + 1) \div 2 - 1 = l \div 2 /\ l \div 2 \in Nat
  <2>1. level' = [p \in 1..(L + 1) \div 2 |->
            IF 2 * p <= L THEN hash_node(level[2 * p - 1], level[2 * p]) ELSE level[2 * p - 1]]
    BY <1>5, Zenon DEF NextLevel
  <2> HIDE DEF L
  <2> QED BY <1>1, <2>1
<1>7. Position(l \div 2, 2 * w, n - 1) /\ Position(pos \div 2, 2 * w, target) /\ pos \div 2 \in 0..(l \div 2)
  <2>1. n - 1 \in Nat
    BY <1>1
  <2> QED BY <1>1, <1>3, <1>4, <2>1, Halve
<1>8. ASSUME NEW i \in 0..(l \div 2)
      PROVE  level'[i + 1] = TreeHash[Block(i, l \div 2, 2 * w, n)]
  <2> DEFINE a == 2 * i
  <2>1. /\ a \in 0..l /\ a % 2 = 0 /\ a \div 2 = i /\ i + 1 \in 1..(L + 1) \div 2
        /\ 2 * (i + 1) - 1 = a + 1 /\ 2 * (i + 1) = (a + 1) + 1 /\ a \in Nat
        /\ 2 * (i + 1) <= L <=> a < l
    BY <1>1, <1>6
  <2>2. level'[i + 1] = IF a < l THEN hash_node(level[a + 1], level[(a + 1) + 1]) ELSE level[a + 1]
    <3> HIDE DEF a, l, L
    <3> QED BY <1>6, <2>1
  <2> HIDE DEF a, l
  <2>3. level[a + 1] = TreeHash[Block(a, l, w, n)]
    BY <1>3, <2>1
  <2>4. CASE a < l
    <3> DEFINE c == a + 1
    <3>1. c \in 0..l
      BY <1>1, <2>1, <2>4
    <3>2. level[c + 1] = TreeHash[Block(c, l, w, n)]
      <4> HIDE DEF c
      <4> QED BY <1>3, <3>1
    <3>3. TreeHash[Block(a \div 2, l \div 2, 2 * w, n)] = hash_node(TreeHash[Block(a, l, w, n)], TreeHash[Block(a + 1, l, w, n)])
      BY <1>1, <1>3, <2>1, <2>4, Parent
    <3> QED BY <2>1, <2>2, <2>3, <2>4, <3>2, <3>3
  <2>5. CASE ~(a < l)
    <3>1. a = l
      BY <1>1, <2>1, <2>5
    <3>2. Block(a \div 2, l \div 2, 2 * w, n) = Block(a, l, w, n)
      BY <1>1, <1>3, <2>1, <3>1, Parent
    <3> QED BY <2>1, <2>2, <2>3, <2>5, <3>2
  <2> QED BY <2>4, <2>5
<1>9. level' \in Seq(TreeHashes) /\ Len(level') = (L + 1) \div 2
  <2> DEFINE K == (L + 1) \div 2
  <2>1. K \in Nat /\ DOMAIN level' = 1..K /\ level' = [p \in 1..K |-> level'[p]]
    BY <1>6
  <2>2. ASSUME NEW p \in 1..K PROVE level'[p] \in TreeHashes
    <3> DEFINE i == p - 1
    <3>1. i \in 0..(l \div 2) /\ i + 1 = p
      BY <1>6, <2>1
    <3>2. level'[p] = TreeHash[Block(i, l \div 2, 2 * w, n)]
      <4> HIDE DEF i
      <4> QED BY <1>8, <3>1
    <3>3. Block(i, l \div 2, 2 * w, n) \in Blocks
      <4> HIDE DEF i, l
      <4> QED BY <1>1, <1>4, <1>6, <1>7, <3>1, BlockBounds
    <3> QED BY <3>2, <3>3 DEF TreeHashes
  <2> HIDE DEF K
  <2>3. level' \in [1..K -> TreeHashes]
    BY <2>1, <2>2
  <2> QED BY <2>1, <2>3 DEF K
<1>10. /\ path' = AuditPath(target + 1)[Block(pos \div 2, l \div 2, 2 * w, n)]
       /\ path' \in Seq(TreeHashes) /\ Len(path') <= Len(path) + 1
  <2> DEFINE up == Block(pos \div 2, l \div 2, 2 * w, n)
             me == Block(pos, l, w, n)
             left == Block(pos - 1, l, w, n)
             right == Block(pos + 1, l, w, n)
  <2>1. /\ pos % 2 = 1 =>
             /\ left \in Blocks
             /\ Position(pos, w, target) =>
                  AuditPath(target + 1)[up] = Append(AuditPath(target + 1)[me], TreeHash[left])
        /\ pos % 2 = 0 /\ pos < l =>
             /\ right \in Blocks
             /\ Position(pos, w, target) =>
                  AuditPath(target + 1)[up] = Append(AuditPath(target + 1)[me], TreeHash[right])
        /\ pos % 2 = 0 /\ pos = l => up = me
    BY <1>1, <1>3, Parent
  <2>2. path = AuditPath(target + 1)[me]
    BY <1>3
  <2>3. CASE pos % 2 = 1
    <3> DEFINE c == pos - 1
    <3>1. Sibling = c /\ c < L /\ c \in 0..l
      BY <1>1, <2>3 DEF Sibling
    <3>2. level[c + 1] = TreeHash[Block(c, l, w, n)]
      <4> HIDE DEF c, l, L
      <4> QED BY <1>3, <3>1
    <3>3. path' = Append(path, TreeHash[left]) /\ TreeHash[left] \in TreeHashes
      BY <1>5, <2>1, <2>3, <3>1, <3>2 DEF TreeHashes
    <3>4. path' = AuditPath(target + 1)[up]
      <4> HIDE DEF up, me, left, right, c
      <4> QED BY <1>3, <2>1, <2>2, <2>3, <3>3
    <3> DEFINE h == TreeHash[left]
    <3>5. Append(path, h) \in Seq(TreeHashes) /\ Len(Append(path, h)) = Len(path) + 1 /\ Len(path) \in Nat
      <4> HIDE DEF h
      <4> QED BY <1>1, <3>3 DEF h
    <3>6. path' \in Seq(TreeHashes) /\ Len(path') <= Len(path) + 1
      <4> HIDE DEF up, me, left, right
      <4> QED BY <3>3, <3>5
    <3> QED BY <3>4, <3>6
  <2>4. CASE pos % 2 = 0 /\ pos < l
    <3> DEFINE c == pos + 1
    <3>1. Sibling = c /\ c < L /\ c \in 0..l
      BY <1>1, <2>4 DEF Sibling
    <3>2. level[c + 1] = TreeHash[Block(c, l, w, n)]
      <4> HIDE DEF c, l, L
      <4> QED BY <1>3, <3>1
    <3>3. path' = Append(path, TreeHash[right]) /\ TreeHash[right] \in TreeHashes
      BY <1>5, <2>1, <2>4, <3>1, <3>2 DEF TreeHashes
    <3>4. path' = AuditPath(target + 1)[up]
      <4> HIDE DEF up, me, left, right, c
      <4> QED BY <1>3, <2>1, <2>2, <2>4, <3>3
    <3> DEFINE h == TreeHash[right]
    <3>5. Append(path, h) \in Seq(TreeHashes) /\ Len(Append(path, h)) = Len(path) + 1 /\ Len(path) \in Nat
      <4> HIDE DEF h
      <4> QED BY <1>1, <3>3 DEF h
    <3>6. path' \in Seq(TreeHashes) /\ Len(path') <= Len(path) + 1
      <4> HIDE DEF up, me, left, right
      <4> QED BY <3>3, <3>5
    <3> QED BY <3>4, <3>6
  <2>5. CASE pos % 2 = 0 /\ ~(pos < l)
    <3>1. pos = l /\ ~(Sibling < L)
      BY <1>1, <2>5 DEF Sibling
    <3>2. path' = path /\ up = me
      <4> HIDE DEF up, me, left, right
      <4> QED BY <1>5, <2>1, <2>5, <3>1
    <3> QED BY <1>1, <2>2, <3>2
  <2> QED BY <1>1, <2>3, <2>4, <2>5
<1>11. BuiltTo(2 * w)'
  <2>1. Len(level') - 1 = l \div 2
    BY <1>6, <1>9
  <2> HIDE DEF l, L
  <2> QED BY <1>5, <1>7, <1>8, <1>10, <2>1 DEF BuiltTo
<1>12. TypeOK' /\ Sizes'
  <2>1. UNCHANGED <<n, target, phase, digest, used, index, last>>
    BY DEF Climb
  <2>2. TypeOK /\ Sizes
    BY DEF MerkleInv
  <2>3. Len(path') \in Nat /\ Len(path) \in Nat
    BY <1>1, <1>10
  <2>4. Len(path') + Len(level') <= n /\ Len(level') \in 1..n
    <3> HIDE DEF L
    <3>1. Len(level') = (L + 1) \div 2 /\ Len(path') <= Len(path) + 1
      BY <1>9, <1>10
    <3> QED BY <1>1, <1>6, <2>3, <3>1
  <2>5. pos' \in 0..Len(level') - 1 /\ Len(path') < n
    BY <1>1, <1>5, <1>6, <1>7, <1>9, <2>3, <2>4
  <2>6. TypeOK'
    BY <2>1, <2>2, <2>4, <2>5 DEF TypeOK
  <2> QED BY <1>9, <1>10, <2>1, <2>2, <2>4, <2>6 DEF Sizes
<1>13. FoldInv'
  BY DEF MerkleInv, FoldInv, Climb
<1> QED BY <1>4, <1>11, <1>12, <1>13 DEF MerkleInv

\* A proof starts at width 1.
LEMMA PresentStep ==
  ASSUME MerkleInv, NEW count \in 1..MaxRecords, NEW d \in 0..n, Present(count, d)
  PROVE  MerkleInv'
<1>1. /\ n \in 1..MaxRecords /\ target \in 0..n - 1 /\ n \in Nat /\ target \in Nat
      /\ used = << >> /\ index = 0 /\ last = 0 /\ Len(level) = 1
      /\ n' = n /\ target' = target /\ level' = level /\ pos' = pos /\ path' = path /\ used' = used
      /\ digest' = d
  BY BoundsAssumption DEF MerkleInv, TypeOK, FoldInv, Present
<1>2. \E w \in Powers : BuiltTo(w)'
  BY <1>1 DEF MerkleInv, BuiltTo
<1>3. CASE count # n
  <2>1. phase' = "rejected" /\ index' = index /\ last' = last
    BY <1>3 DEF Present
  <2>2. TypeOK' /\ Sizes'
    BY <1>1, <2>1 DEF MerkleInv, TypeOK, Sizes
  <2>3. FoldInv'
    BY <1>1, <2>1 DEF FoldInv
  <2> QED BY <1>2, <2>2, <2>3 DEF MerkleInv
<1>4. CASE count = n
  <2>1. phase' = "fold" /\ index' = target /\ last' = n - 1 /\ value' = hash_leaf(d)
    BY <1>4 DEF Present
  <2>2. TypeOK' /\ Sizes'
    <3>1. TypeOK /\ Sizes
      BY DEF MerkleInv
    <3>2. last' \in 0..n - 1 /\ index' \in 0..last'
      BY <1>1, <2>1
    <3>3. TypeOK'
      BY <1>1, <2>1, <3>1, <3>2 DEF TypeOK
    <3> QED BY <1>1, <3>1, <3>3 DEF Sizes
  <2>3. /\ 1 \in Powers
        /\ Position(target, 1, target) /\ Position(n - 1, 1, n - 1)
        /\ Block(target, n - 1, 1, n) = <<target + 1, target + 1>>
        /\ TreeHash[<<target + 1, target + 1>>] = hash_leaf(target + 1)
    BY <1>1, UnitBlocks
  <2>4. AuditPath(target + 1)[<<target + 1, target + 1>>] = << >>
    <3>1. target + 1 \in Nat /\ target + 1 \in 1..MaxRecords
      BY <1>1, BoundsAssumption
    <3> QED BY <3>1, Leaf
  <2>5. Honest(target, d, Block(target, n - 1, 1, n), hash_leaf(d), << >>)
    <3> DEFINE b == <<target + 1, target + 1>>
    <3>1. TreeHash[b] = hash_leaf(target + 1) /\ AuditPath(target + 1)[b] = << >>
      BY <2>3, <2>4
    <3> HIDE DEF b
    <3>2. Honest(target, d, b, hash_leaf(d), << >>)
      BY <3>1, HashesDiffer DEF Honest
    <3> QED BY <2>3, <3>2 DEF b
  <2>6. NoBlock(hash_leaf(d), 1)
    BY PowerFacts DEF NoBlock
  <2>7. target = n - 1 => NoTail(hash_leaf(d), n, target * 1 + 1)
    BY <1>1, SpineBounds DEF NoTail
  <2>8. FoldedTo(1)'
    BY <1>1, <2>1, <2>3, <2>5, <2>6, <2>7 DEF FoldedTo
  <2>9. FoldInv'
    BY <1>1, <2>1, <2>3, <2>8 DEF FoldInv
  <2> QED BY <1>2, <2>2, <2>9 DEF MerkleInv
<1> QED BY <1>3, <1>4

LEMMA ConcludeStep == MerkleInv /\ Conclude => MerkleInv'
<1> SUFFICES ASSUME MerkleInv, Conclude PROVE MerkleInv'
  OBVIOUS
<1>1. /\ UNCHANGED <<n, target, level, pos, path, digest, used, index, last, value>>
      /\ phase = "fold" /\ phase' \in {"accepted", "rejected"}
      /\ phase' = "accepted" => last = 0 /\ value = level[1]
  BY DEF Conclude
<1>2. TypeOK' /\ Sizes' /\ \E w \in Powers : BuiltTo(w)'
  BY <1>1 DEF MerkleInv, TypeOK, Sizes, BuiltTo
<1>3. (\E w \in Powers : FoldedTo(w)') \/ Overrun'
  BY <1>1 DEF MerkleInv, FoldInv, FoldedTo, Overrun
<1>4. FoldInv'
  BY <1>1, <1>3 DEF MerkleInv, FoldInv
<1> QED BY <1>2, <1>4 DEF MerkleInv
-----------------------------------------------------------------------------
(* A step of the verifier. *)

\* What an iteration of the verifier leaves alone, and its types.
LEMMA FoldTypes ==
  ASSUME MerkleInv, NEW s \in SiblingHashes[n], Fold(s)
  PROVE  /\ TypeOK' /\ Sizes' /\ \E w \in Powers : BuiltTo(w)'
         /\ n' = n /\ target' = target /\ digest' = digest /\ level' = level
         /\ phase = "fold" /\ phase' = "fold" /\ used' = Append(used, s)
         /\ Len(used') = Len(used) + 1
<1>1. /\ UNCHANGED <<n, target, phase, level, pos, path, digest>> /\ phase = "fold"
      /\ used' = Append(used, s) /\ Len(used) < MaxPath
  BY DEF Fold
<1>2. TypeOK /\ Sizes
  BY DEF MerkleInv
<1>3. used' \in Seq(TreeHashes \cup SiblingHashes[n]) /\ Len(used') = Len(used) + 1
  <2> DEFINE H == TreeHashes \cup SiblingHashes[n]
  <2>1. used \in Seq(H) /\ s \in H
    BY <1>2 DEF Sizes
  <2> HIDE DEF H
  <2>2. Append(used, s) \in Seq(H) /\ Len(Append(used, s)) = Len(used) + 1
    BY <2>1
  <2> QED BY <1>1, <2>2 DEF H
<1>4. last' \in 0..n - 1 /\ index' \in 0..last'
  <2>1. n \in 1..MaxRecords /\ last \in 0..n - 1 /\ index \in 0..last
    BY <1>2 DEF TypeOK
  <2>2. CASE index # last
    <3>1. index' = index \div 2 /\ last' = last \div 2
      BY <2>2 DEF Fold
    <3> QED BY <2>1, <2>2, <3>1, BoundsAssumption
  <2>3. CASE index = last
    <3>1. index' = OddPart[last] \div 2 /\ last' = OddPart[last] \div 2
      BY <2>3 DEF Fold
    <3>2. OddPart[last] \in 0..last
      <4>1. CASE last = 0
        BY <4>1, OddPartFacts
      <4>2. CASE last # 0
        <5>1. last \in 1..MaxRecords /\ last \in Nat
          BY <2>1, <4>2, BoundsAssumption
        <5>2. PICK z \in Powers : last = OddPart[last] * z
          BY <5>1, OddPartFacts
        <5>3. OddPart[last] \in Nat /\ z \in Nat \ {0}
          BY <5>1, OddPartFacts, PowerFacts
        <5>4. 1 * OddPart[last] <= z * OddPart[last]
          BY <5>3, Monotone
        <5> QED BY <5>1, <5>2, <5>3, <5>4
      <4> QED BY <4>1, <4>2
    <3> QED BY <2>1, <3>1, <3>2, BoundsAssumption
  <2> QED BY <2>2, <2>3
<1>5. Len(used') \in 0..MaxPath
  BY <1>1, <1>2, <1>3, BoundsAssumption DEF TypeOK
<1>6. TypeOK' /\ Sizes'
  BY <1>1, <1>2, <1>3, <1>4, <1>5 DEF TypeOK, Sizes
<1>7. \E w \in Powers : BuiltTo(w)'
  BY <1>1 DEF MerkleInv, BuiltTo
<1> QED BY <1>1, <1>3, <1>6, <1>7

\* One level up, the index being below last.
LEMMA FoldBelow ==
  ASSUME MerkleInv, NEW s \in SiblingHashes[n], Fold(s), NEW w \in Powers, FoldedTo(w), index < last
  PROVE  FoldedTo(2 * w)'
<1> DEFINE H == TreeHashes \cup SiblingHashes[n]
           i == index
           l == last
           up == Block(i \div 2, l \div 2, 2 * w, n)
           me == Block(i, l, w, n)
           left == Block(i - 1, l, w, n)
           right == Block(i + 1, l, w, n)
<1>1. /\ n \in 1..MaxRecords /\ target \in Nat /\ n - 1 \in Nat /\ i \in 0..l /\ l \in Nat /\ i \in Nat
      /\ w \in Nat \ {0} /\ 2 * w \in Powers
      /\ used \in Seq(H) /\ s \in H /\ TreeHashes \subseteq H
  <2>1. n \in 1..MaxRecords /\ target \in 0..n - 1 /\ last \in 0..n - 1 /\ index \in 0..last
    BY DEF MerkleInv, TypeOK
  <2>2. used \in Seq(H)
    BY DEF MerkleInv, Sizes
  <2>3. w \in Nat \ {0} /\ 2 * w \in Powers
    BY PowerFacts
  <2>4. target \in Nat /\ n - 1 \in Nat /\ i \in 0..l /\ l \in Nat /\ i \in Nat
    BY <2>1, BoundsAssumption
  <2> QED BY <2>1, <2>2, <2>3, <2>4
<1>2. /\ Position(i, w, target) /\ Position(l, w, n - 1) /\ Honest(target, digest, me, value, used)
      /\ NoBlock(value, w)
  BY DEF FoldedTo
<1>3. /\ index' = i \div 2 /\ last' = l \div 2 /\ used' = Append(used, s)
      /\ value' = IF i % 2 = 1 THEN hash_node(s, value) ELSE hash_node(value, s)
      /\ n' = n /\ target' = target /\ digest' = digest
  BY <1>1 DEF Fold
<1>4. Position(i \div 2, 2 * w, target) /\ Position(l \div 2, 2 * w, n - 1) /\ i \div 2 \in 0..(l \div 2)
      /\ l \div 2 \in Nat
  BY <1>1, <1>2, Halve
<1>5. me \in Blocks /\ up \in Blocks
  <2>1. me \in Blocks
    BY <1>1, <1>2, BlockBounds
  <2> DEFINE j == i \div 2
             k == l \div 2
             W == 2 * w
  <2>2. Block(j, k, W, n) \in Blocks
    <3>1. W \in Powers /\ k \in Nat /\ j \in 0..k /\ Position(k, W, n - 1)
      BY <1>1, <1>4
    <3> HIDE DEF j, k, W
    <3> QED BY <1>1, <3>1, BlockBounds
  <2> QED BY <2>1, <2>2
<1>6. Honest(target, digest, up, value', used')
  <2>1. /\ i % 2 = 1 => /\ left \in Blocks
                        /\ TreeHash[up] = hash_node(TreeHash[left], TreeHash[me])
        /\ i % 2 = 1 /\ Position(i, w, target) =>
             AuditPath(target + 1)[up] = Append(AuditPath(target + 1)[me], TreeHash[left])
        /\ i % 2 = 0 /\ i < l => /\ right \in Blocks
                                 /\ TreeHash[up] = hash_node(TreeHash[me], TreeHash[right])
        /\ i % 2 = 0 /\ i < l /\ Position(i, w, target) =>
             AuditPath(target + 1)[up] = Append(AuditPath(target + 1)[me], TreeHash[right])
    BY <1>1, <1>2, Parent
  <2> HIDE DEF up, me, left, right, H
  <2>2. CASE i % 2 = 1
    BY <1>1, <1>2, <1>3, <1>5, <2>1, <2>2, HonestNode
  <2>3. CASE i % 2 = 0
    BY <1>1, <1>2, <1>3, <1>5, <2>1, <2>3, HonestNode
  <2> QED BY <1>1, <2>2, <2>3
<1>7. NoBlock(value', 2 * w)
  BY <1>2, <1>3, NoBlockNode
<1>8. i \div 2 = l \div 2 => NoTail(value', n, (i \div 2) * (2 * w) + 1)
  <2> SUFFICES ASSUME i \div 2 = l \div 2 PROVE NoTail(value', n, (l \div 2) * (2 * w) + 1)
    OBVIOUS
  <2>1. i % 2 # 1
    BY <1>1
  <2>2. value' = hash_node(value, s)
    BY <1>3, <2>1
  <2> QED BY <1>1, <1>2, <2>2, NoTailEdge
<1>9. Honest(target, digest, Block(index', last', 2 * w, n), value', used')
  BY <1>3, <1>6
<1> QED BY <1>3, <1>4, <1>7, <1>8, <1>9 DEF FoldedTo

\* The inner loop multiplies the width by a power of two.
LEMMA PowerProduct == \A p, q \in Powers : p * q \in Powers
<1> SUFFICES ASSUME NEW p \in Powers PROVE \A q \in Powers : p * q \in Powers
  OBVIOUS
<1> DEFINE T == {q \in Nat : q \in Powers => p * q \in Powers}
<1>1. ASSUME NEW q \in Nat, \A j \in Nat : j < q => j \in T
      PROVE  q \in T
  <2>1. SUFFICES ASSUME q \in Powers PROVE p * q \in Powers
    OBVIOUS
  <2>2. p \in Nat
    BY PowerFacts
  <2>3. CASE q = 1
    BY <2>2, <2>3
  <2>4. CASE q # 1
    <3>1. PICK r \in Powers : q = 2 * r
      BY <2>1, <2>4, PowerFacts
    <3>2. r \in Nat /\ r < q
      BY <3>1, PowerFacts
    <3>3. p * r \in Powers
      BY <1>1, <3>2
    <3>4. p * q = 2 * (p * r)
      BY <2>2, <3>1, <3>2
    <3> QED BY <3>3, <3>4, PowerFacts
  <2> QED BY <2>3, <2>4
<1> HIDE DEF T
<1>2. T = Nat
  BY <1>1, StrongInduction DEF T
<1> QED BY <1>2, PowerFacts DEF T

\* At the last block: the inner loop goes up to where it has a left neighbour.
LEMMA FoldEdge ==
  ASSUME MerkleInv, NEW s \in SiblingHashes[n], Fold(s), NEW w \in Powers, FoldedTo(w),
         index = last, last # 0
  PROVE  \E v \in Powers : FoldedTo(v)'
<1> DEFINE H == TreeHashes \cup SiblingHashes[n]
           o == OddPart[last]
           me == Block(last, last, w, n)
<1>1. /\ n \in 1..MaxRecords /\ n \in Nat /\ target \in Nat /\ n - 1 \in Nat /\ last \in 1..MaxRecords
      /\ last \in Nat
  <2>1. n \in 1..MaxRecords /\ target \in 0..n - 1 /\ last \in 0..n - 1
    BY DEF MerkleInv, TypeOK
  <2> QED BY <2>1, BoundsAssumption
<1>2. used \in Seq(H) /\ s \in H /\ TreeHashes \subseteq H /\ w \in Nat \ {0}
  BY PowerFacts DEF MerkleInv, Sizes
<1>3. /\ Position(last, w, target) /\ Position(last, w, n - 1) /\ Honest(target, digest, me, value, used)
      /\ NoTail(value, n, last * w + 1)
  BY DEF FoldedTo
<1>4. /\ index' = o \div 2 /\ last' = o \div 2 /\ used' = Append(used, s)
      /\ value' = hash_node(s, value)
      /\ n' = n /\ target' = target /\ digest' = digest
  BY DEF Fold
<1>5. o \in Nat /\ o % 2 = 1
  BY <1>1, OddPartFacts
<1>6. PICK z \in Powers : last = o * z
  BY <1>1, OddPartFacts
<1> HIDE DEF o
<1> DEFINE W == z * w
<1>7. W \in Powers /\ z \in Nat \ {0} /\ o * W = last * w /\ w <= W /\ W \in Nat \ {0}
  <2>1. z \in Nat \ {0} /\ W \in Powers /\ W \in Nat \ {0}
    BY PowerFacts, PowerProduct
  <2>2. o * (z * w) = (o * z) * w
    BY <1>2, <1>5, <2>1
  <2>3. 1 * w <= z * w
    BY <1>2, <2>1, Monotone
  <2> QED BY <1>2, <1>6, <2>1, <2>2, <2>3
<1> HIDE DEF W
<1>8. Position(o, W, target) /\ Position(o, W, n - 1)
  <2>1. (last + 1) * w = last * w + w /\ (o + 1) * W = o * W + W /\ last * w \in Nat /\ o * W \in Nat
    BY <1>1, <1>2, <1>5, <1>7, Doubled
  <2>2. /\ last * w <= target /\ target < last * w + w
        /\ last * w <= n - 1 /\ n - 1 < last * w + w
    BY <1>3, <2>1 DEF Position
  <2>3. /\ o * W <= target /\ target < o * W + W
        /\ o * W <= n - 1 /\ n - 1 < o * W + W
    BY <1>1, <1>2, <1>7, <2>1, <2>2
  <2> QED BY <2>1, <2>3 DEF Position
<1> DEFINE left == Block(o - 1, o, W, n)
           up == Block(o \div 2, o \div 2, 2 * W, n)
<1>9. Block(o, o, W, n) = me
  BY <1>7 DEF Block
<1>10. me \in Blocks /\ up \in Blocks /\ 2 * W \in Powers /\ o \div 2 \in Nat
       /\ Position(o \div 2, 2 * W, target) /\ Position(o \div 2, 2 * W, n - 1)
  <2>1. Position(o \div 2, 2 * W, target) /\ Position(o \div 2, 2 * W, n - 1) /\ o \div 2 \in Nat
    BY <1>1, <1>5, <1>7, <1>8, Halve
  <2>2. me \in Blocks
    <3>1. last \in 0..last
      BY <1>1
    <3> QED BY <1>1, <1>3, <3>1, BlockBounds
  <2> DEFINE j == o \div 2
             V == 2 * W
  <2>3. Block(j, j, V, n) \in Blocks
    <3>1. V \in Powers /\ j \in Nat /\ j \in 0..j /\ Position(j, V, n - 1)
      BY <1>7, <2>1, PowerFacts
    <3> HIDE DEF j, V
    <3> QED BY <1>1, <3>1, BlockBounds
  <2> QED BY <1>7, <2>1, <2>2, <2>3, PowerFacts
<1>11. /\ left \in Blocks
       /\ TreeHash[up] = hash_node(TreeHash[left], TreeHash[me])
       /\ AuditPath(target + 1)[up] = Append(AuditPath(target + 1)[me], TreeHash[left])
  <2>1. /\ left \in Blocks
        /\ TreeHash[up] = hash_node(TreeHash[left], TreeHash[Block(o, o, W, n)])
        /\ Position(o, W, target) =>
             AuditPath(target + 1)[up] = Append(AuditPath(target + 1)[Block(o, o, W, n)], TreeHash[left])
    <3>1. o \in 0..o /\ o \in Nat /\ W \in Powers /\ n \in 1..MaxRecords /\ target \in Nat
          /\ Position(o, W, n - 1)
      BY <1>1, <1>5, <1>7, <1>8
    <3>2. /\ o % 2 = 1 => left \in Blocks
          /\ o % 2 = 1 => TreeHash[up] = hash_node(TreeHash[left], TreeHash[Block(o, o, W, n)])
          /\ o % 2 = 1 /\ Position(o, W, target) =>
               AuditPath(target + 1)[up] = Append(AuditPath(target + 1)[Block(o, o, W, n)], TreeHash[left])
      BY <3>1, Parent
    <3> HIDE DEF left, up
    <3> QED BY <1>5, <3>2
  <2> QED BY <1>8, <1>9, <2>1
<1>12. Honest(target, digest, up, value', used')
  <2> HIDE DEF up, me, left, H
  <2> QED BY <1>1, <1>2, <1>3, <1>4, <1>10, <1>11, HonestNode
<1>13. NoTail(value', n, (o \div 2) * (2 * W) + 1)
  <2> DEFINE a == (o \div 2) * (2 * W) + 1
             b == last * w + 1
  <2>1. a \in Int /\ b \in Int
    BY <1>1, <1>2, <1>7, <1>10
  <2>2. ASSUME NEW x \in Spine(n), x > a PROVE x >= b
    <3>1. x - 1 >= o * W \/ x - 1 <= (o \div 2) * (2 * W)
      BY <1>1, <1>5, <1>7, <1>8, SpineOrder
    <3>2. x \in Nat /\ o * W \in Nat /\ (o \div 2) * (2 * W) \in Nat
      BY <1>1, <1>5, <1>7, <1>10, SpineBounds
    <3> QED BY <1>7, <2>2, <3>1, <3>2
  <2> HIDE DEF a, b
  <2>3. NoTail(value, n, b)
    BY <1>3 DEF b
  <2>4. NoTail(hash_node(s, value), n, a)
    BY <1>1, <2>1, <2>2, <2>3, NoTailNode
  <2> QED BY <1>4, <2>4 DEF a
<1>14. FoldedTo(2 * W)'
  <2>1. ~(index' < last')
    BY <1>4, <1>10
  <2>2. Honest(target, digest, Block(index', last', 2 * W, n), value', used')
    BY <1>4, <1>12
  <2> QED BY <1>4, <1>10, <1>13, <2>1, <2>2 DEF FoldedTo
<1> QED BY <1>10, <1>14

\* A fold at the root leaves the tree for good.
LEMMA FoldOver ==
  ASSUME MerkleInv, NEW s \in SiblingHashes[n], Fold(s), index = 0, last = 0,
         (\E w \in Powers : FoldedTo(w)) \/ Overrun
  PROVE  Overrun'
<1>1. /\ n \in 1..MaxRecords /\ target \in Nat /\ <<1, n>> \in Blocks /\ n' = n /\ target' = target
  <2>1. n \in 1..MaxRecords /\ target \in 0..n - 1 /\ n' = n /\ target' = target
    BY DEF MerkleInv, TypeOK, Fold
  <2> QED BY <2>1, BoundsAssumption DEF Blocks
<1>2. index' = 0 /\ last' = 0 /\ value' = hash_node(s, value) /\ used' = Append(used, s)
  BY OddPartFacts DEF Fold
<1> DEFINE whole == Len(AuditPath(target + 1)[<<1, n>>])
<1>3. whole \in Nat /\ Len(used) \in Nat /\ Len(used') = Len(used) + 1
  <2>1. AuditPath(target + 1)[<<1, n>>] \in Seq(TreeHashes)
    BY <1>1, PathType
  <2>2. Len(used') = Len(used) + 1
    BY FoldTypes
  <2>3. Len(used) \in Nat
    BY DEF MerkleInv, Sizes
  <2> QED BY <2>1, <2>2, <2>3
<1>4. CASE Overrun
  <2>1. NoTail(value, n, 0) /\ Len(used) > whole
    BY <1>4 DEF Overrun
  <2>2. NoTail(hash_node(s, value), n, 0)
    <3>1. \A x \in Spine(n) : x > 0 => x >= 0
      BY <1>1, SpineBounds
    <3> QED BY <1>1, <2>1, <3>1, NoTailNode
  <2>3. Len(used') > whole
    <3> HIDE DEF whole
    <3> QED BY <1>3, <2>1
  <2> QED BY <1>1, <1>2, <2>2, <2>3 DEF Overrun
<1>5. CASE \E w \in Powers : FoldedTo(w)
  <2>1. PICK w \in Powers : FoldedTo(w)
    BY <1>5
  <2>2. w \in Nat /\ Block(0, 0, w, n) = <<1, n>> /\ 0 * w + 1 = 1
    BY PowerFacts DEF Block
  <2>3. NoTail(value, n, 1) /\ Len(used) = whole
    <3>1. Honest(target, digest, Block(0, 0, w, n), value, used) /\ NoTail(value, n, 0 * w + 1)
      BY <2>1 DEF FoldedTo
    <3> QED BY <2>2, <3>1 DEF Honest
  <2>4. NoTail(hash_node(s, value), n, 0)
    <3>1. \A x \in Spine(n) : x > 0 => x >= 1
      BY <1>1, SpineBounds
    <3> QED BY <1>1, <2>3, <3>1, NoTailNode
  <2>5. Len(used') > whole
    <3> HIDE DEF whole
    <3> QED BY <1>3, <2>3
  <2> QED BY <1>1, <1>2, <2>4, <2>5 DEF Overrun
<1> QED BY <1>4, <1>5

LEMMA FoldStep ==
  ASSUME MerkleInv, NEW s \in SiblingHashes[n], Fold(s)
  PROVE  MerkleInv'
<1>1. /\ TypeOK' /\ Sizes' /\ \E w \in Powers : BuiltTo(w)'
      /\ phase = "fold" /\ phase' = "fold" /\ level' = level
  BY FoldTypes
<1>2. Len(level) = 1 /\ ((\E w \in Powers : FoldedTo(w)) \/ Overrun)
  BY <1>1 DEF MerkleInv, FoldInv
<1>3. (\E w \in Powers : FoldedTo(w)') \/ Overrun'
  <2>1. index \in Nat /\ last \in Nat /\ index <= last
    <3>1. n \in 1..MaxRecords /\ last \in 0..n - 1 /\ index \in 0..last
      BY DEF MerkleInv, TypeOK
    <3> QED BY <3>1, BoundsAssumption
  <2>2. CASE last = 0
    <3>1. index = 0
      BY <2>1, <2>2
    <3> QED BY <1>2, <2>2, <3>1, FoldOver
  <2>3. CASE last # 0
    <3>1. PICK w \in Powers : FoldedTo(w)
      BY <1>2, <2>3 DEF Overrun
    <3>2. CASE index < last
      <4>1. FoldedTo(2 * w)' /\ 2 * w \in Powers
        BY <3>1, <3>2, FoldBelow, PowerFacts
      <4> QED BY <4>1
    <3>3. CASE index = last
      BY <2>3, <3>1, <3>3, FoldEdge
    <3> QED BY <2>1, <3>2, <3>3
  <2> QED BY <2>2, <2>3
<1>4. FoldInv'
  BY <1>1, <1>2, <1>3 DEF FoldInv
<1> QED BY <1>1, <1>4 DEF MerkleInv

LEMMA MerkleStep == MerkleInv /\ [Next]_vars => MerkleInv'
<1> SUFFICES ASSUME MerkleInv, [Next]_vars PROVE MerkleInv'
  OBVIOUS
<1>1. CASE Climb
  BY <1>1, ClimbStep
<1>2. CASE \E count \in 1..MaxRecords, d \in 0..n : Present(count, d)
  BY <1>2, PresentStep
<1>3. CASE \E s \in SiblingHashes[n] : Fold(s)
  BY <1>3, FoldStep
<1>4. CASE Conclude
  BY <1>4, ConcludeStep
<1>5. CASE Decided \/ UNCHANGED vars
  <2>1. UNCHANGED vars
    BY <1>5 DEF Decided
  <2> QED BY <2>1 DEF vars, MerkleInv, TypeOK, Sizes, BuiltTo, FoldInv, FoldedTo, Overrun
<1> QED BY <1>1, <1>2, <1>3, <1>4, <1>5 DEF Next
-----------------------------------------------------------------------------
\* The definitions merkle_root and merkle_audit_path are compared with are those
\* of RFC 6962, section 2.1: lists are split at the largest power of two below
\* their length, and so are the paths through them.
THEOREM ReferenceDefinitions ==
  /\ \A m \in 2..MaxRecords :
       /\ SplitAt[m] \in Powers /\ SplitAt[m] < m
       /\ \A p \in Powers : p < m => p <= SplitAt[m]
  /\ \A b \in Blocks : TreeHash[b] = TreeStep(TreeHash, b)
  /\ \A i \in Nat : \A b \in Blocks : AuditPath(i)[b] = PathStep(i, AuditPath(i), b)
<1>1. ASSUME NEW m \in 2..MaxRecords, NEW p \in Powers, p < m
      PROVE  p <= SplitAt[m]
  <2>1. SplitAt[m] \in Powers /\ m <= 2 * SplitAt[m]
    BY <1>1, SplitDef
  <2>2. p \in Nat /\ SplitAt[m] \in Nat
    BY <2>1, PowerFacts
  <2>3. m \in Nat
    BY BoundsAssumption
  <2>4. SplitAt[m] < p => 2 * SplitAt[m] <= p
    BY <2>1, PowerGap
  <2> QED BY <1>1, <2>1, <2>2, <2>3, <2>4
<1> QED BY <1>1, SplitDef, TreeHashEquation, AuditPathEquation

\* The state of the loops over level and over the audit path is always at
\* blocks whose width is a power of two, and the value of the verifier is the
\* tree hash of its block exactly if the proof was honest so far.
THEOREM MerkleInvHolds == Spec => []MerkleInv
<1>1. Init => MerkleInv
  BY InitInv
<1>2. MerkleInv /\ [Next]_vars => MerkleInv'
  BY MerkleStep
<1> QED BY <1>1, <1>2, PTL DEF Spec

\* The variables of merkle_audit_path and verify_record_inclusion_proof keep
\* their types; a folded position stays within its level.
THEOREM TypeCorrect == Spec => []TypeOK
<1>1. MerkleInv => TypeOK
  BY DEF MerkleInv
<1> QED BY <1>1, MerkleInvHolds, PTL

\* When last is 0 the block is the whole list.
LEMMA WholeBlock ==
  ASSUME NEW m \in 1..MaxRecords, NEW t \in 0..m - 1, NEW w \in Powers, NEW i \in Nat,
         Position(i, w, t), Position(0, w, m - 1)
  PROVE  i = 0 /\ Block(i, 0, w, m) = <<1, m>>
<1>1. m \in Nat /\ t \in Nat /\ w \in Nat /\ m - 1 \in Nat /\ t <= m - 1
  BY BoundsAssumption, PowerFacts
<1>2. i <= 0
  BY <1>1, Earlier
<1> QED BY <1>1, <1>2 DEF Block

\* For every number of records, merkle_root and merkle_audit_path, level by
\* level, build the tree and the audit path that RFC 6962 defines by recursion.
THEOREM TreeIsRFC6962Holds == Spec => []TreeIsRFC6962
<1>1. MerkleInv => TreeIsRFC6962
  <2> SUFFICES ASSUME MerkleInv, Len(level) = 1
               PROVE  level[1] = TreeHash[<<1, n>>] /\ path = AuditPath(target + 1)[<<1, n>>]
    BY DEF TreeIsRFC6962
  <2>1. PICK w \in Powers : BuiltTo(w)
    BY DEF MerkleInv
  <2>2. n \in 1..MaxRecords /\ target \in 0..n - 1 /\ pos \in Nat
    BY DEF MerkleInv, TypeOK
  <2>3. /\ Position(0, w, n - 1) /\ Position(pos, w, target)
        /\ level[0 + 1] = TreeHash[Block(0, 0, w, n)]
        /\ path = AuditPath(target + 1)[Block(pos, 0, w, n)]
    BY <2>1 DEF BuiltTo
  <2>4. pos = 0 /\ Block(pos, 0, w, n) = <<1, n>>
    BY <2>2, <2>3, WholeBlock
  <2> QED BY <2>3, <2>4
<1> QED BY <1>1, MerkleInvHolds, PTL

\* For every number of records, verify_record_inclusion_proof accepts a proof
\* only for the record the commitment has at that index and only with the audit
\* path merkle_audit_path makes, and it accepts that one.
THEOREM AcceptedIffHonestHolds == Spec => []AcceptedIffHonest
<1>1. MerkleInv /\ TreeIsRFC6962 => AcceptedIffHonest
  <2> SUFFICES ASSUME MerkleInv, TreeIsRFC6962 PROVE AcceptedIffHonest
    OBVIOUS
  <2>1. /\ n \in 1..MaxRecords /\ target \in 0..n - 1 /\ index \in Nat /\ last \in Nat
        /\ n \in Nat /\ target \in Nat
    <3>1. n \in 1..MaxRecords /\ target \in 0..n - 1 /\ last \in 0..n - 1 /\ index \in 0..last
      BY DEF MerkleInv, TypeOK
    <3> QED BY <3>1, BoundsAssumption
  <2>2. phase \in {"fold", "accepted"} =>
          /\ level[1] = TreeHash[<<1, n>>] /\ path = AuditPath(target + 1)[<<1, n>>]
          /\ (\E w \in Powers : FoldedTo(w)) \/ Overrun
    BY DEF MerkleInv, FoldInv, TreeIsRFC6962
  <2>3. ASSUME phase \in {"fold", "accepted"}, last = 0, NEW w \in Powers, FoldedTo(w)
        PROVE  value = level[1] <=> digest = target + 1 /\ used = path
    <3>1. /\ Position(index, w, target) /\ Position(0, w, n - 1)
          /\ Honest(target, digest, Block(index, 0, w, n), value, used)
      BY <2>3 DEF FoldedTo
    <3>2. Block(index, 0, w, n) = <<1, n>>
      BY <2>1, <3>1, WholeBlock
    <3> QED BY <2>2, <2>3, <3>1, <3>2 DEF Honest
  <2>4. ASSUME phase \in {"fold", "accepted"}, Overrun
        PROVE  value # level[1] /\ used # path
    <3>1. 1 \in Spine(n)
      <4>1. PICK q \in Powers : q > n
        <5>1. Power[n] \in Nat /\ Power[n] > n
          BY <2>1, PowerAbove
        <5> QED BY <2>1, <5>1 DEF Powers
      <4>2. q \in Nat /\ 1 = 0 * q + 1 /\ Position(0, q, n - 1) /\ 0 \in 0..n /\ 1 \in 1..n
        BY <2>1, <4>1, PowerFacts DEF Position
      <4> QED BY <4>2 DEF Spine
    <3>2. value # TreeHash[<<1, n>>]
      BY <2>4, <3>1 DEF Overrun, NoTail
    <3>3. used # path
      <4>1. Len(used) > Len(path) /\ Len(path) \in Nat
        BY <2>2, <2>4 DEF Overrun, MerkleInv, Sizes
      <4> QED BY <4>1
    <3> QED BY <2>2, <2>4, <3>2, <3>3
  <2>5. ASSUME phase = "accepted" PROVE digest = target + 1 /\ used = path
    <3>1. last = 0 /\ value = level[1]
      BY <2>5 DEF MerkleInv, FoldInv
    <3> QED BY <2>2, <2>3, <2>4, <2>5, <3>1
  <2>6. ASSUME phase = "fold", digest = target + 1, used = path PROVE last = 0 /\ value = level[1]
    <3>1. PICK w \in Powers : FoldedTo(w)
      BY <2>2, <2>4, <2>6
    <3>2. last = 0
      <4> SUFFICES ASSUME last # 0 PROVE FALSE
        OBVIOUS
      <4>1. /\ Position(index, w, target) /\ Position(last, w, n - 1)
            /\ Len(used) = Len(AuditPath(target + 1)[Block(index, last, w, n)])
        BY <3>1 DEF FoldedTo, Honest
      <4>2. Len(used) < Len(AuditPath(target + 1)[<<1, n>>])
        BY <2>1, <4>1, PathGrows
      <4>3. Len(used) \in Nat
        BY DEF MerkleInv, Sizes
      <4> QED BY <2>2, <2>6, <4>2, <4>3
    <3> QED BY <2>3, <2>6, <3>1, <3>2
  <2> QED BY <2>5, <2>6 DEF AcceptedIffHonest
<1> QED BY <1>1, MerkleInvHolds, TreeIsRFC6962Holds, PTL
=============================================================================
