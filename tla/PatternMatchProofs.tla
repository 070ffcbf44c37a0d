------------------------- MODULE PatternMatchProofs -------------------------
(***************************************************************************)
(* The compiler and the search of patterns, for every text that compiles   *)
(* and every value: the automaton has exactly the states that were counted *)
(* before it was built, and no state of it leads to one that does not      *)
(* exist.                                                                  *)
(*                                                                         *)
(* The parser, the count and the builder go by height, and their loops by  *)
(* the number of iterations; they are first shown to satisfy their         *)
(* equations (RecursionExists, LoopExists), then to have the types that    *)
(* the induction is over: a parse is a tree of at most the height of its   *)
(* text, and a fragment leads to states of its list only.  That the height *)
(* is no limit to the parser is HeightSuffices.                            *)
(***************************************************************************)
EXTENDS PatternMatch, FiniteSetTheorems, SequenceTheorems, WellFoundedInduction, TLAPS

\* A set that has each number all smaller numbers of which it has is Nat.
LEMMA StrongInduction ==
  ASSUME NEW T \in SUBSET Nat, \A k \in Nat : (\A j \in Nat : j < k => j \in T) => k \in T
  PROVE  T = Nat
<1> DEFINE R == OpToRel(<, Nat)
<1> SUFFICES ASSUME T # Nat PROVE FALSE
  OBVIOUS
<1>1. Nat \ T # {} /\ Nat \ T \subseteq Nat
  OBVIOUS
<1>2. PICK m \in Nat \ T : \A y \in Nat \ T : ~(<<y, m>> \in R)
  <2>1. IsWellFoundedOn(R, Nat)
    BY NatLessThanWellFounded, Zenon
  <2> HIDE DEF R
  <2> QED BY <1>1, <2>1, WFMin
<1>3. \A y \in Nat : y < m => <<y, m>> \in R
  BY Zenon DEF OpToRel
<1> QED BY <1>2, <1>3, Zenon

\* f[k] is the state of a loop after k iterations, the k-th of which takes s to
\* G[<<k, s>>].
IsLoop(f, m, S, x, G) ==
  f \in [0..m -> S] /\ f[0] = x /\ \A k \in 1..m : f[k] = G[<<k, f[k - 1]>>]

LEMMA LoopExists ==
  ASSUME NEW m \in Nat, NEW S, NEW x \in S, NEW G \in [(1..m) \X S -> S]
  PROVE  \E f : IsLoop(f, m, S, x, G)
<1> DEFINE Goes(j) == {f \in [0..j -> S] : f[0] = x /\ \A k \in 1..j : f[k] = G[<<k, f[k - 1]>>]}
           T == {j \in Nat : j <= m => Goes(j) # {}}
<1>1. ASSUME NEW j \in Nat, \A i \in Nat : i < j => i \in T
      PROVE  j \in T
  <2> SUFFICES ASSUME j <= m PROVE Goes(j) # {}
    OBVIOUS
  <2>1. CASE j = 0
    <3>1. [k \in 0..0 |-> x] \in Goes(0)
      OBVIOUS
    <3> QED BY <2>1, <3>1
  <2>2. CASE j # 0
    <3>1. PICK f \in [0..j - 1 -> S] : f[0] = x /\ \A k \in 1..j - 1 : f[k] = G[<<k, f[k - 1]>>]
      <4>1. j - 1 \in Nat /\ j - 1 < j /\ j - 1 <= m
        BY <2>2
      <4>2. j - 1 \in T
        <5> HIDE DEF T
        <5> QED BY <1>1, <4>1
      <4>3. Goes(j - 1) # {}
        BY <4>1, <4>2
      <4> QED BY <4>3
    <3> DEFINE g == [k \in 0..j |-> IF k = j THEN G[<<j, f[j - 1]>>] ELSE f[k]]
    <3>2. f[j - 1] \in S /\ G[<<j, f[j - 1]>>] \in S
      BY <3>1, <2>2
    <3>3. g \in [0..j -> S] /\ g[0] = x
      BY <3>1, <3>2, <2>2
    <3>4. ASSUME NEW k \in 1..j
          PROVE  g[k] = G[<<k, g[k - 1]>>]
      <4>1. g[k - 1] = f[k - 1]
        BY <2>2
      <4>2. CASE k = j
        BY <4>1, <4>2, <2>2
      <4>3. CASE k # j
        <5>1. k \in 1..j - 1 /\ g[k] = f[k]
          BY <4>3, <2>2
        <5> QED BY <3>1, <4>1, <5>1
      <4> QED BY <4>2, <4>3
    <3>5. g \in Goes(j)
      <4> HIDE DEF g
      <4> QED BY <3>3, <3>4
    <3> QED BY <3>5
  <2> QED BY <2>1, <2>2
<1>2. m \in T
  <2> HIDE DEF T
  <2>1. T = Nat
    BY <1>1, StrongInduction DEF T
  <2> QED BY <2>1
<1> QED BY <1>2 DEF IsLoop

\* What holds before a loop and after each of its iterations.
LEMMA LoopInduction ==
  ASSUME NEW m \in Nat, NEW T, 0 \in T, \A k \in 1..m : k - 1 \in T => k \in T
  PROVE  \A k \in 0..m : k \in T
<1> DEFINE U == {j \in Nat : j <= m => j \in T}
<1>1. ASSUME NEW j \in Nat, \A i \in Nat : i < j => i \in U
      PROVE  j \in U
  <2>1. CASE j = 0
    BY <2>1
  <2>2. CASE j # 0
    <3>1. j - 1 \in Nat /\ j - 1 < j
      BY <2>2
    <3>2. j - 1 \in U
      <4> HIDE DEF U
      <4> QED BY <1>1, <3>1
    <3> QED BY <2>2, <3>2
  <2> QED BY <2>1, <2>2
<1> HIDE DEF U
<1>2. U = Nat
  BY <1>1, StrongInduction DEF U
<1> QED BY <1>2 DEF U

LEMMA LoopTyped ==
  ASSUME NEW m \in Nat, NEW S, NEW f,
         f[0] \in S, \A k \in 1..m : f[k - 1] \in S => f[k] \in S
  PROVE  \A k \in 0..m : f[k] \in S
<1> DEFINE T == {k \in 0..m : f[k] \in S}
<1>1. 0 \in T /\ \A k \in 1..m : k - 1 \in T => k \in T
  OBVIOUS
<1> HIDE DEF T
<1>2. \A k \in 0..m : k \in T
  BY <1>1, LoopInduction
<1> QED BY <1>2 DEF T

\* A recursion by height: D[h] is the type at height h.
LEMMA RecursionExists ==
  ASSUME NEW D, NEW x \in D[0], NEW G,
         \A k \in Nat \ {0} : \A v \in D[k - 1] : G[<<k, v>>] \in D[k]
  PROVE  \E f : f = [k \in Nat |-> IF k = 0 THEN x ELSE G[<<k, f[k - 1]>>]]
<1> DEFINE Any == UNION {D[k] : k \in Nat}
           Goes(j) == {f \in [0..j -> Any] :
                          /\ f[0] = x /\ \A k \in 0..j : f[k] \in D[k]
                          /\ \A k \in 1..j : f[k] = G[<<k, f[k - 1]>>]}
           T == {j \in Nat : Goes(j) # {}}
<1>1. ASSUME NEW j \in Nat, \A i \in Nat : i < j => i \in T
      PROVE  j \in T
  <2>1. CASE j = 0
    <3>1. [k \in 0..0 |-> x] \in Goes(0)
      OBVIOUS
    <3> QED BY <2>1, <3>1
  <2>2. CASE j # 0
    <3>1. PICK f \in [0..j - 1 -> Any] :
            /\ f[0] = x /\ \A k \in 0..j - 1 : f[k] \in D[k]
            /\ \A k \in 1..j - 1 : f[k] = G[<<k, f[k - 1]>>]
      <4>1. j - 1 \in Nat /\ j - 1 < j
        BY <2>2
      <4>2. j - 1 \in T
        <5> HIDE DEF T
        <5> QED BY <1>1, <4>1
      <4>3. Goes(j - 1) # {}
        BY <4>1, <4>2
      <4> QED BY <4>3
    <3> DEFINE g == [k \in 0..j |-> IF k = j THEN G[<<j, f[j - 1]>>] ELSE f[k]]
    <3>2. f[j - 1] \in D[j - 1] /\ G[<<j, f[j - 1]>>] \in D[j]
      BY <3>1, <2>2
    <3>3. g \in [0..j -> Any] /\ g[0] = x
      <4>1. G[<<j, f[j - 1]>>] \in Any
        BY <3>2
      <4> HIDE DEF Any
      <4> QED BY <3>1, <4>1, <2>2
    <3>4. ASSUME NEW k \in 1..j
          PROVE  g[k] = G[<<k, g[k - 1]>>]
      <4>1. g[k - 1] = f[k - 1]
        BY <2>2
      <4>2. CASE k = j
        BY <4>1, <4>2, <2>2
      <4>3. CASE k # j
        <5>1. k \in 1..j - 1 /\ g[k] = f[k]
          BY <4>3, <2>2
        <5> QED BY <3>1, <4>1, <5>1
      <4> QED BY <4>2, <4>3
    <3>5. \A k \in 0..j : g[k] \in D[k]
      BY <3>1, <3>2, <2>2
    <3>6. g \in Goes(j)
      <4> HIDE DEF g
      <4> QED BY <3>3, <3>4, <3>5
    <3> QED BY <3>6
  <2> QED BY <2>1, <2>2
<1>2. \A j \in Nat : Goes(j) # {}
  <2> HIDE DEF T
  <2>1. T = Nat
    BY <1>1, StrongInduction DEF T
  <2> QED BY <2>1 DEF T
<1> DEFINE H(j) == CHOOSE f : f \in Goes(j)
           f == [k \in Nat |-> H(k)[k]]
<1>3. \A j \in Nat : H(j) \in Goes(j)
  BY <1>2
<1>4. \A k \in Nat : \A j \in Nat : k <= j => H(j)[k] = H(k)[k]
  <2> DEFINE U == {k \in Nat : \A j \in Nat : k <= j => H(j)[k] = H(k)[k]}
  <2>1. ASSUME NEW k \in Nat, \A i \in Nat : i < k => i \in U
        PROVE  k \in U
    <3> HIDE DEF H
    <3> SUFFICES ASSUME NEW j \in Nat, k <= j PROVE H(j)[k] = H(k)[k]
      OBVIOUS
    <3>1. H(j) \in Goes(j) /\ H(k) \in Goes(k)
      BY <1>3
    <3>2. CASE k = 0
      BY <3>1, <3>2
    <3>3. CASE k # 0
      <4>1. k - 1 \in U
        BY <2>1, <3>3
      <4>2. H(j)[k - 1] = H(k - 1)[k - 1] /\ H(k)[k - 1] = H(k - 1)[k - 1]
        BY <4>1, <3>3
      <4>3. H(j)[k] = G[<<k, H(j)[k - 1]>>] /\ H(k)[k] = G[<<k, H(k)[k - 1]>>]
        BY <3>1, <3>3
      <4> QED BY <4>2, <4>3
    <3> QED BY <3>2, <3>3
  <2> HIDE DEF U
  <2>2. U = Nat
    BY <2>1, StrongInduction DEF U
  <2> QED BY <2>2 DEF U
<1> HIDE DEF H
<1>5. ASSUME NEW k \in Nat
      PROVE  f[k] = IF k = 0 THEN x ELSE G[<<k, f[k - 1]>>]
  <2>1. H(k) \in Goes(k)
    BY <1>3
  <2>2. CASE k = 0
    BY <2>1, <2>2
  <2>3. CASE k # 0
    <3>1. H(k)[k] = G[<<k, H(k)[k - 1]>>] /\ H(k)[k - 1] = H(k - 1)[k - 1] /\ k - 1 \in Nat
      BY <1>4, <2>1, <2>3
    <3> QED BY <2>3, <3>1
  <2> QED BY <2>2, <2>3
<1>6. f = [k \in Nat |-> IF k = 0 THEN x ELSE G[<<k, f[k - 1]>>]]
  <2> DEFINE g == [k \in Nat |-> IF k = 0 THEN x ELSE G[<<k, f[k - 1]>>]]
  <2>1. \A k \in Nat : f[k] = g[k]
    BY <1>5
  <2>2. f = [k \in Nat |-> f[k]] /\ g = [k \in Nat |-> g[k]]
    OBVIOUS
  <2> HIDE DEF f, g
  <2>3. f = g
    BY <2>1, <2>2
  <2> QED BY <2>3 DEF g
<1> QED BY <1>6
-----------------------------------------------------------------------------
(* Trees. *)

LEMMA NodeEquation ==
  \A h \in Nat : Node[h] = IF h = 0 THEN {} ELSE Leaf \cup Composite(Node[h - 1])
<1> DEFINE Goes(j, f) == /\ f = [k \in 0..j |-> f[k]]
                         /\ f[0] = {} /\ \A k \in 1..j : f[k] = Leaf \cup Composite(f[k - 1])
           T == {j \in Nat : \E f : Goes(j, f)}
<1>1. ASSUME NEW j \in Nat, \A i \in Nat : i < j => i \in T
      PROVE  j \in T
  <2>1. CASE j = 0
    <3> DEFINE f == [k \in 0..0 |-> {}]
    <3>1. Goes(0, f)
      OBVIOUS
    <3>2. \E g : Goes(0, g)
      BY <3>1
    <3> QED BY <2>1, <3>2
  <2>2. CASE j # 0
    <3>0. j - 1 \in T
      <4> HIDE DEF T
      <4>1. j - 1 \in Nat /\ j - 1 < j
        BY <2>2
      <4> QED BY <1>1, <4>1
    <3>1. PICK f : Goes(j - 1, f)
      BY <3>0
    <3> DEFINE g == [k \in 0..j |-> IF k = j THEN Leaf \cup Composite(f[j - 1]) ELSE f[k]]
    <3>2. g = [k \in 0..j |-> g[k]] /\ g[0] = {}
      BY <3>1, <2>2
    <3>3. ASSUME NEW k \in 1..j
          PROVE  g[k] = Leaf \cup Composite(g[k - 1])
      <4>1. g[k - 1] = f[k - 1]
        BY <2>2
      <4>2. CASE k = j
        BY <4>1, <4>2, <2>2
      <4>3. CASE k # j
        <5>1. k \in 1..j - 1 /\ g[k] = f[k]
          BY <4>3, <2>2
        <5> QED BY <3>1, <4>1, <5>1
      <4> QED BY <4>2, <4>3
    <3> HIDE DEF g
    <3>4. Goes(j, g)
      BY <3>2, <3>3
    <3>5. \E e : Goes(j, e)
      BY <3>4
    <3> QED BY <3>5
  <2> QED BY <2>1, <2>2
<1>2. \A j \in Nat : \E f : Goes(j, f)
  <2> HIDE DEF T
  <2>1. T = Nat
    BY <1>1, StrongInduction DEF T
  <2> QED BY <2>1 DEF T
<1> DEFINE H(j) == CHOOSE f : Goes(j, f)
           f == [k \in Nat |-> H(k)[k]]
<1>3. \A j \in Nat : Goes(j, H(j))
  <2> HIDE DEF Goes
  <2> QED BY <1>2
<1> HIDE DEF H
<1>4. \A k \in Nat : \A j \in Nat : k <= j => H(j)[k] = H(k)[k]
  <2> DEFINE U == {k \in Nat : \A j \in Nat : k <= j => H(j)[k] = H(k)[k]}
  <2>1. ASSUME NEW k \in Nat, \A i \in Nat : i < k => i \in U
        PROVE  k \in U
    <3> SUFFICES ASSUME NEW j \in Nat, k <= j PROVE H(j)[k] = H(k)[k]
      OBVIOUS
    <3>1. Goes(j, H(j)) /\ Goes(k, H(k))
      BY <1>3
    <3>2. CASE k = 0
      BY <3>1, <3>2
    <3>3. CASE k # 0
      <4>0. k - 1 \in Nat /\ k - 1 < k /\ k - 1 <= j /\ k \in 1..j /\ k \in 1..k
        BY <3>3
      <4>1. k - 1 \in U
        <5> HIDE DEF U
        <5> QED BY <2>1, <4>0
      <4>2. H(j)[k - 1] = H(k - 1)[k - 1] /\ H(k)[k - 1] = H(k - 1)[k - 1]
        BY <4>0, <4>1
      <4>3. H(j)[k] = Leaf \cup Composite(H(j)[k - 1]) /\ H(k)[k] = Leaf \cup Composite(H(k)[k - 1])
        BY <3>1, <4>0
      <4> QED BY <4>2, <4>3
    <3> QED BY <3>2, <3>3
  <2> HIDE DEF U
  <2>2. U = Nat
    BY <2>1, StrongInduction DEF U
  <2> QED BY <2>2 DEF U
<1>5. ASSUME NEW k \in Nat
      PROVE  f[k] = IF k = 0 THEN {} ELSE Leaf \cup Composite(f[k - 1])
  <2>1. Goes(k, H(k))
    BY <1>3
  <2>2. CASE k = 0
    BY <2>1, <2>2
  <2>3. CASE k # 0
    <3>1. k - 1 \in Nat /\ k \in 1..k /\ k - 1 <= k
      BY <2>3
    <3>2. H(k)[k - 1] = H(k - 1)[k - 1]
      BY <1>4, <3>1
    <3>3. H(k)[k] = Leaf \cup Composite(H(k)[k - 1])
      BY <2>1, <3>1
    <3> QED BY <2>3, <3>1, <3>2, <3>3
  <2> QED BY <2>2, <2>3
<1> DEFINE E(g) == [h \in Nat |-> IF h = 0 THEN {} ELSE Leaf \cup Composite(g[h - 1])]
<1>6. f = E(f)
  <2>1. f = [k \in Nat |-> f[k]]
    OBVIOUS
  <2> HIDE DEF f
  <2> QED BY <1>5, <2>1
<1> HIDE DEF f
<1>7. Node = E(Node)
  <2>1. \E g : g = E(g)
    BY <1>6
  <2> QED BY <2>1 DEF Node
<1> QED BY <1>7

LEMMA CompositeMonotone ==
  ASSUME NEW S, NEW T, S \subseteq T
  PROVE  Composite(S) \subseteq Composite(T)
<1>1. Seq(S) \subseteq Seq(T)
  OBVIOUS
<1>2. [kind : {"concat", "alternate"}, children : Seq(S) \ {<< >>}]
        \subseteq [kind : {"concat", "alternate"}, children : Seq(T) \ {<< >>}]
  BY <1>1
<1> QED BY <1>2 DEF Composite

LEMMA NodeGrows == \A h \in Nat : Node[h] \subseteq Node[h + 1]
<1> DEFINE T == {h \in Nat : Node[h] \subseteq Node[h + 1]}
<1>1. ASSUME NEW h \in Nat, \A i \in Nat : i < h => i \in T
      PROVE  h \in T
  <2>1. CASE h = 0
    BY <2>1, NodeEquation
  <2>2. CASE h # 0
    <3>0. h - 1 \in Nat /\ h - 1 < h /\ h = (h - 1) + 1 /\ h + 1 \in Nat /\ h + 1 # 0 /\ (h + 1) - 1 = h
      BY <2>2
    <3>1. Node[h - 1] \subseteq Node[h]
      <4>1. h - 1 \in T
        <5> HIDE DEF T
        <5> QED BY <1>1, <3>0
      <4> QED BY <3>0, <4>1
    <3>2. Composite(Node[h - 1]) \subseteq Composite(Node[h])
      BY <3>1, CompositeMonotone
    <3>3. Node[h] = Leaf \cup Composite(Node[h - 1]) /\ Node[h + 1] = Leaf \cup Composite(Node[h])
      BY <2>2, <3>0, NodeEquation
    <3> QED BY <3>2, <3>3
  <2> QED BY <2>1, <2>2
<1> HIDE DEF T
<1>2. T = Nat
  BY <1>1, StrongInduction DEF T
<1> QED BY <1>2 DEF T

\* What a tree of a positive height is.
LEMMA NodeShape ==
  ASSUME NEW h \in Nat \ {0}
  PROVE  /\ h - 1 \in Nat /\ Node[h] = Leaf \cup Composite(Node[h - 1])
         /\ Node[h - 1] \subseteq Node[h]
<1>1. h - 1 \in Nat /\ h = (h - 1) + 1
  OBVIOUS
<1> QED BY <1>1, NodeEquation, NodeGrows

LeafKinds == {"literal", "dot", "begin", "end", "class"}

\* The kinds of nodes, and the fields of each.
LEMMA KindFacts ==
  ASSUME NEW S, NEW n \in Leaf \cup Composite(S)
  PROVE  /\ n.kind \in LeafKinds \cup {"concat", "alternate", "repeat"}
         /\ n.kind \in LeafKinds => n \in Leaf
         /\ n.kind \in {"concat", "alternate"} =>
              /\ n.children \in Seq(S) /\ Len(n.children) \in Nat \ {0}
              /\ DOMAIN n.children = 1..Len(n.children)
              /\ \A k \in 1..Len(n.children) : n.children[k] \in S
         /\ n.kind = "repeat" =>
              /\ n.child \in S /\ n.minimum \in Nat /\ n.maximum \in Nat \cup {Unbounded}
              /\ n.copy \in BOOLEAN
              /\ n.maximum = Unbounded \/ n.minimum <= n.maximum
<1>1. CASE n \in Leaf
  <2>1. n.kind \in LeafKinds
    BY <1>1 DEF Leaf, LeafKinds
  <2> QED BY <1>1, <2>1 DEF LeafKinds
<1>2. CASE n \in [kind : {"concat", "alternate"}, children : Seq(S) \ {<< >>}]
  <2>1. n.kind \in {"concat", "alternate"} /\ n.children \in Seq(S) /\ n.children # << >>
    BY <1>2
  <2>2. /\ Len(n.children) \in Nat \ {0} /\ DOMAIN n.children = 1..Len(n.children)
        /\ \A k \in 1..Len(n.children) : n.children[k] \in S
    BY <2>1
  <2> QED BY <2>1, <2>2 DEF LeafKinds
<1>3. CASE n \in [kind : {"repeat"}, child : S, minimum : Nat, maximum : Nat \cup {Unbounded}, copy : BOOLEAN]
           /\ (n.maximum = Unbounded \/ n.minimum <= n.maximum)
  BY <1>3 DEF LeafKinds
<1> QED BY <1>1, <1>2, <1>3 DEF Composite
-----------------------------------------------------------------------------
(* Counting. *)

LEMMA TotalSteps ==
  ASSUME NEW m \in Nat, NEW f \in [1..m -> Nat]
  PROVE  \E Sum : /\ Sum[0] = 0 /\ \A k \in 1..m : Sum[k] = Sum[k - 1] + f[k]
                  /\ \A k \in 0..m : Sum[k] \in Nat
                  /\ Total(f, m) = Sum[m]
<1> DEFINE G == [p \in (1..m) \X Nat |-> p[2] + f[p[1]]]
           E(s) == [k \in 0..m |-> IF k = 0 THEN 0 ELSE s[k - 1] + f[k]]
           Sum == CHOOSE s : s = E(s)
           zero == 0
<1>1. G \in [(1..m) \X Nat -> Nat] /\ zero \in Nat
  OBVIOUS
<1>2. PICK s : IsLoop(s, m, Nat, zero, G)
  <2> HIDE DEF G, zero
  <2> QED BY <1>1, LoopExists
<1>3. \A k \in 1..m : s[k] = s[k - 1] + f[k]
  <2> SUFFICES ASSUME NEW k \in 1..m PROVE s[k] = s[k - 1] + f[k]
    OBVIOUS
  <2>1. <<k, s[k - 1]>> \in (1..m) \X Nat
    BY <1>2 DEF IsLoop
  <2> QED BY <1>2, <2>1 DEF IsLoop
<1>4. s = E(s)
  BY <1>2, <1>3 DEF IsLoop
<1>5. Sum = E(Sum)
  <2> HIDE DEF G
  <2> QED BY <1>4
<1>6. Total(f, m) = Sum[m]
  BY DEF Total
<1> HIDE DEF Sum
<1>7. Sum[0] = 0 /\ \A k \in 1..m : Sum[k] = Sum[k - 1] + f[k]
  BY <1>5
<1>8. \A k \in 0..m : Sum[k] \in Nat
  <2>1. Sum[0] \in Nat
    BY <1>7
  <2>2. \A k \in 1..m : Sum[k - 1] \in Nat => Sum[k] \in Nat
    BY <1>7
  <2> HIDE DEF G
  <2> QED BY <2>1, <2>2, LoopTyped, Zenon
<1> QED BY <1>6, <1>7, <1>8

\* The count of a node, from the counts C of the nodes below it.
CountFrom(C, n) ==
  CASE n.kind \in {"concat", "alternate"} ->
         Total([k \in DOMAIN n.children |-> C[n.children[k]]], Len(n.children))
           + (IF n.kind = "concat" THEN 0 ELSE Len(n.children) - 1)
    [] n.kind = "repeat" -> RepeatCount(n, C[n.child])
    [] OTHER -> 1

LEMMA RepeatCountNat ==
  ASSUME NEW n, NEW c \in Nat, n.minimum \in Nat, n.maximum \in Nat \cup {Unbounded}, n.copy \in BOOLEAN,
         n.maximum = Unbounded \/ n.minimum <= n.maximum
  PROVE  RepeatCount(n, c) \in Nat
<1>0. \A a \in Nat, b \in Nat : a * b \in Nat
  OBVIOUS
<1>1. n.minimum * c \in Nat /\ (n.minimum + 1) * c \in Nat /\ 1 * c \in Nat
  BY <1>0
<1>2. ASSUME n.maximum # Unbounded
      PROVE  (n.maximum - n.minimum) * (c + 1) \in Nat
  <2>1. n.maximum - n.minimum \in Nat /\ c + 1 \in Nat
    BY <1>2
  <2> QED BY <1>0, <2>1
<1> QED BY <1>1, <1>2 DEF RepeatCount

LEMMA CountTyped ==
  ASSUME NEW S, NEW C \in [S -> Nat], NEW n \in Leaf \cup Composite(S)
  PROVE  CountFrom(C, n) \in Nat
<1>1. CASE n.kind \in {"concat", "alternate"}
  <2> DEFINE f == [k \in DOMAIN n.children |-> C[n.children[k]]]
  <2>1. /\ Len(n.children) \in Nat \ {0} /\ DOMAIN n.children = 1..Len(n.children)
        /\ \A k \in 1..Len(n.children) : n.children[k] \in S
    BY <1>1, KindFacts
  <2>2. f \in [1..Len(n.children) -> Nat]
    BY <2>1
  <2> HIDE DEF f
  <2>3. Total(f, Len(n.children)) \in Nat
    <3>1. PICK Sum : (\A k \in 0..Len(n.children) : Sum[k] \in Nat)
                     /\ Total(f, Len(n.children)) = Sum[Len(n.children)]
      BY <2>1, <2>2, TotalSteps
    <3> QED BY <2>1, <3>1
  <2>4. CountFrom(C, n) = Total(f, Len(n.children)) + (IF n.kind = "concat" THEN 0 ELSE Len(n.children) - 1)
    BY <1>1 DEF CountFrom, f
  <2> QED BY <2>1, <2>3, <2>4
<1>2. CASE n.kind = "repeat"
  <2>1. n.child \in S /\ C[n.child] \in Nat
    BY <1>2, KindFacts
  <2>2. RepeatCount(n, C[n.child]) \in Nat
    BY <1>2, <2>1, KindFacts, RepeatCountNat
  <2> QED BY <1>2, <2>2 DEF CountFrom
<1>3. CASE n.kind \in LeafKinds
  BY <1>3 DEF CountFrom, LeafKinds
<1> QED BY <1>1, <1>2, <1>3, KindFacts

LEMMA CountEquation ==
  \A h \in Nat : /\ stateCount[h] \in [Node[h] -> Nat]
                 /\ h # 0 => \A n \in Node[h] : stateCount[h][n] = CountFrom(stateCount[h - 1], n)
<1> DEFINE D == [h \in Nat |-> [Node[h] -> Nat]]
           Nodes == UNION {Node[h] : h \in Nat}
           G == [p \in Nat \X UNION {D[h] : h \in Nat} |-> [n \in Node[p[1]] |-> CountFrom(p[2], n)]]
           E(f) == [h \in Nat |-> [n \in Node[h] |-> CountFrom(f[h - 1], n)]]
           x == [n \in Node[0] |-> 0]
<1>1. x \in D[0]
  OBVIOUS
<1>2. ASSUME NEW h \in Nat \ {0}, NEW v \in D[h - 1]
      PROVE  G[<<h, v>>] \in D[h]
  <2>1. h - 1 \in Nat /\ v \in [Node[h - 1] -> Nat] /\ Node[h] = Leaf \cup Composite(Node[h - 1])
    BY NodeShape
  <2>2. \A n \in Node[h] : CountFrom(v, n) \in Nat
    BY <2>1, CountTyped
  <2>3. <<h, v>> \in Nat \X UNION {D[i] : i \in Nat}
    BY <2>1
  <2>4. G[<<h, v>>] = [n \in Node[h] |-> CountFrom(v, n)]
    BY <2>3
  <2> QED BY <2>2, <2>4
<1>3. \E f : f = [k \in Nat |-> IF k = 0 THEN x ELSE G[<<k, f[k - 1]>>]]
  <2> HIDE DEF D, G, x
  <2> QED BY <1>1, <1>2, RecursionExists
<1>4. PICK f : f = [k \in Nat |-> IF k = 0 THEN x ELSE G[<<k, f[k - 1]>>]]
  BY <1>3
<1>5. \A k \in Nat : f[k] \in D[k]
  <2> DEFINE T == {k \in Nat : f[k] \in D[k]}
  <2>1. ASSUME NEW k \in Nat, \A i \in Nat : i < k => i \in T
        PROVE  k \in T
    <3> HIDE DEF D, G, x
    <3>1. CASE k = 0
      BY <1>1, <1>4, <3>1
    <3>2. CASE k # 0
      <4>1. k - 1 \in Nat /\ k - 1 < k
        BY <3>2
      <4>2. k - 1 \in T
        <5> HIDE DEF T
        <5> QED BY <2>1, <4>1
      <4>3. f[k] = G[<<k, f[k - 1]>>]
        BY <1>4, <3>2
      <4>4. f[k - 1] \in D[k - 1] /\ k \in Nat \ {0}
        BY <3>2, <4>2
      <4>5. G[<<k, f[k - 1]>>] \in D[k]
        BY <1>2, <4>4, Zenon
      <4> QED BY <4>3, <4>5
    <3> QED BY <3>1, <3>2
  <2> HIDE DEF T
  <2>2. T = Nat
    BY <2>1, StrongInduction DEF T
  <2> QED BY <2>2 DEF T
<1>6. f = E(f)
  <2>1. ASSUME NEW k \in Nat
        PROVE  f[k] = E(f)[k]
    <3>1. CASE k = 0
      <4>1. Node[k] = {}
        BY <3>1, NodeEquation
      <4> QED BY <1>4, <3>1, <4>1
    <3>2. CASE k # 0
      <4>1. k - 1 \in Nat /\ f[k] = G[<<k, f[k - 1]>>]
        <5> HIDE DEF G, D
        <5> QED BY <1>4, <3>2
      <4>2. <<k, f[k - 1]>> \in Nat \X UNION {D[i] : i \in Nat}
        <5> HIDE DEF D
        <5> QED BY <1>5, <4>1
      <4>3. G[<<k, f[k - 1]>>] = [n \in Node[k] |-> CountFrom(f[k - 1], n)]
        <5> HIDE DEF D
        <5> QED BY <4>2
      <4> HIDE DEF G, D
      <4> QED BY <4>1, <4>3
    <3> QED BY <3>1, <3>2
  <2>2. f = [k \in Nat |-> f[k]] /\ E(f) = [k \in Nat |-> E(f)[k]]
    <3> HIDE DEF G, D, x
    <3> QED BY <1>4
  <2> HIDE DEF E
  <2> QED BY <2>1, <2>2
<1>7. stateCount = E(stateCount)
  <2>1. stateCount = CHOOSE g : g = E(g)
    BY DEF stateCount, CountFrom
  <2>2. \E g : g = E(g)
    <3> HIDE DEF E
    <3> QED BY <1>6
  <2> HIDE DEF E
  <2> QED BY <2>1, <2>2
<1>8. \A k \in Nat : \A n \in Node[k] : stateCount[k][n] = CountFrom(stateCount[k - 1], n)
  BY <1>7
<1> DEFINE T == {k \in Nat : stateCount[k] \in [Node[k] -> Nat]}
<1>9. ASSUME NEW k \in Nat, \A i \in Nat : i < k => i \in T
      PROVE  k \in T
  <2>1. stateCount[k] = [n \in Node[k] |-> CountFrom(stateCount[k - 1], n)]
    BY <1>7
  <2>2. CASE k = 0
    <3>1. Node[k] = {}
      BY <2>2, NodeEquation
    <3> QED BY <2>1, <3>1
  <2>3. CASE k # 0
    <3>1. k - 1 \in Nat /\ k - 1 < k /\ Node[k] = Leaf \cup Composite(Node[k - 1])
      BY <2>3, NodeShape
    <3>2. k - 1 \in T
      <4> HIDE DEF T
      <4> QED BY <1>9, <3>1
    <3>3. \A n \in Node[k] : CountFrom(stateCount[k - 1], n) \in Nat
      BY <3>1, <3>2, CountTyped
    <3> QED BY <2>1, <3>3
  <2> QED BY <2>2, <2>3
<1> HIDE DEF T
<1>10. T = Nat
  BY <1>9, StrongInduction DEF T
<1> QED BY <1>8, <1>10 DEF T
-----------------------------------------------------------------------------
(* Building. *)

Fields == {"out", "out1"}
Fragments == [states : Seq(States), start : Nat, outs : SUBSET (Nat \X Fields)]

\* No state of a list leads to one that is not in it, and no fragment starts
\* at one.
WellFormed(ss) ==
  /\ ss \in Seq(States)
  /\ \A k \in 1..Len(ss) : ss[k].out \in 0..Len(ss) /\ ss[k].out1 \in 0..Len(ss)

FragmentOK(f) == f \in Fragments /\ WellFormed(f.states) /\ f.start \in 0..Len(f.states)

\* A builder B of the nodes in S makes fragments out of them ...
Builds(B, S) == B \in [S \X Seq(States) -> Fragments]

\* ... and adds as many states to a list as C has counted.
BuildsExactly(B, C, S) ==
  /\ Builds(B, S) /\ C \in [S -> Nat]
  /\ \A n \in S : \A ss \in Seq(States) : WellFormed(ss) =>
       FragmentOK(B[n, ss]) /\ Len(B[n, ss].states) = Len(ss) + C[n]

LEMMA PatchFacts ==
  ASSUME NEW ss \in Seq(States), NEW outs, NEW target \in Nat
  PROVE  /\ patch(ss, outs, target) \in Seq(States)
         /\ Len(patch(ss, outs, target)) = Len(ss)
         /\ WellFormed(ss) /\ target \in 0..Len(ss) => WellFormed(patch(ss, outs, target))
<1> DEFINE p == patch(ss, outs, target)
<1>1. DOMAIN ss = 1..Len(ss) /\ Len(ss) \in Nat
  OBVIOUS
<1>2. ASSUME NEW k \in 1..Len(ss)
      PROVE  /\ p[k] \in States
             /\ p[k].out \in {target, ss[k].out} /\ p[k].out1 \in {target, ss[k].out1}
  <2>1. ss[k] \in States
    BY <1>2
  <2>2. p[k] = [ss[k] EXCEPT !.out = IF <<k, "out">> \in outs THEN target ELSE @,
                             !.out1 = IF <<k, "out1">> \in outs THEN target ELSE @]
    BY <1>1, <1>2 DEF patch
  <2> QED BY <2>1, <2>2 DEF States
<1>3. p = [k \in 1..Len(ss) |-> p[k]]
  BY <1>1 DEF patch
<1> HIDE DEF p
<1>4. p \in Seq(States) /\ Len(p) = Len(ss)
  BY <1>1, <1>2, <1>3
<1>5. WellFormed(ss) /\ target \in 0..Len(ss) => WellFormed(p)
  BY <1>2, <1>4 DEF WellFormed
<1> QED BY <1>4, <1>5 DEF p

LEMMA AppendFacts ==
  ASSUME NEW ss \in Seq(States), NEW s \in States
  PROVE  /\ Append(ss, s) \in Seq(States) /\ Len(Append(ss, s)) = Len(ss) + 1
         /\ WellFormed(ss) /\ s.out \in 0..Len(ss) + 1 /\ s.out1 \in 0..Len(ss) + 1 =>
              WellFormed(Append(ss, s))
<1>1. Append(ss, s) \in Seq(States) /\ Len(Append(ss, s)) = Len(ss) + 1 /\ Len(ss) \in Nat
  OBVIOUS
<1>2. ASSUME WellFormed(ss), s.out \in 0..Len(ss) + 1, s.out1 \in 0..Len(ss) + 1,
             NEW k \in 1..Len(ss) + 1
      PROVE  Append(ss, s)[k].out \in 0..Len(ss) + 1 /\ Append(ss, s)[k].out1 \in 0..Len(ss) + 1
  <2>1. CASE k = Len(ss) + 1
    <3>1. Append(ss, s)[k] = s
      BY <2>1
    <3> QED BY <1>2, <3>1
  <2>2. CASE k # Len(ss) + 1
    <3>1. k \in 1..Len(ss) /\ Append(ss, s)[k] = ss[k]
      BY <1>1, <1>2, <2>2
    <3>2. ss[k].out \in 0..Len(ss) /\ ss[k].out1 \in 0..Len(ss)
      BY <1>2, <3>1 DEF WellFormed
    <3> QED BY <1>1, <3>1, <3>2
  <2> QED BY <2>1, <2>2
<1> QED BY <1>1, <1>2 DEF WellFormed

LEMMA ConcatFacts ==
  ASSUME NEW left \in Fragments, NEW right \in Fragments
  PROVE  /\ concat(left, right) \in Fragments
         /\ Len(concat(left, right).states) = Len(right.states)
         /\ FragmentOK(left) /\ FragmentOK(right) /\ Len(left.states) <= Len(right.states) =>
              FragmentOK(concat(left, right))
<1>0. /\ left.states \in Seq(States) /\ left.start \in Nat /\ left.outs \in SUBSET (Nat \X Fields)
      /\ right.states \in Seq(States) /\ right.start \in Nat /\ right.outs \in SUBSET (Nat \X Fields)
      /\ Len(left.states) \in Nat /\ Len(right.states) \in Nat
  BY DEF Fragments
<1>1. CASE left.start = None
  BY <1>1 DEF concat
<1>2. CASE left.start # None /\ right.start = None
  <2> DEFINE f == concat(left, right)
  <2>1. f = [left EXCEPT !.states = right.states]
    BY <1>2 DEF concat
  <2>2. f.states = right.states /\ f.start = left.start /\ f.outs = left.outs /\ f \in Fragments
    BY <1>0, <2>1 DEF Fragments
  <2> HIDE DEF f
  <2>3. FragmentOK(left) /\ FragmentOK(right) /\ Len(left.states) <= Len(right.states) => FragmentOK(f)
    BY <1>0, <2>2 DEF FragmentOK
  <2> QED BY <2>2, <2>3 DEF f
<1>3. CASE left.start # None /\ right.start # None
  <2> DEFINE f == concat(left, right)
             p == patch(right.states, left.outs, right.start)
  <2>1. f = Fragment(p, left.start, right.outs)
    BY <1>3 DEF concat
  <2>2. p \in Seq(States) /\ Len(p) = Len(right.states)
    BY <1>0, PatchFacts
  <2>3. WellFormed(right.states) /\ right.start \in 0..Len(right.states) => WellFormed(p)
    BY <1>0, PatchFacts
  <2> HIDE DEF p, f
  <2>4. f.states = p /\ f.start = left.start /\ f.outs = right.outs /\ f \in Fragments
    BY <1>0, <2>1, <2>2 DEF Fragments, Fragment
  <2>5. FragmentOK(left) /\ FragmentOK(right) /\ Len(left.states) <= Len(right.states) => FragmentOK(f)
    BY <1>0, <2>2, <2>3, <2>4 DEF FragmentOK
  <2> QED BY <2>2, <2>4, <2>5 DEF f
<1> QED BY <1>1, <1>2, <1>3

LEMMA SplitState == ASSUME NEW a \in Nat, NEW b \in Nat
                    PROVE  /\ State(Split, a, b) \in States
                           /\ State(Split, a, b).out = a /\ State(Split, a, b).out1 = b
BY DEF State, States

LEMMA StarFacts ==
  ASSUME NEW f \in Fragments
  PROVE  /\ Star(f) \in Fragments /\ Len(Star(f).states) = Len(f.states) + 1
         /\ FragmentOK(f) => FragmentOK(Star(f))
<1> DEFINE split == Len(f.states) + 1
           ss == Append(f.states, State(Split, f.start, None))
           p == patch(ss, f.outs, split)
<1>0. f.states \in Seq(States) /\ f.start \in Nat /\ Len(f.states) \in Nat /\ None \in Nat
  BY DEF Fragments, None
<1>1. ss \in Seq(States) /\ Len(ss) = split
  BY <1>0, SplitState, AppendFacts
<1>2. FragmentOK(f) => WellFormed(ss)
  BY <1>0, SplitState, AppendFacts DEF FragmentOK, None
<1>3. Star(f) = Fragment(p, split, {<<split, "out1">>})
  BY DEF Star
<1> HIDE DEF ss
<1>4. p \in Seq(States) /\ Len(p) = split /\ (FragmentOK(f) => WellFormed(p))
  BY <1>0, <1>1, <1>2, PatchFacts
<1> HIDE DEF p
<1>5. Star(f).states = p /\ Star(f).start = split /\ Star(f) \in Fragments
  BY <1>0, <1>3, <1>4 DEF Fragment, Fragments, Fields
<1> QED BY <1>0, <1>4, <1>5 DEF FragmentOK

LEMMA OptionalFacts ==
  ASSUME NEW f \in Fragments
  PROVE  /\ Optional(f) \in Fragments /\ Len(Optional(f).states) = Len(f.states) + 1
         /\ FragmentOK(f) => FragmentOK(Optional(f))
<1> DEFINE split == Len(f.states) + 1
           ss == Append(f.states, State(Split, f.start, None))
<1>0. /\ f.states \in Seq(States) /\ f.start \in Nat /\ f.outs \in SUBSET (Nat \X Fields)
      /\ Len(f.states) \in Nat /\ None \in Nat
  BY DEF Fragments, None
<1>1. ss \in Seq(States) /\ Len(ss) = split
  BY <1>0, SplitState, AppendFacts
<1>2. FragmentOK(f) => WellFormed(ss)
  BY <1>0, SplitState, AppendFacts DEF FragmentOK, None
<1>3. Optional(f) = Fragment(ss, split, f.outs \cup {<<split, "out1">>})
  BY DEF Optional
<1> HIDE DEF ss
<1>4. Optional(f).states = ss /\ Optional(f).start = split /\ Optional(f) \in Fragments
  BY <1>0, <1>1, <1>3 DEF Fragment, Fragments, Fields
<1> QED BY <1>0, <1>1, <1>2, <1>4 DEF FragmentOK

LEMMA EmptyFacts ==
  ASSUME NEW ss \in Seq(States)
  PROVE  /\ Empty(ss) \in Fragments /\ Empty(ss).states = ss /\ Empty(ss).start = 0
         /\ WellFormed(ss) => FragmentOK(Empty(ss))
<1>1. Empty(ss) = [states |-> ss, start |-> 0, outs |-> {}]
  BY DEF Empty, Fragment, None
<1>2. Empty(ss) \in Fragments /\ Empty(ss).states = ss /\ Empty(ss).start = 0
  BY <1>1 DEF Fragments
<1> QED BY <1>2 DEF FragmentOK
-----------------------------------------------------------------------------
\* What an iteration of Chain makes of what is before it.
Linked(B, nodes, m, k, before) ==
  concat(before, IF k <= m THEN B[nodes[k], before.states] ELSE Optional(B[nodes[k], before.states]))

LEMMA LinkedFacts ==
  ASSUME NEW S, NEW B, Builds(B, S), NEW nodes \in Seq(S), NEW m \in Nat,
         NEW k \in 1..Len(nodes), NEW before \in Fragments
  PROVE  /\ Linked(B, nodes, m, k, before) \in Fragments
         /\ \A C : BuildsExactly(B, C, S) /\ FragmentOK(before) =>
              /\ FragmentOK(Linked(B, nodes, m, k, before))
              /\ Len(Linked(B, nodes, m, k, before).states)
                   = Len(before.states) + C[nodes[k]] + (IF k <= m THEN 0 ELSE 1)
<1> DEFINE next == B[nodes[k], before.states]
           piece == IF k <= m THEN next ELSE Optional(next)
<1>1. nodes[k] \in S /\ before.states \in Seq(States) /\ Len(before.states) \in Nat
  BY DEF Fragments
<1>2. next \in Fragments
  BY <1>1 DEF Builds
<1> HIDE DEF next
<1>3. piece \in Fragments
  BY <1>2, OptionalFacts
<1>4. Linked(B, nodes, m, k, before) = concat(before, piece)
  BY DEF Linked, next
<1>5. ASSUME NEW C, BuildsExactly(B, C, S), FragmentOK(before)
      PROVE  /\ FragmentOK(concat(before, piece))
             /\ Len(concat(before, piece).states) = Len(before.states) + C[nodes[k]] + (IF k <= m THEN 0 ELSE 1)
  <2>1. FragmentOK(next) /\ Len(next.states) = Len(before.states) + C[nodes[k]] /\ C[nodes[k]] \in Nat
    BY <1>1, <1>5 DEF BuildsExactly, FragmentOK, next
  <2>2. FragmentOK(piece) /\ Len(piece.states) = Len(next.states) + (IF k <= m THEN 0 ELSE 1)
    <3>1. CASE k <= m
      BY <2>1, <3>1
    <3>2. CASE ~(k <= m)
      BY <1>2, <2>1, <3>2, OptionalFacts
    <3> QED BY <3>1, <3>2
  <2> HIDE DEF piece
  <2>3. Len(before.states) <= Len(piece.states)
    BY <1>1, <2>1, <2>2
  <2> QED BY <1>3, <1>5, <2>1, <2>2, <2>3, ConcatFacts
<1> HIDE DEF piece
<1> QED BY <1>3, <1>4, <1>5, ConcatFacts

ChainLoop(Loop, B, nodes, m, f) ==
  /\ Loop[0] = f
  /\ \A k \in 1..Len(nodes) : Loop[k] = Linked(B, nodes, m, k, Loop[k - 1])
  /\ \A k \in 0..Len(nodes) : Loop[k] \in Fragments
  /\ Chain(B, nodes, m, f) = Loop[Len(nodes)]

LEMMA ChainSteps ==
  ASSUME NEW S, NEW B, Builds(B, S), NEW nodes \in Seq(S), NEW m \in Nat, NEW f \in Fragments
  PROVE  \E Loop : ChainLoop(Loop, B, nodes, m, f)
<1> DEFINE L == Len(nodes)
           G == [p \in (1..L) \X Fragments |-> Linked(B, nodes, m, p[1], p[2])]
           E(s) == [k \in 0..L |-> IF k = 0 THEN f ELSE Linked(B, nodes, m, k, s[k - 1])]
           Loop == CHOOSE s : s = E(s)
<1>0. L \in Nat
  OBVIOUS
<1> HIDE DEF L
<1>1. \A k \in 1..L : \A b \in Fragments : Linked(B, nodes, m, k, b) \in Fragments
  BY LinkedFacts DEF L
<1>2. G \in [(1..L) \X Fragments -> Fragments]
  BY <1>1
<1>3. PICK s : IsLoop(s, L, Fragments, f, G)
  <2> HIDE DEF G
  <2> QED BY <1>0, <1>2, LoopExists
<1>4. s = E(s)
  <2>1. \A k \in 1..L : s[k] = Linked(B, nodes, m, k, s[k - 1])
    <3> SUFFICES ASSUME NEW k \in 1..L PROVE s[k] = Linked(B, nodes, m, k, s[k - 1])
      OBVIOUS
    <3>1. <<k, s[k - 1]>> \in (1..L) \X Fragments
      BY <1>0, <1>3 DEF IsLoop
    <3>2. G[<<k, s[k - 1]>>] = Linked(B, nodes, m, k, s[k - 1])
      BY <3>1
    <3> HIDE DEF G
    <3> QED BY <1>3, <3>2 DEF IsLoop
  <2> HIDE DEF G
  <2> QED BY <1>0, <1>3, <2>1 DEF IsLoop
<1>5. Loop = E(Loop)
  <2> HIDE DEF E
  <2> QED BY <1>4
<1>6. Chain(B, nodes, m, f) = Loop[L]
  BY DEF Chain, Linked, L
<1> HIDE DEF Loop
<1>7. Loop[0] = f /\ \A k \in 1..L : Loop[k] = Linked(B, nodes, m, k, Loop[k - 1])
  BY <1>0, <1>5
<1>8. \A k \in 0..L : Loop[k] \in Fragments
  <2>1. Loop[0] \in Fragments /\ \A k \in 1..L : Loop[k - 1] \in Fragments => Loop[k] \in Fragments
    BY <1>1, <1>7
  <2> QED BY <1>0, <2>1, LoopTyped
<1>9. ChainLoop(Loop, B, nodes, m, f)
  BY <1>6, <1>7, <1>8 DEF ChainLoop, L
<1> QED BY <1>9

\* w[k] is what the first k nodes of a chain add.
ChainAdds(w, C, nodes, m) ==
  /\ w[0] = 0
  /\ \A k \in 1..Len(nodes) : w[k] = w[k - 1] + C[nodes[k]] + (IF k <= m THEN 0 ELSE 1)

LEMMA ChainCount ==
  ASSUME NEW S, NEW B, NEW C, BuildsExactly(B, C, S), NEW nodes \in Seq(S), NEW m \in Nat,
         NEW f \in Fragments, FragmentOK(f),
         NEW w, ChainAdds(w, C, nodes, m)
  PROVE  /\ FragmentOK(Chain(B, nodes, m, f))
         /\ Len(Chain(B, nodes, m, f).states) = Len(f.states) + w[Len(nodes)]
<1>0. Builds(B, S) /\ Len(nodes) \in Nat /\ C \in [S -> Nat]
  <2>1. Builds(B, S) /\ C \in [S -> Nat]
    BY Zenon DEF BuildsExactly
  <2> QED BY <2>1
<1>1. PICK Loop : ChainLoop(Loop, B, nodes, m, f)
  BY <1>0, ChainSteps
<1> DEFINE T == {k \in 0..Len(nodes) : /\ FragmentOK(Loop[k]) /\ w[k] \in Nat
                                       /\ Len(Loop[k].states) = Len(f.states) + w[k]}
<1>2. 0 \in T
  <2>1. Len(f.states) \in Nat
    BY DEF Fragments
  <2> QED BY <1>0, <1>1, <2>1 DEF ChainLoop, ChainAdds
<1>3. ASSUME NEW k \in 1..Len(nodes), k - 1 \in T
      PROVE  k \in T
  <2>1. /\ FragmentOK(Loop[k - 1]) /\ w[k - 1] \in Nat /\ Loop[k - 1] \in Fragments
        /\ Len(Loop[k - 1].states) = Len(f.states) + w[k - 1]
    BY <1>1, <1>3 DEF ChainLoop
  <2>2. nodes[k] \in S /\ C[nodes[k]] \in Nat /\ Len(f.states) \in Nat
    BY <1>0 DEF Fragments
  <2>3. /\ FragmentOK(Linked(B, nodes, m, k, Loop[k - 1]))
        /\ Len(Linked(B, nodes, m, k, Loop[k - 1]).states)
             = Len(Loop[k - 1].states) + C[nodes[k]] + (IF k <= m THEN 0 ELSE 1)
    BY <1>0, <2>1, LinkedFacts
  <2>4. w[k] = w[k - 1] + C[nodes[k]] + (IF k <= m THEN 0 ELSE 1)
    BY DEF ChainAdds
  <2>5. w[k] \in Nat /\ Len(Loop[k].states) = Len(f.states) + w[k] /\ FragmentOK(Loop[k])
    <3>1. Loop[k] = Linked(B, nodes, m, k, Loop[k - 1])
      BY <1>1 DEF ChainLoop
    <3>2. w[k] = w[k - 1] + (C[nodes[k]] + (IF k <= m THEN 0 ELSE 1)) /\ w[k] \in Nat
      BY <2>1, <2>2, <2>4
    <3>3. FragmentOK(Loop[k])
      BY <2>3, <3>1, Zenon
    <3>4. Len(Loop[k].states)
            = Len(Loop[k - 1].states) + C[nodes[k]] + (IF k <= m THEN 0 ELSE 1)
      BY <2>3, <3>1, Zenon
    <3>5. Len(Loop[k].states) = Len(f.states) + w[k]
      <4> DEFINE add == C[nodes[k]] + (IF k <= m THEN 0 ELSE 1)
      <4>1. add \in Nat
        BY <2>2
      <4>2. w[k] = w[k - 1] + add
        BY <3>2
      <4>3. Len(Loop[k].states) = Len(Loop[k - 1].states) + add
        BY <2>1, <2>2, <3>4
      <4> HIDE DEF add
      <4> QED BY <2>1, <2>2, <4>1, <4>2, <4>3
    <3> QED BY <3>2, <3>3, <3>5
  <2> QED BY <2>5
<1> HIDE DEF T
<1>4. Len(nodes) \in T
  <2>1. \A k \in 1..Len(nodes) : k - 1 \in T => k \in T
    BY <1>3
  <2>2. \A k \in 0..Len(nodes) : k \in T
    BY <1>0, <1>2, <2>1, LoopInduction
  <2> QED BY <1>0, <2>2
<1> QED BY <1>1, <1>4 DEF T, ChainLoop
-----------------------------------------------------------------------------
LEMMA ChainTyped ==
  ASSUME NEW S, NEW B, Builds(B, S), NEW nodes \in Seq(S), NEW m \in Nat, NEW f \in Fragments
  PROVE  Chain(B, nodes, m, f) \in Fragments
<1>1. PICK Loop : ChainLoop(Loop, B, nodes, m, f)
  BY ChainSteps
<1> QED BY <1>1 DEF ChainLoop

LEMMA CopiesFacts ==
  ASSUME NEW S, NEW n, n.child \in S, NEW m \in Nat
  PROVE  Copies(n, m) \in Seq(S) /\ Len(Copies(n, m)) = m /\ \A k \in 1..m : Copies(n, m)[k] = n.child
BY DEF Copies

\* m copies of a node, of which those after the first low are optional.
LEMMA CopiesCount ==
  ASSUME NEW S, NEW B, NEW C, BuildsExactly(B, C, S), NEW n, n.child \in S,
         NEW low \in Nat, NEW m \in Nat, low <= m, NEW f \in Fragments, FragmentOK(f)
  PROVE  /\ FragmentOK(Chain(B, Copies(n, m), low, f))
         /\ Len(Chain(B, Copies(n, m), low, f).states)
              = Len(f.states) + (low * C[n.child] + (m - low) * (C[n.child] + 1))
<1> DEFINE nodes == Copies(n, m)
           c == C[n.child]
           w == [k \in 0..m |-> IF k <= low THEN k * c ELSE low * c + (k - low) * (c + 1)]
<1>1. nodes \in Seq(S) /\ Len(nodes) = m /\ \A k \in 1..m : nodes[k] = n.child
  BY CopiesFacts
<1>2. c \in Nat
  <2>1. C \in [S -> Nat]
    BY Zenon DEF BuildsExactly
  <2> QED BY <2>1
<1> HIDE DEF nodes, c
<1>3. w[0] = 0 /\ w[m] = low * c + (m - low) * (c + 1)
  <2>1. 0 * c = 0
    BY <1>2
  <2>2. m <= low => m = low /\ (m - low) * (c + 1) = 0
    BY <1>2
  <2> QED BY <1>2, <2>1, <2>2
<1>4. ASSUME NEW k \in 1..m
      PROVE  w[k] = w[k - 1] + C[nodes[k]] + (IF k <= low THEN 0 ELSE 1)
  <2>1. C[nodes[k]] = c
    BY <1>1 DEF c
  <2>2. k - 1 \in 0..m /\ k \in 0..m
    OBVIOUS
  <2>3. CASE k <= low
    <3>1. w[k] = k * c /\ w[k - 1] = (k - 1) * c
      BY <2>2, <2>3
    <3>2. k * c = (k - 1) * c + c
      BY <1>2
    <3> QED BY <1>2, <2>1, <2>3, <3>1, <3>2
  <2>4. CASE k > low
    <3>1. w[k] = low * c + (k - low) * (c + 1)
      BY <2>2, <2>4
    <3>2. w[k - 1] = low * c + ((k - 1) - low) * (c + 1)
      <4>1. CASE k - 1 <= low
        <5>1. k - 1 = low /\ (k - 1) - low = 0
          BY <2>4, <4>1
        <5>2. w[k - 1] = low * c
          BY <2>2, <5>1
        <5>3. 0 * (c + 1) = 0 /\ low * c \in Int
          BY <1>2
        <5> QED BY <5>1, <5>2, <5>3
      <4>2. CASE ~(k - 1 <= low)
        BY <2>2, <4>2
      <4> QED BY <4>1, <4>2
    <3>3. (k - low) * (c + 1) = ((k - 1) - low) * (c + 1) + (c + 1)
      BY <1>2
    <3>4. low * c \in Int /\ ((k - 1) - low) * (c + 1) \in Int
      BY <1>2
    <3> QED BY <1>2, <2>1, <2>4, <3>1, <3>2, <3>3, <3>4
  <2> QED BY <2>3, <2>4
<1> HIDE DEF w
<1>5. /\ FragmentOK(Chain(B, nodes, low, f))
      /\ Len(Chain(B, nodes, low, f).states) = Len(f.states) + w[Len(nodes)]
  <2>1. ChainAdds(w, C, nodes, low)
    BY <1>1, <1>3, <1>4 DEF ChainAdds
  <2> QED BY <1>1, <1>3, <2>1, ChainCount
<1> QED BY <1>1, <1>3, <1>5 DEF nodes, c

LEMMA RepeatTyped ==
  ASSUME NEW S, NEW B, Builds(B, S), NEW n \in Leaf \cup Composite(S), n.kind = "repeat",
         NEW ss \in Seq(States)
  PROVE  repeat(B, n, ss) \in Fragments
<1> DEFINE first == B[n.child, ss]
           copied == Chain(B, Copies(n, n.minimum), n.minimum, Empty(ss))
<1>1. /\ n.child \in S /\ n.minimum \in Nat /\ n.maximum \in Nat \cup {Unbounded}
  BY KindFacts
<1>2. first \in Fragments
  BY <1>1 DEF Builds
<1>3. copied \in Fragments
  BY <1>1, CopiesFacts, EmptyFacts, ChainTyped
<1>4. n.maximum # Unbounded => Chain(B, Copies(n, n.maximum), n.minimum, Empty(ss)) \in Fragments
  BY <1>1, CopiesFacts, EmptyFacts, ChainTyped
<1> HIDE DEF first, copied
<1>5. Star(first) \in Fragments /\ [Star(first) EXCEPT !.start = first.start] \in Fragments
  BY <1>2, StarFacts DEF Fragments
<1>6. concat(copied, Star(B[n.child, copied.states])) \in Fragments
  <2>1. copied.states \in Seq(States)
    BY <1>3 DEF Fragments
  <2>2. B[n.child, copied.states] \in Fragments
    BY <1>1, <2>1 DEF Builds
  <2> QED BY <1>3, <2>2, StarFacts, ConcatFacts
<1> QED BY <1>4, <1>5, <1>6 DEF repeat, first, copied

LEMMA RepeatExact ==
  ASSUME NEW S, NEW B, NEW C, BuildsExactly(B, C, S), NEW n \in Leaf \cup Composite(S), n.kind = "repeat",
         NEW ss \in Seq(States), WellFormed(ss)
  PROVE  /\ FragmentOK(repeat(B, n, ss))
         /\ Len(repeat(B, n, ss).states) = Len(ss) + RepeatCount(n, C[n.child])
<1> DEFINE c == C[n.child]
           first == B[n.child, ss]
           copied == Chain(B, Copies(n, n.minimum), n.minimum, Empty(ss))
           again == B[n.child, copied.states]
<1>1. /\ n.child \in S /\ n.minimum \in Nat /\ n.maximum \in Nat \cup {Unbounded} /\ n.copy \in BOOLEAN
      /\ n.maximum = Unbounded \/ n.minimum <= n.maximum
  BY KindFacts
<1>2. Builds(B, S) /\ C \in [S -> Nat]
  BY Zenon DEF BuildsExactly
<1>3. c \in Nat /\ Len(ss) \in Nat /\ Unbounded \notin Nat
  BY <1>1, <1>2 DEF Unbounded
<1>4. first \in Fragments /\ FragmentOK(first) /\ Len(first.states) = Len(ss) + c
  BY <1>1, <1>2 DEF Builds, BuildsExactly
<1>5. Empty(ss) \in Fragments /\ FragmentOK(Empty(ss)) /\ Empty(ss).states = ss
  BY EmptyFacts
<1>6. CASE n.maximum = Unbounded /\ ~n.copy
  <2> HIDE DEF first
  <2>1. /\ Star(first) \in Fragments /\ FragmentOK(Star(first))
        /\ Len(Star(first).states) = Len(ss) + c + 1
    BY <1>3, <1>4, StarFacts
  <2> DEFINE f == [Star(first) EXCEPT !.start = first.start]
  <2>2. FragmentOK(f) /\ f.states = Star(first).states
    <3>1. f \in Fragments /\ f.states = Star(first).states /\ f.start = first.start
      BY <1>4, <2>1 DEF Fragments
    <3>2. first.start \in 0..Len(Star(first).states)
      BY <1>3, <1>4, <2>1 DEF FragmentOK
    <3> HIDE DEF f
    <3> QED BY <2>1, <3>1, <3>2 DEF FragmentOK
  <2>3. RepeatCount(n, c) = c + 1
    <3>1. n.maximum # n.minimum
      BY <1>1, <1>3, <1>6
    <3> QED BY <1>3, <1>6, <3>1 DEF RepeatCount
  <2>4. repeat(B, n, ss) \in {Star(first), f}
    BY <1>6 DEF repeat, first
  <2> HIDE DEF f, c
  <2> QED BY <1>3, <2>1, <2>2, <2>3, <2>4 DEF c
<1>7. CASE n.maximum = Unbounded /\ n.copy
  <2>1. /\ copied \in Fragments /\ FragmentOK(copied)
        /\ Len(copied.states) = Len(ss) + (n.minimum * c + (n.minimum - n.minimum) * (c + 1))
    <3>1. copied \in Fragments
      BY <1>1, <1>2, <1>5, CopiesFacts, ChainTyped
    <3>2. n.minimum <= n.minimum
      BY <1>1
    <3> QED BY <1>1, <1>5, <3>1, <3>2, CopiesCount
  <2>2. Len(copied.states) = Len(ss) + n.minimum * c /\ n.minimum * c \in Nat
    <3>1. (n.minimum - n.minimum) * (c + 1) = 0 /\ n.minimum * c \in Nat
      BY <1>1, <1>3
    <3> QED BY <2>1, <3>1
  <2> HIDE DEF copied, c
  <2>3. again \in Fragments /\ FragmentOK(again) /\ Len(again.states) = Len(copied.states) + c
    <3>1. copied.states \in Seq(States) /\ WellFormed(copied.states)
      BY <2>1 DEF FragmentOK, Fragments
    <3> QED BY <1>1, <1>2, <3>1 DEF Builds, BuildsExactly, c
  <2> HIDE DEF again
  <2>4. /\ Star(again) \in Fragments /\ FragmentOK(Star(again))
        /\ Len(Star(again).states) = Len(copied.states) + c + 1
    BY <1>3, <2>2, <2>3, StarFacts
  <2>5. /\ FragmentOK(concat(copied, Star(again)))
        /\ Len(concat(copied, Star(again)).states) = Len(copied.states) + c + 1
    <3>1. Len(copied.states) <= Len(Star(again).states)
      BY <1>3, <2>2, <2>4
    <3> QED BY <2>1, <2>4, <3>1, ConcatFacts
  <2>6. RepeatCount(n, c) = (n.minimum + 1) * c + 1
    <3>1. n.maximum # n.minimum
      BY <1>1, <1>3, <1>7
    <3> QED BY <1>7, <3>1 DEF RepeatCount
  <2>7. (n.minimum + 1) * c = n.minimum * c + c
    BY <1>1, <1>3
  <2>8. repeat(B, n, ss) = concat(copied, Star(again))
    BY <1>7 DEF repeat, copied, again
  <2>9. Len(copied.states) + c + 1 = Len(ss) + RepeatCount(n, c)
    BY <1>3, <2>2, <2>6, <2>7
  <2> QED BY <2>5, <2>8, <2>9 DEF c
<1>8. CASE n.maximum # Unbounded
  <2> DEFINE f == Chain(B, Copies(n, n.maximum), n.minimum, Empty(ss))
  <2>0. n.maximum \in Nat /\ n.minimum <= n.maximum
    BY <1>1, <1>8
  <2>1. /\ FragmentOK(f)
        /\ Len(f.states) = Len(ss) + (n.minimum * c + (n.maximum - n.minimum) * (c + 1))
    BY <1>1, <1>5, <2>0, CopiesCount
  <2>2. RepeatCount(n, c) = n.minimum * c + (n.maximum - n.minimum) * (c + 1)
    <3>1. CASE n.maximum = n.minimum
      <4>1. (n.maximum - n.minimum) * (c + 1) = 0 /\ n.minimum * c \in Int
        BY <1>1, <1>3, <3>1
      <4> HIDE DEF c
      <4> QED BY <3>1, <4>1 DEF RepeatCount
    <3>2. CASE n.maximum # n.minimum
      BY <1>8, <3>2 DEF RepeatCount
    <3> QED BY <3>1, <3>2
  <2>3. repeat(B, n, ss) = f
    BY <1>8 DEF repeat
  <2> HIDE DEF f, c
  <2> QED BY <2>1, <2>2, <2>3 DEF c
<1> QED BY <1>1, <1>6, <1>7, <1>8
-----------------------------------------------------------------------------
\* The fragments of the branches of an alternation.
BuiltLoop(Loop, B, children, ss) ==
  /\ Loop[0] = Empty(ss)
  /\ \A k \in 1..Len(children) : Loop[k] = B[children[k], Loop[k - 1].states]
  /\ \A k \in 0..Len(children) : Loop[k] \in Fragments

Branch(B, children, k, before) == B[children[k], before.states]

LEMMA BuiltSteps ==
  ASSUME NEW S, NEW B, Builds(B, S), NEW children \in Seq(S), NEW ss \in Seq(States)
  PROVE  BuiltLoop(Built(B, children, ss), B, children, ss)
<1> DEFINE L == Len(children)
           none == Empty(ss)
           G == [p \in (1..L) \X Fragments |-> Branch(B, children, p[1], p[2])]
           E(s) == [k \in 0..L |-> IF k = 0 THEN none ELSE Branch(B, children, k, s[k - 1])]
           Loop == CHOOSE s : s = E(s)
<1>0. L \in Nat /\ none \in Fragments
  BY EmptyFacts
<1>1. \A k \in 1..L : \A b \in Fragments : Branch(B, children, k, b) \in Fragments
  <2> SUFFICES ASSUME NEW k \in 1..L, NEW b \in Fragments PROVE Branch(B, children, k, b) \in Fragments
    OBVIOUS
  <2>1. children[k] \in S /\ b.states \in Seq(States)
    BY DEF Fragments
  <2> QED BY <2>1 DEF Builds, Branch
<1> HIDE DEF L, none
<1>2. G \in [(1..L) \X Fragments -> Fragments]
  BY <1>1
<1>3. PICK s : IsLoop(s, L, Fragments, none, G)
  <2> HIDE DEF G
  <2> QED BY <1>0, <1>2, LoopExists
<1>4. s = E(s)
  <2>1. \A k \in 1..L : s[k] = Branch(B, children, k, s[k - 1])
    <3> SUFFICES ASSUME NEW k \in 1..L PROVE s[k] = Branch(B, children, k, s[k - 1])
      OBVIOUS
    <3>1. <<k, s[k - 1]>> \in (1..L) \X Fragments
      BY <1>0, <1>3 DEF IsLoop
    <3>2. G[<<k, s[k - 1]>>] = Branch(B, children, k, s[k - 1])
      BY <3>1
    <3> HIDE DEF G
    <3> QED BY <1>3, <3>2 DEF IsLoop
  <2> HIDE DEF G
  <2> QED BY <1>0, <1>3, <2>1 DEF IsLoop
<1>5. Loop = E(Loop)
  <2> HIDE DEF E
  <2> QED BY <1>4
<1>6. Built(B, children, ss) = Loop
  BY DEF Built, Branch, L, none
<1> HIDE DEF Loop
<1>7. Loop[0] = none /\ \A k \in 1..L : Loop[k] = Branch(B, children, k, Loop[k - 1])
  BY <1>0, <1>5
<1>8. \A k \in 0..L : Loop[k] \in Fragments
  <2>1. Loop[0] \in Fragments /\ \A k \in 1..L : Loop[k - 1] \in Fragments => Loop[k] \in Fragments
    BY <1>0, <1>1, <1>7
  <2> QED BY <1>0, <2>1, LoopTyped
<1> QED BY <1>6, <1>7, <1>8 DEF L, BuiltLoop, Branch, none

\* Running sums: the states counted for the first k children.
SumsOf(Sum, C, children) ==
  /\ Sum[0] = 0 /\ \A k \in 1..Len(children) : Sum[k] = Sum[k - 1] + C[children[k]]
  /\ \A k \in 0..Len(children) : Sum[k] \in Nat
  /\ Total([k \in DOMAIN children |-> C[children[k]]], Len(children)) = Sum[Len(children)]

LEMMA SumsExist ==
  ASSUME NEW S, NEW C \in [S -> Nat], NEW children \in Seq(S)
  PROVE  \E Sum : SumsOf(Sum, C, children)
<1> DEFINE f == [k \in DOMAIN children |-> C[children[k]]]
<1>1. /\ Len(children) \in Nat /\ DOMAIN children = 1..Len(children)
      /\ \A k \in 1..Len(children) : children[k] \in S
  OBVIOUS
<1>2. f \in [1..Len(children) -> Nat] /\ \A k \in 1..Len(children) : f[k] = C[children[k]]
  BY <1>1
<1> HIDE DEF f
<1>3. PICK Sum : /\ Sum[0] = 0 /\ \A k \in 1..Len(children) : Sum[k] = Sum[k - 1] + f[k]
                 /\ \A k \in 0..Len(children) : Sum[k] \in Nat
                 /\ Total(f, Len(children)) = Sum[Len(children)]
  BY <1>1, <1>2, TotalSteps
<1>4. SumsOf(Sum, C, children)
  BY <1>2, <1>3 DEF SumsOf, f
<1> QED BY <1>4

\* The states of several nodes that C has counted.
Counted(C, children) == Total([k \in DOMAIN children |-> C[children[k]]], Len(children))

LEMMA ConcatExact ==
  ASSUME NEW S, NEW B, NEW C, BuildsExactly(B, C, S), NEW children \in Seq(S),
         NEW ss \in Seq(States), WellFormed(ss)
  PROVE  /\ FragmentOK(Chain(B, children, Len(children), Empty(ss)))
         /\ Len(Chain(B, children, Len(children), Empty(ss)).states)
              = Len(ss) + Counted(C, children)
<1>1. C \in [S -> Nat] /\ Len(children) \in Nat
  <2>1. C \in [S -> Nat]
    BY Zenon DEF BuildsExactly
  <2> QED BY <2>1
<1>2. Empty(ss) \in Fragments /\ FragmentOK(Empty(ss)) /\ Empty(ss).states = ss
  BY EmptyFacts
<1>3. PICK Sum : SumsOf(Sum, C, children)
  BY <1>1, SumsExist
<1>4. ChainAdds(Sum, C, children, Len(children))
  <2>1. ASSUME NEW k \in 1..Len(children)
        PROVE  Sum[k] = Sum[k - 1] + C[children[k]] + (IF k <= Len(children) THEN 0 ELSE 1)
    <3>1. Sum[k] = Sum[k - 1] + C[children[k]] /\ Sum[k] \in Nat /\ Sum[k - 1] \in Nat
      BY <1>1, <1>3 DEF SumsOf
    <3>2. C[children[k]] \in Nat
      BY <1>1
    <3> QED BY <3>1, <3>2
  <2> QED BY <1>3, <2>1 DEF ChainAdds, SumsOf
<1>5. /\ FragmentOK(Chain(B, children, Len(children), Empty(ss)))
      /\ Len(Chain(B, children, Len(children), Empty(ss)).states) = Len(Empty(ss).states) + Sum[Len(children)]
  BY <1>1, <1>2, <1>4, ChainCount
<1> QED BY <1>2, <1>3, <1>5 DEF SumsOf, Counted

\* The branches are built one behind the other, each in the list of all before.
LEMMA BuiltExact ==
  ASSUME NEW S, NEW B, NEW C, BuildsExactly(B, C, S), NEW children \in Seq(S),
         NEW ss \in Seq(States), WellFormed(ss), NEW Sum, SumsOf(Sum, C, children),
         NEW Loop, BuiltLoop(Loop, B, children, ss)
  PROVE  \A k \in 0..Len(children) :
           /\ FragmentOK(Loop[k]) /\ Len(Loop[k].states) = Len(ss) + Sum[k]
           /\ \A i \in 0..k : Sum[i] <= Sum[k]
<1>1. C \in [S -> Nat] /\ Len(children) \in Nat /\ Builds(B, S) /\ Len(ss) \in Nat
  <2>1. C \in [S -> Nat] /\ Builds(B, S)
    BY Zenon DEF BuildsExactly
  <2> QED BY <2>1
<1> DEFINE T == {k \in 0..Len(children) : /\ FragmentOK(Loop[k]) /\ Len(Loop[k].states) = Len(ss) + Sum[k]
                                          /\ \A i \in 0..k : Sum[i] <= Sum[k]}
<1>2. 0 \in T
  <2>1. FragmentOK(Loop[0]) /\ Loop[0].states = ss
    BY EmptyFacts DEF BuiltLoop
  <2>2. Sum[0] = 0
    BY DEF SumsOf
  <2> QED BY <1>1, <2>1, <2>2
<1>3. ASSUME NEW k \in 1..Len(children), k - 1 \in T
      PROVE  k \in T
  <2>1. /\ FragmentOK(Loop[k - 1]) /\ Len(Loop[k - 1].states) = Len(ss) + Sum[k - 1]
        /\ \A i \in 0..k - 1 : Sum[i] <= Sum[k - 1]
    BY <1>3
  <2>2. /\ children[k] \in S /\ C[children[k]] \in Nat
        /\ Loop[k - 1].states \in Seq(States) /\ WellFormed(Loop[k - 1].states)
    BY <1>1, <2>1 DEF FragmentOK, Fragments
  <2>3. Loop[k] = B[children[k], Loop[k - 1].states]
    BY DEF BuiltLoop
  <2>4. FragmentOK(Loop[k]) /\ Len(Loop[k].states) = Len(Loop[k - 1].states) + C[children[k]]
    BY <2>2, <2>3 DEF BuildsExactly
  <2>5. Sum[k] = Sum[k - 1] + C[children[k]] /\ Sum[k] \in Nat /\ Sum[k - 1] \in Nat
    BY <1>1 DEF SumsOf
  <2>6. \A i \in 0..k : Sum[i] <= Sum[k]
    <3> SUFFICES ASSUME NEW i \in 0..k PROVE Sum[i] <= Sum[k]
      OBVIOUS
    <3>1. CASE i = k
      BY <2>5, <3>1
    <3>2. CASE i # k
      <4>1. i \in 0..k - 1 /\ Sum[i] \in Nat
        BY <1>1, <3>2 DEF SumsOf
      <4>2. Sum[i] <= Sum[k - 1]
        BY <2>1, <4>1
      <4> QED BY <2>2, <2>5, <4>1, <4>2
    <3> QED BY <3>1, <3>2
  <2>7. Len(Loop[k].states) = Len(ss) + Sum[k]
    BY <1>1, <2>1, <2>2, <2>4, <2>5
  <2> QED BY <2>4, <2>6, <2>7
<1> HIDE DEF T
<1>4. \A k \in 0..Len(children) : k \in T
  <2>1. \A k \in 1..Len(children) : k - 1 \in T => k \in T
    BY <1>3
  <2> QED BY <1>1, <1>2, <2>1, LoopInduction
<1> QED BY <1>4 DEF T
-----------------------------------------------------------------------------
\* A split in front of the branch k from the right, or the branches behind it.
Forked(fragments, m, k, right) ==
  Fragment(Append(right.states, State(Split, fragments[m - k].start, right.start)),
           Len(right.states) + 1, fragments[m - k].outs \cup right.outs)

LEMMA ForkedFacts ==
  ASSUME NEW right \in Fragments, NEW fragments, NEW m \in Nat, NEW k \in Nat,
         fragments[m - k] \in Fragments
  PROVE  /\ Forked(fragments, m, k, right) \in Fragments
         /\ Len(Forked(fragments, m, k, right).states) = Len(right.states) + 1
         /\ /\ FragmentOK(fragments[m - k]) /\ FragmentOK(right)
            /\ Len(fragments[m - k].states) <= Len(right.states)
            => FragmentOK(Forked(fragments, m, k, right))
<1> DEFINE left == fragments[m - k]
           ss == Append(right.states, State(Split, left.start, right.start))
           f == Forked(fragments, m, k, right)
<1>0. /\ left.start \in Nat /\ left.outs \in SUBSET (Nat \X Fields) /\ Len(left.states) \in Nat
      /\ right.states \in Seq(States) /\ right.start \in Nat /\ right.outs \in SUBSET (Nat \X Fields)
      /\ Len(right.states) \in Nat
  BY DEF Fragments
<1>1. ss \in Seq(States) /\ Len(ss) = Len(right.states) + 1
  BY <1>0, SplitState, AppendFacts
<1>2. FragmentOK(left) /\ FragmentOK(right) /\ Len(left.states) <= Len(right.states) => WellFormed(ss)
  <2> SUFFICES ASSUME FragmentOK(left), FragmentOK(right), Len(left.states) <= Len(right.states)
               PROVE  WellFormed(ss)
    OBVIOUS
  <2>1. left.start \in 0..Len(right.states) + 1 /\ right.start \in 0..Len(right.states) + 1
    BY <1>0 DEF FragmentOK
  <2>2. WellFormed(right.states)
    BY DEF FragmentOK
  <2> QED BY <1>0, <2>1, <2>2, SplitState, AppendFacts
<1>3. f = Fragment(ss, Len(right.states) + 1, left.outs \cup right.outs)
  BY DEF Forked
<1> HIDE DEF ss, f, left
<1>4. f.states = ss /\ f.start = Len(right.states) + 1 /\ f \in Fragments
  BY <1>0, <1>1, <1>3 DEF Fragment, Fragments
<1>5. FragmentOK(left) /\ FragmentOK(right) /\ Len(left.states) <= Len(right.states) => FragmentOK(f)
  BY <1>0, <1>1, <1>2, <1>4 DEF FragmentOK
<1> QED BY <1>1, <1>4, <1>5 DEF f, left

JoinedLoop(Loop, fragments, m) ==
  /\ Loop[0] = fragments[m]
  /\ \A k \in 1..m - 1 : Loop[k] = Forked(fragments, m, k, Loop[k - 1])
  /\ \A k \in 0..m - 1 : Loop[k] \in Fragments
  /\ Joined(fragments, m) = Loop[m - 1]

LEMMA JoinedSteps ==
  ASSUME NEW m \in Nat \ {0}, NEW fragments, \A k \in 1..m : fragments[k] \in Fragments
  PROVE  \E Loop : JoinedLoop(Loop, fragments, m)
<1> DEFINE L == m - 1
           last == fragments[m]
           G == [p \in (1..L) \X Fragments |-> Forked(fragments, m, p[1], p[2])]
           E(s) == [k \in 0..L |-> IF k = 0 THEN last ELSE Forked(fragments, m, k, s[k - 1])]
           Loop == CHOOSE s : s = E(s)
<1>0. L \in Nat /\ last \in Fragments
  OBVIOUS
<1>1. \A k \in 1..L : \A b \in Fragments : Forked(fragments, m, k, b) \in Fragments
  <2> SUFFICES ASSUME NEW k \in 1..L, NEW b \in Fragments PROVE Forked(fragments, m, k, b) \in Fragments
    OBVIOUS
  <2>1. m - k \in 1..m /\ k \in Nat
    OBVIOUS
  <2>2. fragments[m - k] \in Fragments
    BY <2>1
  <2> QED BY <2>1, <2>2, ForkedFacts
<1> HIDE DEF L, last
<1>2. G \in [(1..L) \X Fragments -> Fragments]
  BY <1>1
<1>3. PICK s : IsLoop(s, L, Fragments, last, G)
  <2> HIDE DEF G
  <2> QED BY <1>0, <1>2, LoopExists
<1>4. s = E(s)
  <2>1. \A k \in 1..L : s[k] = Forked(fragments, m, k, s[k - 1])
    <3> SUFFICES ASSUME NEW k \in 1..L PROVE s[k] = Forked(fragments, m, k, s[k - 1])
      OBVIOUS
    <3>1. <<k, s[k - 1]>> \in (1..L) \X Fragments
      BY <1>0, <1>3 DEF IsLoop
    <3>2. G[<<k, s[k - 1]>>] = Forked(fragments, m, k, s[k - 1])
      BY <3>1
    <3> HIDE DEF G
    <3> QED BY <1>3, <3>2 DEF IsLoop
  <2> HIDE DEF G
  <2> QED BY <1>0, <1>3, <2>1 DEF IsLoop
<1>5. Loop = E(Loop)
  <2> HIDE DEF E
  <2> QED BY <1>4
<1>6. Joined(fragments, m) = Loop[L]
  BY DEF Joined, Forked, L, last
<1> HIDE DEF Loop
<1>7. Loop[0] = last /\ \A k \in 1..L : Loop[k] = Forked(fragments, m, k, Loop[k - 1])
  BY <1>0, <1>5
<1>8. \A k \in 0..L : Loop[k] \in Fragments
  <2>1. Loop[0] \in Fragments /\ \A k \in 1..L : Loop[k - 1] \in Fragments => Loop[k] \in Fragments
    BY <1>0, <1>1, <1>7
  <2> QED BY <1>0, <2>1, LoopTyped
<1>9. JoinedLoop(Loop, fragments, m)
  BY <1>6, <1>7, <1>8 DEF L, last, JoinedLoop
<1> QED BY <1>9

LEMMA JoinedExact ==
  ASSUME NEW m \in Nat \ {0}, NEW fragments,
         \A k \in 1..m : fragments[k] \in Fragments /\ FragmentOK(fragments[k])
                         /\ Len(fragments[k].states) <= Len(fragments[m].states)
  PROVE  /\ FragmentOK(Joined(fragments, m))
         /\ Len(Joined(fragments, m).states) = Len(fragments[m].states) + (m - 1)
<1>1. PICK Loop : JoinedLoop(Loop, fragments, m)
  BY JoinedSteps
<1> DEFINE T == {k \in 0..m - 1 : /\ FragmentOK(Loop[k])
                                  /\ Len(Loop[k].states) = Len(fragments[m].states) + k}
<1>0. m \in 1..m /\ Len(fragments[m].states) \in Nat /\ m - 1 \in Nat
  BY DEF Fragments
<1>2. 0 \in T
  BY <1>0, <1>1 DEF JoinedLoop
<1>3. ASSUME NEW k \in 1..m - 1, k - 1 \in T
      PROVE  k \in T
  <2>1. /\ FragmentOK(Loop[k - 1]) /\ Loop[k - 1] \in Fragments
        /\ Len(Loop[k - 1].states) = Len(fragments[m].states) + (k - 1)
    BY <1>0, <1>1, <1>3 DEF JoinedLoop
  <2>2. m - k \in 1..m /\ k \in Nat
    OBVIOUS
  <2> DEFINE left == fragments[m - k]
  <2>3. /\ left \in Fragments /\ FragmentOK(left) /\ Len(left.states) <= Len(fragments[m].states)
        /\ Len(left.states) \in Nat
    BY <2>2 DEF Fragments
  <2>4. Len(left.states) <= Len(Loop[k - 1].states)
    BY <1>0, <2>1, <2>3
  <2>5. Loop[k] = Forked(fragments, m, k, Loop[k - 1])
    BY <1>1 DEF JoinedLoop
  <2>6. FragmentOK(Loop[k]) /\ Len(Loop[k].states) = Len(Loop[k - 1].states) + 1
    <3>2. /\ Len(Forked(fragments, m, k, Loop[k - 1]).states) = Len(Loop[k - 1].states) + 1
          /\ FragmentOK(Forked(fragments, m, k, Loop[k - 1]))
      BY <2>1, <2>2, <2>3, <2>4, ForkedFacts
    <3> QED BY <2>5, <3>2
  <2>7. Len(Loop[k].states) = Len(fragments[m].states) + k
    BY <1>0, <2>1, <2>6
  <2> QED BY <2>6, <2>7
<1> HIDE DEF T
<1>4. m - 1 \in T
  <2>1. \A k \in 1..m - 1 : k - 1 \in T => k \in T
    BY <1>3
  <2>2. \A k \in 0..m - 1 : k \in T
    BY <1>0, <1>2, <2>1, LoopInduction
  <2> QED BY <1>0, <2>2
<1> QED BY <1>1, <1>4 DEF T, JoinedLoop

LEMMA AlternateTyped ==
  ASSUME NEW S, NEW B, Builds(B, S), NEW children \in Seq(S), Len(children) # 0, NEW ss \in Seq(States)
  PROVE  Joined(Built(B, children, ss), Len(children)) \in Fragments
<1> DEFINE fragments == Built(B, children, ss)
<1>1. BuiltLoop(fragments, B, children, ss)
  BY BuiltSteps
<1> HIDE DEF fragments
<1>2. Len(children) \in Nat \ {0} /\ \A k \in 1..Len(children) : fragments[k] \in Fragments
  <2>1. Len(children) \in Nat \ {0}
    OBVIOUS
  <2>2. \A k \in 0..Len(children) : fragments[k] \in Fragments
    BY <1>1 DEF BuiltLoop
  <2> QED BY <2>1, <2>2
<1>3. PICK Loop : JoinedLoop(Loop, fragments, Len(children))
  BY <1>2, JoinedSteps
<1>4. Len(children) - 1 \in 0..Len(children) - 1
  BY <1>2
<1> QED BY <1>3, <1>4 DEF JoinedLoop, fragments

LEMMA AlternateExact ==
  ASSUME NEW S, NEW B, NEW C, BuildsExactly(B, C, S), NEW children \in Seq(S), Len(children) # 0,
         NEW ss \in Seq(States), WellFormed(ss)
  PROVE  /\ FragmentOK(Joined(Built(B, children, ss), Len(children)))
         /\ Len(Joined(Built(B, children, ss), Len(children)).states)
              = Len(ss) + (Total([k \in DOMAIN children |-> C[children[k]]], Len(children))
                             + (Len(children) - 1))
<1> DEFINE fragments == Built(B, children, ss)
           m == Len(children)
<1>1. C \in [S -> Nat] /\ Builds(B, S)
  BY Zenon DEF BuildsExactly
<1>2. BuiltLoop(fragments, B, children, ss)
  BY <1>1, BuiltSteps
<1> HIDE DEF fragments
<1>3. PICK Sum : SumsOf(Sum, C, children)
  BY <1>1, SumsExist
<1>4. \A k \in 0..m : /\ FragmentOK(fragments[k]) /\ Len(fragments[k].states) = Len(ss) + Sum[k]
                      /\ \A i \in 0..k : Sum[i] <= Sum[k]
  BY <1>2, <1>3, BuiltExact
<1>5. m \in Nat \ {0} /\ Len(ss) \in Nat /\ \A k \in 0..m : Sum[k] \in Nat
  BY <1>3 DEF SumsOf
<1>6. \A k \in 1..m : /\ fragments[k] \in Fragments /\ FragmentOK(fragments[k])
                      /\ Len(fragments[k].states) <= Len(fragments[m].states)
  <2> SUFFICES ASSUME NEW k \in 1..m
               PROVE  /\ fragments[k] \in Fragments /\ FragmentOK(fragments[k])
                      /\ Len(fragments[k].states) <= Len(fragments[m].states)
    OBVIOUS
  <2>1. k \in 0..m /\ m \in 0..m
    BY <1>5
  <2>2. Sum[k] <= Sum[m] /\ Sum[k] \in Nat /\ Sum[m] \in Nat
    BY <1>4, <1>5, <2>1
  <2>3. Len(fragments[k].states) = Len(ss) + Sum[k] /\ Len(fragments[m].states) = Len(ss) + Sum[m]
    BY <1>4, <2>1
  <2>4. FragmentOK(fragments[k])
    BY <1>4, <2>1
  <2> QED BY <1>5, <2>2, <2>3, <2>4 DEF FragmentOK
<1> HIDE DEF m
<1>7. /\ FragmentOK(Joined(fragments, m))
      /\ Len(Joined(fragments, m).states) = Len(fragments[m].states) + (m - 1)
  BY <1>5, <1>6, JoinedExact
<1>8. Len(fragments[m].states) = Len(ss) + Sum[m] /\ Sum[m] \in Nat
  BY <1>4, <1>5
<1>9. Sum[m] = Total([k \in DOMAIN children |-> C[children[k]]], m)
  BY <1>3 DEF SumsOf, m
<1>10. Len(Joined(fragments, m).states) = Len(ss) + (Sum[m] + (m - 1))
  BY <1>5, <1>7, <1>8
<1> QED BY <1>7, <1>9, <1>10 DEF fragments, m
-----------------------------------------------------------------------------
LeafFragment(n, ss) == Fragment(Append(ss, State(n, None, None)), Len(ss) + 1, {<<Len(ss) + 1, "out">>})

LEMMA LeafExact ==
  ASSUME NEW n \in Leaf, NEW ss \in Seq(States)
  PROVE  /\ LeafFragment(n, ss) \in Fragments /\ Len(LeafFragment(n, ss).states) = Len(ss) + 1
         /\ WellFormed(ss) => FragmentOK(LeafFragment(n, ss))
<1> DEFINE s == State(n, None, None)
           a == Append(ss, s)
           f == LeafFragment(n, ss)
<1>0. Len(ss) \in Nat
  OBVIOUS
<1>1. s \in States /\ s.out = 0 /\ s.out1 = 0
  BY DEF State, States, None
<1>2. f = Fragment(a, Len(ss) + 1, {<<Len(ss) + 1, "out">>})
  BY DEF LeafFragment
<1> HIDE DEF s, f
<1>3. a \in Seq(States) /\ Len(a) = Len(ss) + 1 /\ (WellFormed(ss) => WellFormed(a))
  <2>1. s.out \in 0..Len(ss) + 1 /\ s.out1 \in 0..Len(ss) + 1
    BY <1>0, <1>1
  <2> QED BY <1>0, <1>1, <2>1, AppendFacts
<1> HIDE DEF a
<1>4. f.states = a /\ f.start = Len(ss) + 1 /\ f \in Fragments
  BY <1>0, <1>2, <1>3 DEF Fragment, Fragments, Fields
<1>5. WellFormed(ss) => FragmentOK(f)
  BY <1>0, <1>3, <1>4 DEF FragmentOK
<1> QED BY <1>3, <1>4, <1>5 DEF f

LEMMA BuildTyped ==
  ASSUME NEW S, NEW B, Builds(B, S), NEW n \in Leaf \cup Composite(S), NEW ss \in Seq(States)
  PROVE  BuildFrom(B, n, ss) \in Fragments
<1>1. CASE n.kind = "concat"
  <2>1. n.children \in Seq(S) /\ Len(n.children) \in Nat
    BY <1>1, KindFacts
  <2>2. Chain(B, n.children, Len(n.children), Empty(ss)) \in Fragments
    BY <2>1, EmptyFacts, ChainTyped
  <2> QED BY <1>1, <2>2 DEF BuildFrom
<1>2. CASE n.kind = "alternate"
  <2>1. n.children \in Seq(S) /\ Len(n.children) # 0
    BY <1>2, KindFacts
  <2>2. Joined(Built(B, n.children, ss), Len(n.children)) \in Fragments
    BY <2>1, AlternateTyped
  <2> QED BY <1>2, <2>2 DEF BuildFrom
<1>3. CASE n.kind = "repeat"
  BY <1>3, RepeatTyped DEF BuildFrom
<1>4. CASE n.kind \in LeafKinds
  <2>1. n \in Leaf
    BY <1>4, KindFacts
  <2> QED BY <1>4, <2>1, LeafExact DEF BuildFrom, LeafKinds, LeafFragment
<1> QED BY <1>1, <1>2, <1>3, <1>4, KindFacts

LEMMA BuildCount ==
  ASSUME NEW S, NEW B, NEW C, BuildsExactly(B, C, S), NEW n \in Leaf \cup Composite(S),
         NEW ss \in Seq(States), WellFormed(ss)
  PROVE  FragmentOK(BuildFrom(B, n, ss)) /\ Len(BuildFrom(B, n, ss).states) = Len(ss) + CountFrom(C, n)
<1> DEFINE total == Total([k \in DOMAIN n.children |-> C[n.children[k]]], Len(n.children))
<1>0. C \in [S -> Nat] /\ Len(ss) \in Nat
  <2>1. C \in [S -> Nat]
    BY Zenon DEF BuildsExactly
  <2> QED BY <2>1
<1>1. CASE n.kind = "concat"
  <2>1. n.children \in Seq(S)
    BY <1>1, KindFacts
  <2> DEFINE f == Chain(B, n.children, Len(n.children), Empty(ss))
  <2>2. FragmentOK(f) /\ Len(f.states) = Len(ss) + total
    <3>1. /\ FragmentOK(Chain(B, n.children, Len(n.children), Empty(ss)))
          /\ Len(Chain(B, n.children, Len(n.children), Empty(ss)).states) = Len(ss) + Counted(C, n.children)
      BY <2>1, ConcatExact
    <3> QED BY <3>1 DEF Counted
  <2>3. BuildFrom(B, n, ss) = f
    BY <1>1 DEF BuildFrom
  <2>4. CountFrom(C, n) = total + 0
    BY <1>1 DEF CountFrom
  <2>5. total + 0 \in Nat
    BY <1>0, <2>4, CountTyped
  <2>6. FragmentOK(f) => Len(f.states) \in Nat
    BY DEF FragmentOK, Fragments
  <2> HIDE DEF f, total
  <2>7. Len(f.states) = Len(ss) + CountFrom(C, n)
    <3>1. total + 0 = total
      <4>1. \E Sum : SumsOf(Sum, C, n.children)
        BY <1>0, <2>1, SumsExist
      <4>2. total \in Nat
        <5>1. PICK Sum : SumsOf(Sum, C, n.children)
          BY <4>1
        <5>2. Len(n.children) \in 0..Len(n.children)
          BY <2>1
        <5> QED BY <5>1, <5>2 DEF SumsOf, total
      <4> QED BY <4>2
    <3> QED BY <2>2, <2>4, <3>1
  <2> QED BY <2>2, <2>3, <2>7
<1>2. CASE n.kind = "alternate"
  <2>1. n.children \in Seq(S) /\ Len(n.children) # 0
    BY <1>2, KindFacts
  <2> DEFINE f == Joined(Built(B, n.children, ss), Len(n.children))
  <2>2. FragmentOK(f) /\ Len(f.states) = Len(ss) + (total + (Len(n.children) - 1))
    BY <2>1, AlternateExact
  <2>3. BuildFrom(B, n, ss) = f
    BY <1>2 DEF BuildFrom
  <2>4. CountFrom(C, n) = total + (Len(n.children) - 1)
    BY <1>2 DEF CountFrom
  <2> HIDE DEF f, total
  <2> QED BY <2>2, <2>3, <2>4
<1>3. CASE n.kind = "repeat"
  <2>1. /\ FragmentOK(repeat(B, n, ss))
        /\ Len(repeat(B, n, ss).states) = Len(ss) + RepeatCount(n, C[n.child])
    BY <1>3, RepeatExact
  <2>2. BuildFrom(B, n, ss) = repeat(B, n, ss) /\ CountFrom(C, n) = RepeatCount(n, C[n.child])
    BY <1>3 DEF BuildFrom, CountFrom
  <2> QED BY <2>1, <2>2
<1>4. CASE n.kind \in LeafKinds
  <2>1. n \in Leaf
    BY <1>4, KindFacts
  <2>2. Len(LeafFragment(n, ss).states) = Len(ss) + 1 /\ FragmentOK(LeafFragment(n, ss))
    BY <2>1, LeafExact
  <2>3. BuildFrom(B, n, ss) = LeafFragment(n, ss) /\ CountFrom(C, n) = 1
    BY <1>4 DEF BuildFrom, CountFrom, LeafKinds, LeafFragment
  <2> QED BY <2>2, <2>3
<1> QED BY <1>1, <1>2, <1>3, <1>4, KindFacts

LEMMA BuildEquation ==
  \A h \in Nat : /\ Builds(build[h], Node[h])
                 /\ h # 0 => \A n \in Node[h] : \A ss \in Seq(States) :
                               build[h][n, ss] = BuildFrom(build[h - 1], n, ss)
<1> DEFINE Dom(h) == Node[h] \X Seq(States)
           D == [h \in Nat |-> [Dom(h) -> Fragments]]
           G == [p \in Nat \X UNION {D[h] : h \in Nat} |->
                   [a \in Dom(p[1]) |-> BuildFrom(p[2], a[1], a[2])]]
           E(f) == [h \in Nat |-> [a \in Dom(h) |-> BuildFrom(f[h - 1], a[1], a[2])]]
           x == [a \in Dom(0) |-> Empty(<< >>)]
<1>1. x \in D[0]
  <2>1. << >> \in Seq(States)
    OBVIOUS
  <2>2. Empty(<< >>) \in Fragments
    BY <2>1, EmptyFacts
  <2> QED BY <2>2
<1>2. ASSUME NEW h \in Nat \ {0}, NEW v \in D[h - 1]
      PROVE  G[<<h, v>>] \in D[h]
  <2>1. h - 1 \in Nat /\ Builds(v, Node[h - 1]) /\ Node[h] = Leaf \cup Composite(Node[h - 1])
    BY NodeShape DEF Builds
  <2>2. \A a \in Dom(h) : BuildFrom(v, a[1], a[2]) \in Fragments
    <3> SUFFICES ASSUME NEW a \in Dom(h) PROVE BuildFrom(v, a[1], a[2]) \in Fragments
      OBVIOUS
    <3>1. a[1] \in Node[h] /\ a[2] \in Seq(States)
      OBVIOUS
    <3> QED BY <2>1, <3>1, BuildTyped
  <2>3. <<h, v>> \in Nat \X UNION {D[i] : i \in Nat}
    <3> HIDE DEF D
    <3> QED BY <2>1
  <2>4. G[<<h, v>>] = [a \in Dom(h) |-> BuildFrom(v, a[1], a[2])]
    <3> HIDE DEF D, Dom
    <3> QED BY <2>3
  <2> HIDE DEF G
  <2> QED BY <2>2, <2>4
<1>3. \E f : f = [k \in Nat |-> IF k = 0 THEN x ELSE G[<<k, f[k - 1]>>]]
  <2> HIDE DEF D, G, x
  <2> QED BY <1>1, <1>2, RecursionExists
<1>4. PICK f : f = [k \in Nat |-> IF k = 0 THEN x ELSE G[<<k, f[k - 1]>>]]
  BY <1>3
<1>5. \A k \in Nat : f[k] \in D[k]
  <2> DEFINE T == {k \in Nat : f[k] \in D[k]}
  <2>1. ASSUME NEW k \in Nat, \A i \in Nat : i < k => i \in T
        PROVE  k \in T
    <3> HIDE DEF D, G, x
    <3>1. CASE k = 0
      BY <1>1, <1>4, <3>1
    <3>2. CASE k # 0
      <4>1. k - 1 \in Nat /\ k - 1 < k
        BY <3>2
      <4>2. k - 1 \in T
        <5> HIDE DEF T
        <5> QED BY <2>1, <4>1
      <4>3. f[k] = G[<<k, f[k - 1]>>]
        BY <1>4, <3>2
      <4>4. f[k - 1] \in D[k - 1] /\ k \in Nat \ {0}
        BY <3>2, <4>2
      <4>5. G[<<k, f[k - 1]>>] \in D[k]
        BY <1>2, <4>4, Zenon
      <4> QED BY <4>3, <4>5
    <3> QED BY <3>1, <3>2
  <2> HIDE DEF T
  <2>2. T = Nat
    BY <2>1, StrongInduction DEF T
  <2> QED BY <2>2 DEF T
<1>6. f = E(f)
  <2>1. ASSUME NEW k \in Nat
        PROVE  f[k] = [a \in Dom(k) |-> BuildFrom(f[k - 1], a[1], a[2])]
    <3>1. CASE k = 0
      <4>1. Dom(k) = {} /\ Dom(0) = {}
        BY <3>1, NodeEquation
      <4>2. f[k] = x
        <5> HIDE DEF D, G, x
        <5> QED BY <1>4, <3>1
      <4> HIDE DEF Dom, D, G
      <4> QED BY <4>1, <4>2
    <3>2. CASE k # 0
      <4>1. k - 1 \in Nat /\ f[k] = G[<<k, f[k - 1]>>]
        <5> HIDE DEF G, D
        <5> QED BY <1>4, <3>2
      <4>2. <<k, f[k - 1]>> \in Nat \X UNION {D[i] : i \in Nat}
        <5> HIDE DEF D
        <5> QED BY <1>5, <4>1
      <4>3. G[<<k, f[k - 1]>>] = [a \in Dom(k) |-> BuildFrom(f[k - 1], a[1], a[2])]
        <5> HIDE DEF D, Dom
        <5> QED BY <4>2
      <4> HIDE DEF G, D, Dom
      <4> QED BY <4>1, <4>3
    <3> QED BY <3>1, <3>2
  <2>2. f = [k \in Nat |-> f[k]]
    <3> HIDE DEF G, D, x
    <3> QED BY <1>4
  <2> HIDE DEF Dom, G, D, x
  <2> QED BY <2>1, <2>2
<1>7. build = E(build)
  <2>1. build = CHOOSE g : g = E(g)
    BY DEF build
  <2>2. \E g : g = E(g)
    <3> HIDE DEF E
    <3> QED BY <1>6
  <2> HIDE DEF E
  <2> QED BY <2>1, <2>2
<1>8. \A k \in Nat : build[k] = [a \in Dom(k) |-> BuildFrom(build[k - 1], a[1], a[2])]
  <2> HIDE DEF Dom
  <2> QED BY <1>7
<1>9. \A k \in Nat : \A n \in Node[k] : \A ss \in Seq(States) :
        build[k][n, ss] = BuildFrom(build[k - 1], n, ss)
  <2> SUFFICES ASSUME NEW k \in Nat, NEW n \in Node[k], NEW ss \in Seq(States)
               PROVE  build[k][n, ss] = BuildFrom(build[k - 1], n, ss)
    OBVIOUS
  <2>1. <<n, ss>> \in Dom(k) /\ <<n, ss>>[1] = n /\ <<n, ss>>[2] = ss
    OBVIOUS
  <2> HIDE DEF Dom
  <2>2. build[k][<<n, ss>>] = BuildFrom(build[k - 1], <<n, ss>>[1], <<n, ss>>[2])
    BY <1>8, <2>1
  <2> QED BY <2>1, <2>2
<1> DEFINE T == {k \in Nat : Builds(build[k], Node[k])}
<1>10. ASSUME NEW k \in Nat, \A i \in Nat : i < k => i \in T
      PROVE  k \in T
  <2>1. build[k] = [a \in Dom(k) |-> BuildFrom(build[k - 1], a[1], a[2])]
    BY <1>8
  <2>2. CASE k = 0
    <3>1. Node[k] = {}
      BY <2>2, NodeEquation
    <3>2. build[k] \in [Dom(k) -> Fragments]
      <4>1. Dom(k) = {}
        BY <3>1
      <4> HIDE DEF Dom
      <4> QED BY <2>1, <4>1
    <3> QED BY <3>2 DEF Builds
  <2>3. CASE k # 0
    <3>1. k - 1 \in Nat /\ k - 1 < k /\ Node[k] = Leaf \cup Composite(Node[k - 1])
      BY <2>3, NodeShape
    <3>2. k - 1 \in T
      <4> HIDE DEF T
      <4> QED BY <1>10, <3>1
    <3>3. \A a \in Dom(k) : BuildFrom(build[k - 1], a[1], a[2]) \in Fragments
      <4> SUFFICES ASSUME NEW a \in Dom(k) PROVE BuildFrom(build[k - 1], a[1], a[2]) \in Fragments
        OBVIOUS
      <4>1. a[1] \in Node[k] /\ a[2] \in Seq(States)
        OBVIOUS
      <4> QED BY <3>1, <3>2, <4>1, BuildTyped
    <3>4. build[k] \in [Dom(k) -> Fragments]
      <4> HIDE DEF Dom, T
      <4> QED BY <2>1, <3>3
    <3> QED BY <3>4 DEF Builds
  <2> QED BY <2>2, <2>3
<1> HIDE DEF T
<1>11. T = Nat
  BY <1>10, StrongInduction DEF T
<1> QED BY <1>9, <1>11 DEF T

\* _node, for every tree: the builder adds to a list of states as many as
\* _state_count has counted for the tree, and no state it adds or patches leads
\* to one that is not in the list.
THEOREM BuildExact == \A h \in Nat : BuildsExactly(build[h], stateCount[h], Node[h])
<1> DEFINE T == {h \in Nat : BuildsExactly(build[h], stateCount[h], Node[h])}
<1>1. ASSUME NEW h \in Nat, \A i \in Nat : i < h => i \in T
      PROVE  h \in T
  <2>0. Builds(build[h], Node[h]) /\ stateCount[h] \in [Node[h] -> Nat]
    BY BuildEquation, CountEquation
  <2>1. CASE h = 0
    <3>1. Node[h] = {}
      BY <2>1, NodeEquation
    <3>2. BuildsExactly(build[h], stateCount[h], Node[h])
      BY <2>0, <3>1 DEF BuildsExactly
    <3> QED BY <3>2
  <2>2. CASE h # 0
    <3>1. h - 1 \in Nat /\ h - 1 < h /\ Node[h] = Leaf \cup Composite(Node[h - 1])
      BY <2>2, NodeShape
    <3>2. h - 1 \in T
      <4> HIDE DEF T
      <4> QED BY <1>1, <3>1
    <3>3. ASSUME NEW n \in Node[h], NEW ss \in Seq(States), WellFormed(ss)
          PROVE  FragmentOK(build[h][n, ss]) /\ Len(build[h][n, ss].states) = Len(ss) + stateCount[h][n]
      <4>1. build[h][n, ss] = BuildFrom(build[h - 1], n, ss) /\ stateCount[h][n] = CountFrom(stateCount[h - 1], n)
        BY <2>2, BuildEquation, CountEquation
      <4>2. /\ FragmentOK(BuildFrom(build[h - 1], n, ss))
            /\ Len(BuildFrom(build[h - 1], n, ss).states) = Len(ss) + CountFrom(stateCount[h - 1], n)
        BY <3>1, <3>2, <3>3, BuildCount
      <4> QED BY <4>1, <4>2
    <3>4. BuildsExactly(build[h], stateCount[h], Node[h])
      BY <2>0, <3>3 DEF BuildsExactly
    <3> QED BY <3>4
  <2> QED BY <2>1, <2>2
<1> HIDE DEF T
<1>2. T = Nat
  BY <1>1, StrongInduction DEF T
<1> QED BY <1>2 DEF T

\* The automaton of a tree has the counted states and the final one.
LEMMA CompiledExact ==
  ASSUME NEW h \in Nat, NEW n \in Node[h]
  PROVE  /\ WellFormed(Compiled(n, h).states)
         /\ Len(Compiled(n, h).states) = stateCount[h][n] + 1
         /\ Compiled(n, h).start \in 1..Len(Compiled(n, h).states)
<1> DEFINE f == build[h][n, << >>]
           match == Len(f.states) + 1
           all == Append(f.states, State(Final, None, None))
<1>1. << >> \in Seq(States) /\ WellFormed(<< >>) /\ Len(<< >>) = 0
  BY DEF WellFormed
<1>2. FragmentOK(f) /\ Len(f.states) = 0 + stateCount[h][n] /\ stateCount[h][n] \in Nat
  <2>1. BuildsExactly(build[h], stateCount[h], Node[h]) /\ stateCount[h] \in [Node[h] -> Nat]
    BY BuildExact, CountEquation
  <2> HIDE DEF f
  <2> QED BY <1>1, <2>1 DEF BuildsExactly, f
<1> HIDE DEF f
<1>3. f.states \in Seq(States) /\ WellFormed(f.states) /\ f.start \in 0..Len(f.states) /\ Len(f.states) \in Nat
  BY <1>2 DEF FragmentOK, Fragments
<1>4. State(Final, None, None) \in States /\ State(Final, None, None).out = 0 /\ State(Final, None, None).out1 = 0
  BY DEF State, States, None
<1>5. all \in Seq(States) /\ Len(all) = match /\ WellFormed(all)
  <2>1. State(Final, None, None).out \in 0..Len(f.states) + 1 /\ State(Final, None, None).out1 \in 0..Len(f.states) + 1
    BY <1>3, <1>4
  <2> QED BY <1>3, <1>4, <2>1, AppendFacts
<1> HIDE DEF all
<1>6. match \in Nat /\ match \in 0..Len(all) /\ match = stateCount[h][n] + 1
  BY <1>2, <1>3, <1>5
<1>7. /\ patch(all, f.outs, match) \in Seq(States) /\ Len(patch(all, f.outs, match)) = match
      /\ WellFormed(patch(all, f.outs, match))
  BY <1>5, <1>6, PatchFacts
<1>8. Compiled(n, h) = [states |-> IF f.start = None THEN all ELSE patch(all, f.outs, match),
                        start |-> IF f.start = None THEN match ELSE f.start]
  BY DEF Compiled, f, all
<1> HIDE DEF match
<1>9. Compiled(n, h).states \in {all, patch(all, f.outs, match)}
  BY <1>8
<1>10. Compiled(n, h).start \in 1..match
  <2>1. CASE f.start = None
    BY <1>2, <1>6, <1>8, <2>1
  <2>2. CASE f.start # None
    BY <1>3, <1>5, <1>6, <1>8, <2>2 DEF None, match
  <2> QED BY <2>1, <2>2
<1> QED BY <1>5, <1>6, <1>7, <1>9, <1>10
-----------------------------------------------------------------------------
(* Parsing. *)

\* The parses of a text whose results are in S.
Parses(t, S) == {Fail} \cup [node : S, at : 1..Len(t) + 1]

LEMMA ParseFacts ==
  ASSUME NEW t \in Seq(Chars), NEW S
  PROVE  /\ Fail \in Parses(t, S) /\ ~Ok(Fail)
         /\ \A x \in S : \A i \in 1..Len(t) + 1 : Parsed(x, i) \in Parses(t, S)
         /\ \A p \in Parses(t, S) : Ok(p) => p.node \in S /\ p.at \in 1..Len(t) + 1
BY DEF Parses, Fail, Ok, Parsed

LEMMA PeekFacts ==
  ASSUME NEW t \in Seq(Chars), NEW i \in Nat \ {0}, peek(t, i) # "none"
  PROVE  peek(t, i) \in Chars /\ i \in 1..Len(t) /\ i + 1 \in 1..Len(t) + 1 /\ i \in 1..Len(t) + 1
<1>1. i <= Len(t) /\ Len(t) \in Nat
  BY DEF peek
<1>2. i \in 1..Len(t)
  BY <1>1
<1>3. t[i] \in Chars
  BY <1>2
<1> QED BY <1>1, <1>2, <1>3 DEF peek

LEMMA DigitsEndFacts ==
  ASSUME NEW t \in Seq(Chars), NEW i \in 1..Len(t) + 1
  PROVE  DigitsEnd(t, i) \in i..Len(t) + 1
<1> DEFINE Ends(j) == ~Digit(peek(t, j)) /\ \A m \in i..j - 1 : Digit(peek(t, m))
           T == {k \in Nat : k \in i..Len(t) + 1 => Digit(peek(t, k))}
<1>0. Len(t) \in Nat /\ Len(t) + 1 \in i..Len(t) + 1 /\ Len(t) + 1 \in Nat
  OBVIOUS
<1>1. ASSUME \A j \in i..Len(t) + 1 : ~Ends(j)
      PROVE  FALSE
  <2>1. ASSUME NEW k \in Nat, \A j \in Nat : j < k => j \in T
        PROVE  k \in T
    <3> SUFFICES ASSUME k \in i..Len(t) + 1 PROVE Digit(peek(t, k))
      OBVIOUS
    <3>1. ASSUME NEW m \in i..k - 1
          PROVE  Digit(peek(t, m))
      <4>1. m \in Nat /\ m < k /\ m \in i..Len(t) + 1
        BY <1>0, <3>1
      <4>2. m \in T
        <5> HIDE DEF T
        <5> QED BY <2>1, <4>1
      <4> QED BY <4>1, <4>2
    <3>2. ~Ends(k)
      BY <1>1
    <3> QED BY <3>1, <3>2
  <2> HIDE DEF T
  <2>2. T = Nat
    BY <2>1, StrongInduction DEF T
  <2>3. Len(t) + 1 \in T
    BY <1>0, <2>2
  <2>4. Digit(peek(t, Len(t) + 1))
    BY <1>0, <2>3 DEF T
  <2>5. peek(t, Len(t) + 1) = "none"
    BY <1>0 DEF peek
  <2> QED BY <2>4, <2>5 DEF Digit
<1>2. DigitsEnd(t, i) = CHOOSE j \in i..Len(t) + 1 : Ends(j)
  BY DEF DigitsEnd
<1> HIDE DEF Ends
<1>3. DigitsEnd(t, i) \in i..Len(t) + 1
  BY <1>1, <1>2
<1> QED BY <1>3

LEMMA DecimalFacts ==
  ASSUME NEW t \in Seq(Chars), NEW i \in 1..Len(t) + 1
  PROVE  decimal(t, i) \in Parses(t, Nat)
<1> DEFINE digits == SubSeq(t, i, DigitsEnd(t, i) - 1)
           read == ValueOf(digits)
<1>1. decimal(t, i) = Fail \/ (read \in 0..MaxBound /\ decimal(t, i) = Parsed(read, DigitsEnd(t, i)))
  BY DEF decimal
<1> HIDE DEF read
<1>2. DigitsEnd(t, i) \in 1..Len(t) + 1
  <2>1. DigitsEnd(t, i) \in i..Len(t) + 1
    BY DigitsEndFacts
  <2> QED BY <2>1
<1>3. read \in 0..MaxBound => read \in Nat
  OBVIOUS
<1> QED BY <1>1, <1>2, <1>3, ParseFacts

\* The bounds of a quantifier.
Quantifiers ==
  {q \in [minimum : Nat, maximum : Nat \cup {Unbounded}, copy : BOOLEAN] :
     q.maximum = Unbounded \/ q.minimum <= q.maximum}

LEMMA BoundsFacts ==
  ASSUME NEW low \in Nat, NEW high, high = Unbounded \/ (high \in Nat /\ low <= high), NEW copy \in BOOLEAN
  PROVE  Bounds(low, high, copy) \in Quantifiers
BY DEF Bounds, Quantifiers

LEMMA QuantifierFacts ==
  ASSUME NEW t \in Seq(Chars), NEW i \in 1..Len(t) + 1, peek(t, i) \in QuantifierStarts
  PROVE  quantifier(t, i) \in Parses(t, Quantifiers)
<1> DEFINE c == peek(t, i)
           low == decimal(t, i + 1)
           high == decimal(t, low.at + 1)
<1>0. c # "none" /\ i \in Nat \ {0} /\ i + 1 \in 1..Len(t) + 1
  <2>1. c # "none"
    BY DEF QuantifierStarts
  <2> QED BY <2>1, PeekFacts
<1>1. ASSUME NEW j \in 1..Len(t) + 1, NEW n \in Nat, NEW m, m = Unbounded \/ (m \in Nat /\ n <= m), NEW b \in BOOLEAN
      PROVE  Parsed(Bounds(n, m, b), j) \in Parses(t, Quantifiers)
  BY <1>1, BoundsFacts, ParseFacts
<1>2. CASE c = "?"
  <2>1. Bounds(0, 1, FALSE) \in Quantifiers
    BY DEF Bounds, Quantifiers
  <2>2. Parsed(Bounds(0, 1, FALSE), i + 1) \in Parses(t, Quantifiers)
    BY <1>0, <2>1, ParseFacts
  <2> QED BY <1>2, <2>2 DEF quantifier
<1>3. CASE c = "*"
  <2>1. Parsed(Bounds(0, Unbounded, FALSE), i + 1) \in Parses(t, Quantifiers)
    BY <1>0, <1>1
  <2> QED BY <1>3, <2>1 DEF quantifier
<1>4. CASE c = "+"
  <2>1. Parsed(Bounds(1, Unbounded, FALSE), i + 1) \in Parses(t, Quantifiers)
    BY <1>0, <1>1
  <2> QED BY <1>4, <2>1 DEF quantifier
<1>5. CASE c = "{"
  <2>0. low \in Parses(t, Nat)
    BY <1>0, DecimalFacts
  <2> DEFINE rest == IF ~Ok(low) THEN Fail
             ELSE IF peek(t, low.at) = "}" THEN Parsed(Bounds(low.node, low.node, FALSE), low.at + 1)
             ELSE IF peek(t, low.at) # "," THEN Fail
             ELSE IF peek(t, low.at + 1) = "}"
             THEN Parsed(Bounds(low.node, Unbounded, TRUE), low.at + 2)
             ELSE IF ~Ok(high) \/ peek(t, high.at) # "}" \/ high.node < low.node THEN Fail
             ELSE Parsed(Bounds(low.node, high.node, FALSE), high.at + 1)
  <2>1. quantifier(t, i) = rest
    BY <1>5 DEF quantifier
  <2> HIDE DEF low
  <2>2. CASE ~Ok(low)
    BY <2>1, <2>2, ParseFacts
  <2>3. CASE Ok(low)
    <3>1. low.node \in Nat /\ low.at \in 1..Len(t) + 1 /\ low.at \in Nat \ {0}
      BY <2>0, <2>3, ParseFacts
    <3>2. CASE peek(t, low.at) = "}"
      <4>1. low.at + 1 \in 1..Len(t) + 1
        BY <3>1, <3>2, PeekFacts
      <4>2. low.node <= low.node
        BY <3>1
      <4>3. Bounds(low.node, low.node, FALSE) \in Quantifiers
        BY <3>1, <4>2, BoundsFacts
      <4>4. Parsed(Bounds(low.node, low.node, FALSE), low.at + 1) \in Parses(t, Quantifiers)
        BY <4>1, <4>3, ParseFacts
      <4> QED BY <2>1, <2>3, <3>2, <4>4
    <3>3. CASE peek(t, low.at) = ","
      <4>0. low.at + 1 \in 1..Len(t) + 1
        BY <3>1, <3>3, PeekFacts
      <4>1. low.at + 1 \in 1..Len(t) + 1 /\ low.at + 1 \in Nat \ {0}
        BY <3>1, <4>0
      <4>2. CASE peek(t, low.at + 1) = "}"
        <5>1. (low.at + 1) + 1 \in 1..Len(t) + 1
          BY <4>1, <4>2, PeekFacts
        <5>2. low.at + 2 \in 1..Len(t) + 1
          BY <3>1, <5>1
        <5>3. Parsed(Bounds(low.node, Unbounded, TRUE), low.at + 2) \in Parses(t, Quantifiers)
          BY <1>1, <3>1, <5>2
        <5> QED BY <2>1, <2>3, <3>3, <4>2, <5>3
      <4>3. CASE peek(t, low.at + 1) # "}"
        <5>0. high \in Parses(t, Nat)
          BY <4>1, DecimalFacts
        <5>1. rest = IF ~Ok(high) \/ peek(t, high.at) # "}" \/ high.node < low.node THEN Fail
                     ELSE Parsed(Bounds(low.node, high.node, FALSE), high.at + 1)
          BY <2>3, <3>3, <4>3
        <5> HIDE DEF high, rest
        <5>2. CASE ~Ok(high) \/ peek(t, high.at) # "}" \/ high.node < low.node
          BY <2>1, <5>1, <5>2, ParseFacts
        <5>3. CASE Ok(high) /\ peek(t, high.at) = "}" /\ ~(high.node < low.node)
          <6>0. high.node \in Nat /\ high.at \in 1..Len(t) + 1
            BY <5>0, <5>3, ParseFacts
          <6>1. high.node \in Nat /\ high.at \in 1..Len(t) + 1 /\ high.at \in Nat \ {0}
            BY <6>0
          <6>2. high.at + 1 \in 1..Len(t) + 1
            BY <5>3, <6>1, PeekFacts
          <6>3. low.node <= high.node
            <7>1. \A a \in Nat, b \in Nat : ~(b < a) => a <= b
              OBVIOUS
            <7> QED BY <3>1, <5>3, <6>1, <7>1
          <6>4. Parsed(Bounds(low.node, high.node, FALSE), high.at + 1) \in Parses(t, Quantifiers)
            BY <1>1, <3>1, <6>1, <6>2, <6>3
          <6> QED BY <2>1, <5>1, <5>3, <6>4
        <5> QED BY <5>2, <5>3
      <4> QED BY <4>2, <4>3
    <3>4. CASE peek(t, low.at) \notin {"}", ","}
      BY <2>1, <2>3, <3>4, ParseFacts
    <3> QED BY <3>2, <3>3, <3>4
  <2> QED BY <2>2, <2>3
<1> QED BY <1>2, <1>3, <1>4, <1>5 DEF QuantifierStarts

LEMMA CharFacts ==
  /\ "LF" \in Chars
  /\ \A c \in Chars : ord(c) \in Nat
<1>1. Len(Scalars) = 25 /\ Scalars[1] = "LF"
  BY DEF Scalars
<1>2. "LF" \in Chars
  BY <1>1 DEF Chars
<1>3. ASSUME NEW c \in Chars
      PROVE  ord(c) \in Nat
  <2>1. \E k \in 1..Len(Scalars) : Scalars[k] = c
    BY DEF Chars
  <2>2. ord(c) \in 1..Len(Scalars)
    BY <2>1 DEF ord
  <2> QED BY <1>1, <2>2
<1> QED BY <1>2, <1>3

LEMMA EscapedFacts ==
  ASSUME NEW t \in Seq(Chars), NEW i \in 1..Len(t), NEW inClass
  PROVE  escaped(t, i, inClass) \in Parses(t, Chars)
<1> DEFINE c == peek(t, i + 1)
           v == CHOOSE v \in Escapes(c) : TRUE
<1>0. i + 1 \in Nat \ {0} /\ i \in Nat /\ Len(t) \in Nat
  OBVIOUS
<1>1. escaped(t, i, inClass) = Fail \/ (Escapes(c) # {} /\ escaped(t, i, inClass) = Parsed(v, i + 2))
  BY DEF escaped
<1>2. ASSUME Escapes(c) # {}
      PROVE  Escapes(c) \subseteq Chars /\ i + 2 \in 1..Len(t) + 1
  <2>1. c # "none"
    BY <1>2 DEF Escapes, Outside
  <2>2. c \in Chars /\ (i + 1) + 1 \in 1..Len(t) + 1
    BY <1>0, <2>1, PeekFacts
  <2>3. Escapes(c) \subseteq Chars
    BY <2>2, CharFacts DEF Escapes
  <2> QED BY <1>0, <2>2, <2>3
<1>3. Escapes(c) # {} => v \in Escapes(c)
  OBVIOUS
<1> HIDE DEF v, c
<1> QED BY <1>1, <1>2, <1>3, ParseFacts
-----------------------------------------------------------------------------
Tokens == Seq(Chars \X BOOLEAN)

\* The state of the loop over the tokens of a class.
Members ==
  {Fail} \cup [node : [values : SUBSET Chars, ranges : SUBSET (Nat \X Nat)], at : Nat \ {0}]

LEMMA NextMemberFacts ==
  ASSUME NEW tokens \in Tokens, NEW s \in Members
  PROVE  NextMember(tokens, s) \in Members
<1> DEFINE v == tokens[s.at]
           end == tokens[s.at + 2]
           single == s.at = Len(tokens) \/ tokens[s.at + 1] # Dash
<1>0. Len(tokens) \in Nat /\ \A k \in 1..Len(tokens) : tokens[k][1] \in Chars
  BY DEF Tokens
<1>1. Fail \in Members
  BY DEF Members
<1>2. CASE s.at \notin 1..Len(tokens)
  BY <1>2 DEF NextMember
<1>3. CASE s.at \in 1..Len(tokens)
  <2>1. s \in [node : [values : SUBSET Chars, ranges : SUBSET (Nat \X Nat)], at : Nat \ {0}]
    BY <1>3 DEF Members, Fail
  <2>2. /\ s.node \in [values : SUBSET Chars, ranges : SUBSET (Nat \X Nat)]
        /\ s.at \in Nat \ {0} /\ s.at + 1 \in Nat \ {0} /\ s.at + 3 \in Nat \ {0}
    BY <2>1
  <2>3. v[1] \in Chars
    BY <1>0, <1>3
  <2> DEFINE one == [s.node EXCEPT !.values = @ \cup {v[1]}]
             range == [s.node EXCEPT !.ranges = @ \cup {<<ord(v[1]), ord(end[1])>>}]
  <2>4. Parsed(one, s.at + 1) \in Members
    <3>1. one \in [values : SUBSET Chars, ranges : SUBSET (Nat \X Nat)]
      <4> HIDE DEF v
      <4> QED BY <2>2, <2>3
    <3> HIDE DEF one
    <3> QED BY <2>2, <3>1 DEF Members, Parsed
  <2>5. ASSUME ~single, s.at + 1 # Len(tokens)
        PROVE  Parsed(range, s.at + 3) \in Members
    <3>1. s.at + 2 \in 1..Len(tokens)
      BY <1>0, <1>3, <2>5
    <3>2. end[1] \in Chars
      BY <1>0, <3>1
    <3>3. ord(v[1]) \in Nat /\ ord(end[1]) \in Nat
      BY <2>3, <3>2, CharFacts
    <3> HIDE DEF v, end
    <3>4. range \in [values : SUBSET Chars, ranges : SUBSET (Nat \X Nat)]
      BY <2>2, <3>3
    <3> HIDE DEF range
    <3> QED BY <2>2, <3>4 DEF Members, Parsed
  <2>6. \/ NextMember(tokens, s) = Fail
        \/ NextMember(tokens, s) = Parsed(one, s.at + 1)
        \/ ~single /\ s.at + 1 # Len(tokens) /\ NextMember(tokens, s) = Parsed(range, s.at + 3)
    BY <1>3 DEF NextMember
  <2> HIDE DEF one, range, single
  <2> QED BY <1>1, <2>4, <2>5, <2>6
<1> QED BY <1>2, <1>3

LEMMA ClassMembersFacts ==
  ASSUME NEW tokens \in Tokens
  PROVE  ClassMembers(tokens) \in Members
<1> DEFINE L == Len(tokens)
           none == Parsed([values |-> {}, ranges |-> {}], 1)
           G == [p \in (1..L) \X Members |-> NextMember(tokens, p[2])]
           E(s) == [k \in 0..L |-> IF k = 0 THEN none ELSE NextMember(tokens, s[k - 1])]
           Loop == CHOOSE s : s = E(s)
<1>0. L \in Nat
  BY DEF Tokens
<1>1. none \in Members
  BY DEF Members, Parsed
<1> HIDE DEF L, none
<1>2. G \in [(1..L) \X Members -> Members]
  BY NextMemberFacts
<1>3. PICK s : IsLoop(s, L, Members, none, G)
  <2> HIDE DEF G
  <2> QED BY <1>0, <1>1, <1>2, LoopExists
<1>4. s = E(s)
  <2>1. \A k \in 1..L : s[k] = NextMember(tokens, s[k - 1])
    <3> SUFFICES ASSUME NEW k \in 1..L PROVE s[k] = NextMember(tokens, s[k - 1])
      OBVIOUS
    <3>1. <<k, s[k - 1]>> \in (1..L) \X Members
      BY <1>0, <1>3 DEF IsLoop
    <3>2. G[<<k, s[k - 1]>>] = NextMember(tokens, s[k - 1])
      BY <3>1
    <3> HIDE DEF G
    <3> QED BY <1>3, <3>2 DEF IsLoop
  <2> HIDE DEF G
  <2> QED BY <1>0, <1>3, <2>1 DEF IsLoop
<1>5. Loop = E(Loop)
  <2> HIDE DEF E
  <2> QED BY <1>4
<1>6. ClassMembers(tokens) = Loop[L]
  BY DEF ClassMembers, L, none
<1> HIDE DEF Loop
<1>7. Loop[0] = none /\ \A k \in 1..L : Loop[k] = NextMember(tokens, Loop[k - 1])
  BY <1>0, <1>5
<1>8. \A k \in 0..L : Loop[k] \in Members
  <2>1. Loop[0] \in Members /\ \A k \in 1..L : Loop[k - 1] \in Members => Loop[k] \in Members
    BY <1>1, <1>7, NextMemberFacts
  <2> QED BY <1>0, <2>1, LoopTyped
<1> QED BY <1>0, <1>6, <1>8

\* A parser of t whose trees are in S.
ParserOf(P, t, S) ==
  \A i \in 1..Len(t) + 1 : \A root \in BOOLEAN :
    /\ P["atom", i, root] \in Parses(t, S)
    /\ P["children", i, root] \in Parses(t, Seq(S))
    /\ P["branches", i, root] \in Parses(t, Seq(S) \ {<< >>})
    /\ P["tokens", i, root] \in Parses(t, Tokens)

LEMMA ClassTokensFacts ==
  ASSUME NEW t \in Seq(Chars), NEW S, NEW P, ParserOf(P, t, S), NEW i \in 1..Len(t) + 1
  PROVE  ClassTokens(P, t, i) \in Parses(t, Tokens)
<1> DEFINE c == peek(t, i)
           one == IF c = "\\" THEN escaped(t, i, TRUE)
                  ELSE IF Control(c) THEN Fail ELSE Parsed(c, i + 1)
           rest == P["tokens", one.at, FALSE]
           token == <<one.node, c = "\\">>
           more == Parsed(<<token>> \o rest.node, rest.at)
<1>1. CASE c = "none"
  BY <1>1, ParseFacts DEF ClassTokens
<1>2. CASE c # "none"
  <2>1. i \in Nat \ {0}
    OBVIOUS
  <2>2. c \in Chars /\ i \in 1..Len(t) /\ i + 1 \in 1..Len(t) + 1
    BY <1>2, <2>1, PeekFacts
  <2>3. one \in Parses(t, Chars)
    <3>1. escaped(t, i, TRUE) \in Parses(t, Chars)
      BY <2>2, EscapedFacts
    <3>2. Parsed(c, i + 1) \in Parses(t, Chars) /\ Fail \in Parses(t, Chars)
      BY <2>2, ParseFacts
    <3> QED BY <3>1, <3>2
  <2>4. ClassTokens(P, t, i) = IF c = "]" THEN Parsed(<< >>, i + 1)
                               ELSE IF ~Ok(one) \/ ~Ok(rest) THEN Fail ELSE more
    BY <1>2 DEF ClassTokens
  <2> HIDE DEF one
  <2>5. Parsed(<< >>, i + 1) \in Parses(t, Tokens)
    <3>1. << >> \in Tokens
      BY DEF Tokens
    <3> QED BY <2>2, <3>1, ParseFacts
  <2>6. ASSUME Ok(one), Ok(rest)
        PROVE  more \in Parses(t, Tokens)
    <3>1. one.node \in Chars /\ one.at \in 1..Len(t) + 1
      BY <2>3, <2>6, ParseFacts
    <3>2. rest \in Parses(t, Tokens)
      BY <3>1 DEF ParserOf
    <3> HIDE DEF rest
    <3>3. rest.node \in Tokens /\ rest.at \in 1..Len(t) + 1
      BY <2>6, <3>2, ParseFacts
    <3>4. token \in Chars \X BOOLEAN
      BY <3>1
    <3> HIDE DEF token
    <3>5. <<token>> \o rest.node \in Tokens
      BY <3>3, <3>4 DEF Tokens
    <3> QED BY <3>3, <3>5, ParseFacts
  <2> HIDE DEF rest, more, c
  <2> QED BY <2>4, <2>5, <2>6, ParseFacts
<1> QED BY <1>1, <1>2

LEMMA ClassFacts ==
  ASSUME NEW t \in Seq(Chars), NEW S, NEW P, ParserOf(P, t, S), NEW i \in 1..Len(t), peek(t, i) = "["
  PROVE  characterClass(P, t, i) \in Parses(t, Leaf)
<1> DEFINE negated == peek(t, i + 1) = "^"
           tokens == ClassTokens(P, t, IF negated THEN i + 2 ELSE i + 1)
           members == ClassMembers(tokens.node)
           class == Parsed(Class(members.node.values, members.node.ranges, negated), tokens.at)
<1>0. i + 1 \in 1..Len(t) + 1 /\ i + 1 \in Nat \ {0} /\ i \in Nat /\ Len(t) \in Nat
  OBVIOUS
<1>1. tokens \in Parses(t, Tokens)
  <2>1. CASE negated
    <3>1. (i + 1) + 1 \in 1..Len(t) + 1
      BY <1>0, <2>1, PeekFacts
    <3>2. i + 2 \in 1..Len(t) + 1
      BY <1>0, <3>1
    <3> QED BY <2>1, <3>2, ClassTokensFacts
  <2>2. CASE ~negated
    BY <1>0, <2>2, ClassTokensFacts
  <2> QED BY <2>1, <2>2
<1>2. characterClass(P, t, i) = IF ~Ok(tokens) \/ tokens.node = << >> \/ ~Ok(members) THEN Fail ELSE class
  BY DEF characterClass
<1>3. negated \in BOOLEAN
  OBVIOUS
<1> HIDE DEF negated, tokens
<1>4. ASSUME Ok(tokens), Ok(members)
      PROVE  class \in Parses(t, Leaf)
  <2>1. tokens.node \in Tokens /\ tokens.at \in 1..Len(t) + 1
    BY <1>1, <1>4, ParseFacts
  <2>2. members \in Members
    BY <2>1, ClassMembersFacts
  <2> HIDE DEF members
  <2>3. members.node.values \in SUBSET Chars /\ members.node.ranges \in SUBSET (Nat \X Nat)
    BY <1>4, <2>2 DEF Members, Ok, Fail
  <2>4. Class(members.node.values, members.node.ranges, negated) \in Leaf
    BY <1>3, <2>3 DEF Class, Leaf
  <2> QED BY <2>1, <2>4, ParseFacts
<1> HIDE DEF class, members
<1> QED BY <1>2, <1>4, ParseFacts
-----------------------------------------------------------------------------
\* A tree out of trees in S is in S or composed of them.
Trees(S) == Leaf \cup Composite(S) \cup S

LEMMA AlternationFacts ==
  ASSUME NEW t \in Seq(Chars), NEW S, NEW P, ParserOf(P, t, S), NEW i \in 1..Len(t) + 1, NEW root \in BOOLEAN
  PROVE  alternation(P, i, root) \in Parses(t, Trees(S))
<1> DEFINE p == P["branches", i, root]
<1>1. p \in Parses(t, Seq(S) \ {<< >>})
  BY DEF ParserOf
<1>2. alternation(P, i, root) = IF Ok(p) THEN Parsed(Alternate(p.node), p.at) ELSE Fail
  BY DEF alternation
<1> HIDE DEF p
<1>3. ASSUME Ok(p)
      PROVE  Parsed(Alternate(p.node), p.at) \in Parses(t, Trees(S))
  <2>1. p.node \in Seq(S) /\ p.node # << >> /\ p.at \in 1..Len(t) + 1
    BY <1>1, <1>3, ParseFacts
  <2>2. Alternate(p.node) \in Trees(S)
    <3>1. CASE Len(p.node) = 1
      <4>1. p.node[1] \in S
        BY <2>1, <3>1
      <4> QED BY <3>1, <4>1 DEF Alternate, Trees
    <3>2. CASE Len(p.node) # 1
      BY <2>1, <3>2 DEF Alternate, Trees, Composite
    <3> QED BY <3>1, <3>2
  <2> QED BY <2>1, <2>2, ParseFacts
<1> QED BY <1>2, <1>3, ParseFacts

LEMMA AtomFacts ==
  ASSUME NEW t \in Seq(Chars), NEW S, NEW P, ParserOf(P, t, S), NEW i \in 1..Len(t) + 1
  PROVE  atom(P, t, i) \in Parses(t, Trees(S))
<1> DEFINE c == peek(t, i)
           group == alternation(P, i + 1, FALSE)
           literal == escaped(t, i, FALSE)
<1>1. CASE c = "none"
  BY <1>1, ParseFacts DEF atom
<1>2. CASE c # "none"
  <2>1. i \in Nat \ {0}
    OBVIOUS
  <2>2. c \in Chars /\ i \in 1..Len(t) /\ i + 1 \in 1..Len(t) + 1
    BY <1>2, <2>1, PeekFacts
  <2>3. ASSUME NEW x \in Leaf, NEW j \in 1..Len(t) + 1
        PROVE  Parsed(x, j) \in Parses(t, Trees(S))
    BY ParseFacts DEF Trees
  <2>4. CASE c = "."
    <3>1. Dot \in Leaf
      BY DEF Dot, Leaf
    <3>2. Parsed(Dot, i + 1) \in Parses(t, Trees(S))
      BY <2>2, <2>3, <3>1
    <3> QED BY <2>4, <3>2 DEF atom
  <2>5. CASE c = "^"
    <3>1. Anchor("begin") \in Leaf
      BY DEF Anchor, Leaf
    <3>2. Parsed(Anchor("begin"), i + 1) \in Parses(t, Trees(S))
      BY <2>2, <2>3, <3>1
    <3> QED BY <2>5, <3>2 DEF atom
  <2>6. CASE c = "$"
    <3>1. Anchor("end") \in Leaf
      BY DEF Anchor, Leaf
    <3>2. Parsed(Anchor("end"), i + 1) \in Parses(t, Trees(S))
      BY <2>2, <2>3, <3>1
    <3> QED BY <2>6, <3>2 DEF atom
  <2>7. CASE c = "("
    <3>1. group \in Parses(t, Trees(S))
      BY <2>2, AlternationFacts
    <3>2. atom(P, t, i) = IF Ok(group) /\ peek(t, group.at) = ")" THEN Parsed(group.node, group.at + 1) ELSE Fail
      BY <2>7 DEF atom
    <3> HIDE DEF group
    <3>3. ASSUME Ok(group), peek(t, group.at) = ")"
          PROVE  Parsed(group.node, group.at + 1) \in Parses(t, Trees(S))
      <4>1. group.node \in Trees(S) /\ group.at \in 1..Len(t) + 1
        BY <3>1, <3>3, ParseFacts
      <4>2. group.at \in Nat \ {0}
        BY <4>1
      <4>3. group.at + 1 \in 1..Len(t) + 1
        BY <3>3, <4>2, PeekFacts
      <4> QED BY <4>1, <4>3, ParseFacts
    <3> QED BY <3>2, <3>3, ParseFacts
  <2>8. CASE c = "["
    <3>1. characterClass(P, t, i) \in Parses(t, Leaf)
      BY <2>2, <2>8, ClassFacts
    <3>2. Parses(t, Leaf) \subseteq Parses(t, Trees(S))
      BY DEF Parses, Trees
    <3> QED BY <2>8, <3>1, <3>2 DEF atom
  <2>9. CASE c = "\\"
    <3>1. literal \in Parses(t, Chars)
      BY <2>2, EscapedFacts
    <3>2. atom(P, t, i) = IF Ok(literal) THEN Parsed(Literal(literal.node), literal.at) ELSE Fail
      BY <2>9 DEF atom
    <3> HIDE DEF literal
    <3>3. ASSUME Ok(literal)
          PROVE  Parsed(Literal(literal.node), literal.at) \in Parses(t, Trees(S))
      <4>1. literal.node \in Chars /\ literal.at \in 1..Len(t) + 1
        BY <3>1, <3>3, ParseFacts
      <4>2. Literal(literal.node) \in Leaf
        BY <4>1 DEF Literal, Leaf
      <4> QED BY <2>3, <4>1, <4>2
    <3> QED BY <3>2, <3>3, ParseFacts
  <2>10. CASE c \notin {".", "^", "$", "(", "[", "\\"}
    <3>1. Literal(c) \in Leaf
      BY <2>2 DEF Literal, Leaf
    <3>2. Parsed(Literal(c), i + 1) \in Parses(t, Trees(S))
      BY <2>2, <2>3, <3>1
    <3>3. atom(P, t, i) = IF c = "none" \/ c \in Outside \/ Control(c) THEN Fail ELSE Parsed(Literal(c), i + 1)
      BY <2>10 DEF atom
    <3> QED BY <3>2, <3>3, ParseFacts
  <2> QED BY <2>4, <2>5, <2>6, <2>7, <2>8, <2>9, <2>10
<1> QED BY <1>1, <1>2

LEMMA QuantifiedFacts ==
  ASSUME NEW t \in Seq(Chars), NEW S, NEW P, ParserOf(P, t, S), NEW i \in 1..Len(t) + 1
  PROVE  quantified(P, t, i) \in Parses(t, Trees(S))
<1> DEFINE a == P["atom", i, FALSE]
           q == quantifier(t, a.at)
           r == Parsed(Repeat(a.node, q.node), q.at)
<1>1. a \in Parses(t, S)
  BY DEF ParserOf
<1>2. \/ (~Ok(a) \/ peek(t, a.at) \notin QuantifierStarts) /\ quantified(P, t, i) = a
      \/ quantified(P, t, i) = Fail
      \/ Ok(a) /\ peek(t, a.at) \in QuantifierStarts /\ Ok(q) /\ quantified(P, t, i) = r
  BY DEF quantified, Repetition
<1> HIDE DEF a
<1>3. a \in Parses(t, Trees(S))
  BY <1>1 DEF Parses, Trees
<1>4. ASSUME Ok(a), peek(t, a.at) \in QuantifierStarts, Ok(q)
      PROVE  r \in Parses(t, Trees(S))
  <2>1. a.node \in S /\ a.at \in 1..Len(t) + 1
    BY <1>1, <1>4, ParseFacts
  <2>2. q \in Parses(t, Quantifiers)
    BY <1>4, <2>1, QuantifierFacts
  <2> HIDE DEF q
  <2>3. q.node \in Quantifiers /\ q.at \in 1..Len(t) + 1
    BY <1>4, <2>2, ParseFacts
  <2>4. Repeat(a.node, q.node) \in Composite(S)
    <3>1. /\ q.node.minimum \in Nat /\ q.node.maximum \in Nat \cup {Unbounded} /\ q.node.copy \in BOOLEAN
          /\ q.node.maximum = Unbounded \/ q.node.minimum <= q.node.maximum
      BY <2>3 DEF Quantifiers
    <3> QED BY <2>1, <3>1 DEF Repeat, Composite
  <2>5. Repeat(a.node, q.node) \in Trees(S)
    BY <2>4 DEF Trees
  <2> QED BY <2>3, <2>5, ParseFacts
<1> HIDE DEF r, q
<1> QED BY <1>2, <1>3, <1>4, ParseFacts

LEMMA ChildrenFacts ==
  ASSUME NEW t \in Seq(Chars), NEW S, NEW P, ParserOf(P, t, S), NEW i \in 1..Len(t) + 1, NEW root \in BOOLEAN
  PROVE  Children(P, t, i, root) \in Parses(t, Seq(Trees(S)))
<1> DEFINE q == quantified(P, t, i)
           rest == P["children", q.at, root]
           more == Parsed(<<q.node>> \o rest.node, rest.at)
<1>1. \/ Children(P, t, i, root) = Parsed(<< >>, i)
      \/ Children(P, t, i, root) = Fail
      \/ Ok(q) /\ Ok(rest) /\ Children(P, t, i, root) = more
  BY DEF Children, Onwards
<1>2. q \in Parses(t, Trees(S))
  BY QuantifiedFacts
<1> HIDE DEF q
<1>3. ASSUME Ok(q), Ok(rest)
      PROVE  more \in Parses(t, Seq(Trees(S)))
  <2>1. q.node \in Trees(S) /\ q.at \in 1..Len(t) + 1
    BY <1>2, <1>3, ParseFacts
  <2>2. rest \in Parses(t, Seq(S))
    BY <2>1 DEF ParserOf
  <2> HIDE DEF rest
  <2>3. rest.node \in Seq(S) /\ rest.at \in 1..Len(t) + 1
    BY <1>3, <2>2, ParseFacts
  <2>4. rest.node \in Seq(Trees(S))
    <3>1. S \subseteq Trees(S)
      BY DEF Trees
    <3> QED BY <2>3, <3>1
  <2>5. <<q.node>> \o rest.node \in Seq(Trees(S))
    BY <2>1, <2>4
  <2> QED BY <2>3, <2>5, ParseFacts
<1>4. Parsed(<< >>, i) \in Parses(t, Seq(Trees(S)))
  <2>1. << >> \in Seq(Trees(S))
    OBVIOUS
  <2> QED BY <2>1, ParseFacts
<1> HIDE DEF rest, more
<1> QED BY <1>1, <1>3, <1>4, ParseFacts

LEMMA BranchesFacts ==
  ASSUME NEW t \in Seq(Chars), NEW S, NEW P, ParserOf(P, t, S), NEW i \in 1..Len(t) + 1, NEW root \in BOOLEAN
  PROVE  Branches(P, t, i, root) \in Parses(t, Seq(Trees(S)) \ {<< >>})
<1> DEFINE children == P["children", i, root]
           rest == P["branches", children.at + 1, root]
           first == Concat(children.node)
           last == Parsed(<<first>>, children.at)
           more == Parsed(<<first>> \o rest.node, rest.at)
<1>1. children \in Parses(t, Seq(S))
  BY DEF ParserOf
<1>2. \/ Branches(P, t, i, root) = Fail
      \/ /\ Ok(children) /\ children.node # << >>
         /\ \/ Branches(P, t, i, root) = last
            \/ peek(t, children.at) = "|" /\ Ok(rest) /\ Branches(P, t, i, root) = more
  BY DEF Branches
<1> HIDE DEF children
<1>3. ASSUME Ok(children), children.node # << >>
      PROVE  first \in Trees(S) /\ children.at \in 1..Len(t) + 1
  <2>1. children.node \in Seq(S) /\ children.at \in 1..Len(t) + 1
    BY <1>1, <1>3, ParseFacts
  <2>2. CASE Len(children.node) = 1
    <3>1. children.node[1] \in S
      BY <2>1, <2>2
    <3> QED BY <2>1, <2>2, <3>1 DEF Concat, Trees
  <2>3. CASE Len(children.node) # 1
    BY <1>3, <2>1, <2>3 DEF Concat, Trees, Composite
  <2> QED BY <2>2, <2>3
<1> HIDE DEF first
<1>4. ASSUME Ok(children), children.node # << >>
      PROVE  last \in Parses(t, Seq(Trees(S)) \ {<< >>})
  <2>1. <<first>> \in Seq(Trees(S)) \ {<< >>} /\ children.at \in 1..Len(t) + 1
    BY <1>3, <1>4
  <2> QED BY <2>1, ParseFacts
<1>5. ASSUME Ok(children), children.node # << >>, peek(t, children.at) = "|", Ok(rest)
      PROVE  more \in Parses(t, Seq(Trees(S)) \ {<< >>})
  <2>1. first \in Trees(S) /\ children.at \in 1..Len(t) + 1
    BY <1>3, <1>5
  <2>2. children.at \in Nat \ {0}
    BY <2>1
  <2>3. children.at + 1 \in 1..Len(t) + 1
    BY <1>5, <2>2, PeekFacts
  <2>4. rest \in Parses(t, Seq(S) \ {<< >>})
    BY <2>3 DEF ParserOf
  <2> HIDE DEF rest
  <2>5. rest.node \in Seq(S) /\ rest.at \in 1..Len(t) + 1
    BY <1>5, <2>4, ParseFacts
  <2>6. rest.node \in Seq(Trees(S))
    <3>1. S \subseteq Trees(S)
      BY DEF Trees
    <3> QED BY <2>5, <3>1
  <2>7. <<first>> \o rest.node \in Seq(Trees(S)) \ {<< >>}
    <3>1. <<first>> \o rest.node \in Seq(Trees(S)) /\ Len(<<first>> \o rest.node) = 1 + Len(rest.node)
      BY <2>1, <2>6
    <3>2. Len(rest.node) \in Nat
      BY <2>6
    <3> QED BY <3>1, <3>2
  <2> QED BY <2>5, <2>7, ParseFacts
<1> HIDE DEF rest, last, more
<1> QED BY <1>2, <1>4, <1>5, ParseFacts
-----------------------------------------------------------------------------
Calls(t) == Methods \X (1..Len(t) + 1) \X BOOLEAN
Results(t, S) == Parses(t, S) \cup Parses(t, Seq(S)) \cup Parses(t, Tokens)
Parsers(t, S) == {P \in [Calls(t) -> Results(t, S)] : ParserOf(P, t, S)}

\* The parser whose calls nest one deeper than those of P.
Deeper(P, t) == [call \in Calls(t) |-> Called(P, t, call[1], call[2], call[3])]

LEMMA DeeperCalls ==
  ASSUME NEW t \in Seq(Chars), NEW P, NEW method \in Methods, NEW i \in 1..Len(t) + 1, NEW root \in BOOLEAN
  PROVE  Deeper(P, t)[method, i, root] = Called(P, t, method, i, root)
<1> DEFINE d == Deeper(P, t)
<1>1. <<method, i, root>> \in Calls(t)
  BY DEF Calls
<1>2. d[<<method, i, root>>] = Called(P, t, <<method, i, root>>[1], <<method, i, root>>[2], <<method, i, root>>[3])
  BY <1>1 DEF Deeper
<1> HIDE DEF d
<1>3. d[<<method, i, root>>] = Called(P, t, method, i, root)
  BY <1>2
<1> QED BY <1>3 DEF d

LEMMA CalledFacts ==
  ASSUME NEW P, NEW t, NEW i, NEW root
  PROVE  /\ Called(P, t, "atom", i, root) = atom(P, t, i)
         /\ Called(P, t, "children", i, root) = Children(P, t, i, root)
         /\ Called(P, t, "branches", i, root) = Branches(P, t, i, root)
         /\ Called(P, t, "tokens", i, root) = ClassTokens(P, t, i)
BY DEF Called

LEMMA DeeperFacts ==
  ASSUME NEW t \in Seq(Chars), NEW S, NEW P, ParserOf(P, t, S)
  PROVE  Deeper(P, t) \in Parsers(t, Trees(S))
<1> DEFINE d == Deeper(P, t)
<1>1. ASSUME NEW i \in 1..Len(t) + 1, NEW root \in BOOLEAN
      PROVE  /\ Called(P, t, "atom", i, root) \in Parses(t, Trees(S))
             /\ Called(P, t, "children", i, root) \in Parses(t, Seq(Trees(S)))
             /\ Called(P, t, "branches", i, root) \in Parses(t, Seq(Trees(S)) \ {<< >>})
             /\ Called(P, t, "tokens", i, root) \in Parses(t, Tokens)
  BY CalledFacts, AtomFacts, ChildrenFacts, BranchesFacts, ClassTokensFacts
<1>2. ASSUME NEW method \in Methods, NEW i \in 1..Len(t) + 1, NEW root \in BOOLEAN
      PROVE  d[method, i, root] = Called(P, t, method, i, root)
  BY DeeperCalls
<1>3. ParserOf(d, t, Trees(S))
  <2> SUFFICES ASSUME NEW i \in 1..Len(t) + 1, NEW root \in BOOLEAN
               PROVE  /\ d["atom", i, root] \in Parses(t, Trees(S))
                      /\ d["children", i, root] \in Parses(t, Seq(Trees(S)))
                      /\ d["branches", i, root] \in Parses(t, Seq(Trees(S)) \ {<< >>})
                      /\ d["tokens", i, root] \in Parses(t, Tokens)
    BY DEF ParserOf
  <2>1. "atom" \in Methods /\ "children" \in Methods /\ "branches" \in Methods /\ "tokens" \in Methods
    BY DEF Methods
  <2> HIDE DEF d
  <2> QED BY <1>1, <1>2, <2>1
<1>4. ASSUME NEW call \in Calls(t)
      PROVE  Called(P, t, call[1], call[2], call[3]) \in Results(t, Trees(S))
  <2>1. call[1] \in Methods /\ call[2] \in 1..Len(t) + 1 /\ call[3] \in BOOLEAN
    BY DEF Calls
  <2>2. Parses(t, Seq(Trees(S)) \ {<< >>}) \subseteq Parses(t, Seq(Trees(S)))
    BY DEF Parses
  <2>3. call[1] \in {"atom", "children", "branches", "tokens"}
    BY <2>1 DEF Methods
  <2> QED BY <1>1, <2>1, <2>2, <2>3 DEF Results
<1>5. d \in [Calls(t) -> Results(t, Trees(S))]
  BY <1>4 DEF Deeper
<1> QED BY <1>3, <1>5 DEF Parsers

LEMMA TreesOfNodes ==
  ASSUME NEW h \in Nat \ {0}
  PROVE  Trees(Node[h - 1]) = Node[h]
BY NodeShape DEF Trees

LEMMA ParserTyped ==
  ASSUME NEW t \in Seq(Chars)
  PROVE  /\ \A h \in Nat : ParserOf(Parser(t)[h], t, Node[h])
         /\ Parser(t)[0] = [call \in Calls(t) |-> Fail]
         /\ \A h \in Nat \ {0} : Parser(t)[h] = Deeper(Parser(t)[h - 1], t)
<1> DEFINE D == [h \in Nat |-> Parsers(t, Node[h])]
           G == [p \in Nat \X UNION {D[h] : h \in Nat} |-> Deeper(p[2], t)]
           x == [call \in Calls(t) |-> Fail]
           E(f) == [h \in Nat |-> IF h = 0 THEN x ELSE Deeper(f[h - 1], t)]
           Original(f) == [h \in Nat |->
             [call \in Methods \X (1..Len(t) + 1) \X BOOLEAN |->
                IF h = 0 THEN Fail ELSE Called(f[h - 1], t, call[1], call[2], call[3])]]
           P == Parser(t)
<1>1. x \in D[0]
  <2>1. \A S : Fail \in Parses(t, S)
    BY ParseFacts
  <2>2. x \in [Calls(t) -> Results(t, Node[0])]
    BY <2>1 DEF Results
  <2>3. ParserOf(x, t, Node[0])
    <3>1. \A method \in Methods, i \in 1..Len(t) + 1, root \in BOOLEAN : x[method, i, root] = Fail
      <4> SUFFICES ASSUME NEW method \in Methods, NEW i \in 1..Len(t) + 1, NEW root \in BOOLEAN
                   PROVE  x[method, i, root] = Fail
        OBVIOUS
      <4>1. <<method, i, root>> \in Calls(t)
        BY DEF Calls
      <4> QED BY <4>1
    <3>2. "atom" \in Methods /\ "children" \in Methods /\ "branches" \in Methods /\ "tokens" \in Methods
      BY DEF Methods
    <3> HIDE DEF x
    <3> QED BY <2>1, <3>1, <3>2 DEF ParserOf
  <2> HIDE DEF x
  <2>4. x \in Parsers(t, Node[0])
    BY <2>2, <2>3 DEF Parsers
  <2> QED BY <2>4
<1>2. ASSUME NEW h \in Nat \ {0}, NEW v \in D[h - 1]
      PROVE  G[<<h, v>>] \in D[h]
  <2>1. h - 1 \in Nat /\ ParserOf(v, t, Node[h - 1])
    BY DEF Parsers
  <2>2. Deeper(v, t) \in Parsers(t, Node[h])
    BY <2>1, DeeperFacts, TreesOfNodes
  <2>3. <<h, v>> \in Nat \X UNION {D[i] : i \in Nat}
    <3> HIDE DEF D
    <3> QED BY <2>1
  <2>4. G[<<h, v>>] = Deeper(v, t)
    <3> HIDE DEF D
    <3> QED BY <2>3
  <2> HIDE DEF G
  <2> QED BY <2>2, <2>4
<1>3. PICK f : f = [k \in Nat |-> IF k = 0 THEN x ELSE G[<<k, f[k - 1]>>]]
  <2> HIDE DEF D, G, x
  <2> QED BY <1>1, <1>2, RecursionExists
<1>4. \A k \in Nat : f[k] \in D[k]
  <2> DEFINE T == {k \in Nat : f[k] \in D[k]}
  <2>1. ASSUME NEW k \in Nat, \A i \in Nat : i < k => i \in T
        PROVE  k \in T
    <3> HIDE DEF D, G, x
    <3>1. CASE k = 0
      BY <1>1, <1>3, <3>1
    <3>2. CASE k # 0
      <4>1. k - 1 \in Nat /\ k - 1 < k
        BY <3>2
      <4>2. k - 1 \in T
        <5> HIDE DEF T
        <5> QED BY <2>1, <4>1
      <4>3. f[k] = G[<<k, f[k - 1]>>]
        BY <1>3, <3>2
      <4>4. f[k - 1] \in D[k - 1] /\ k \in Nat \ {0}
        BY <3>2, <4>2
      <4>5. G[<<k, f[k - 1]>>] \in D[k]
        BY <1>2, <4>4, Zenon
      <4> QED BY <4>3, <4>5
    <3> QED BY <3>1, <3>2
  <2> HIDE DEF T
  <2>2. T = Nat
    BY <2>1, StrongInduction DEF T
  <2> QED BY <2>2 DEF T
<1>5. f = E(f)
  <2>1. ASSUME NEW k \in Nat
        PROVE  f[k] = IF k = 0 THEN x ELSE Deeper(f[k - 1], t)
    <3>1. CASE k = 0
      <4> HIDE DEF D, G, x
      <4> QED BY <1>3, <3>1
    <3>2. CASE k # 0
      <4>1. k - 1 \in Nat /\ f[k] = G[<<k, f[k - 1]>>]
        <5> HIDE DEF G, D, x
        <5> QED BY <1>3, <3>2
      <4>2. <<k, f[k - 1]>> \in Nat \X UNION {D[i] : i \in Nat}
        <5> HIDE DEF D
        <5> QED BY <1>4, <4>1
      <4>3. G[<<k, f[k - 1]>>] = Deeper(f[k - 1], t)
        <5> HIDE DEF D
        <5> QED BY <4>2
      <4> HIDE DEF G, D, x
      <4> QED BY <3>2, <4>1, <4>3
    <3> QED BY <3>1, <3>2
  <2>2. f = [k \in Nat |-> f[k]]
    <3> HIDE DEF G, D, x
    <3> QED BY <1>3
  <2> HIDE DEF G, D, x
  <2> QED BY <2>1, <2>2
<1>6. \A g : Original(g) = E(g)
  <2> SUFFICES ASSUME NEW g PROVE Original(g) = E(g)
    OBVIOUS
  <2>1. ASSUME NEW h \in Nat
        PROVE  Original(g)[h] = E(g)[h]
    <3>1. CASE h = 0
      BY <3>1 DEF Calls
    <3>2. CASE h # 0
      BY <3>2 DEF Calls, Deeper
    <3> QED BY <3>1, <3>2
  <2> QED BY <2>1
<1>7. P = E(P)
  <2>1. P = CHOOSE g : g = Original(g)
    BY DEF Parser
  <2>2. \E g : g = Original(g)
    <3> HIDE DEF E, Original
    <3> QED BY <1>5, <1>6
  <2>3. P = Original(P)
    <3> HIDE DEF P, Original
    <3> QED BY <2>1, <2>2
  <2> HIDE DEF P, E, Original
  <2> QED BY <1>6, <2>3
<1> HIDE DEF P
<1>8. P[0] = x /\ \A k \in Nat \ {0} : P[k] = Deeper(P[k - 1], t)
  <2> HIDE DEF x
  <2> QED BY <1>7
<1> DEFINE T == {k \in Nat : ParserOf(P[k], t, Node[k])}
<1>9. ASSUME NEW k \in Nat, \A i \in Nat : i < k => i \in T
      PROVE  k \in T
  <2>1. CASE k = 0
    <3>1. ParserOf(x, t, Node[0])
      <4> HIDE DEF x
      <4> QED BY <1>1 DEF Parsers
    <3> HIDE DEF x
    <3> QED BY <1>8, <2>1, <3>1
  <2>2. CASE k # 0
    <3>1. k - 1 \in Nat /\ k - 1 < k /\ k \in Nat \ {0}
      BY <2>2
    <3>2. k - 1 \in T
      <4> HIDE DEF T
      <4> QED BY <1>9, <3>1
    <3>3. Deeper(P[k - 1], t) \in Parsers(t, Trees(Node[k - 1]))
      BY <3>2, DeeperFacts
    <3>4. ParserOf(Deeper(P[k - 1], t), t, Node[k])
      BY <3>1, <3>3, TreesOfNodes DEF Parsers
    <3>5. P[k] = Deeper(P[k - 1], t)
      BY <1>8, <3>1
    <3> QED BY <3>4, <3>5
  <2> QED BY <2>1, <2>2
<1> HIDE DEF T
<1>10. T = Nat
  BY <1>9, StrongInduction DEF T
<1> QED BY <1>8, <1>10 DEF T, P

\* What parse accepts is a tree of at most the height of its text, on which the
\* count and the builder are defined; its repetitions have bounds in order.
THEOREM ParseTyped ==
  ASSUME NEW t \in Seq(Chars), Ok(parse(t))
  PROVE  parse(t).node \in Node[Height(t)] /\ Height(t) \in Nat
<1> DEFINE h == Height(t)
           whole == alternation(Parser(t)[h - 1], 1, TRUE)
<1>1. h \in Nat \ {0} /\ h - 1 \in Nat /\ 1 \in 1..Len(t) + 1
  <2>1. Len(t) \in Nat
    OBVIOUS
  <2> QED BY <2>1 DEF Height
<1>2. parse(t) = Fail \/ parse(t) = whole
  BY DEF parse
<1>3. parse(t) = whole
  BY <1>2, ParseFacts
<1> HIDE DEF h
<1>4. ParserOf(Parser(t)[h - 1], t, Node[h - 1])
  BY <1>1, ParserTyped
<1>5. whole \in Parses(t, Trees(Node[h - 1]))
  BY <1>1, <1>4, AlternationFacts
<1> HIDE DEF whole
<1>6. whole.node \in Trees(Node[h - 1])
  BY <1>3, <1>5, ParseFacts
<1> QED BY <1>1, <1>3, <1>6, TreesOfNodes DEF h
-----------------------------------------------------------------------------
(* The height is no restriction: what is left to read bounds how deep a    *)
(* call goes (Need), since calls read on from where their callers were     *)
(* (Advances).                                                             *)

From(p, i) == Ok(p) => p.at >= i

Advances(P, t) ==
  \A i \in 1..Len(t) + 1 : \A root \in BOOLEAN :
    /\ From(P["atom", i, root], i + 1)
    /\ From(P["children", i, root], i)
    /\ From(P["branches", i, root], i)
    /\ From(P["tokens", i, root], i + 1)

LEMMA FromFacts ==
  /\ \A i : From(Fail, i)
  /\ \A x : \A i \in Nat, j \in Nat : i >= j => From(Parsed(x, i), j)
BY ParseFacts DEF From, Parsed, Ok, Fail

LEMMA DecimalAdvances ==
  ASSUME NEW t \in Seq(Chars), NEW i \in 1..Len(t) + 1
  PROVE  From(decimal(t, i), i)
<1> DEFINE digits == SubSeq(t, i, DigitsEnd(t, i) - 1)
<1>1. decimal(t, i) = Fail \/ decimal(t, i) = Parsed(ValueOf(digits), DigitsEnd(t, i))
  BY DEF decimal
<1>2. DigitsEnd(t, i) \in i..Len(t) + 1
  BY DigitsEndFacts
<1>3. DigitsEnd(t, i) \in Nat /\ i \in Nat /\ DigitsEnd(t, i) >= i
  BY <1>2
<1> QED BY <1>1, <1>3, FromFacts

LEMMA QuantifierAdvances ==
  ASSUME NEW t \in Seq(Chars), NEW i \in 1..Len(t) + 1, peek(t, i) \in QuantifierStarts
  PROVE  From(quantifier(t, i), i)
<1> DEFINE low == decimal(t, i + 1)
           high == decimal(t, low.at + 1)
<1>0. i \in Nat /\ i + 1 \in Nat /\ i + 1 >= i /\ i + 1 \in 1..Len(t) + 1
  <2>1. peek(t, i) # "none"
    BY DEF QuantifierStarts
  <2>2. i \in Nat \ {0}
    OBVIOUS
  <2>3. i + 1 \in 1..Len(t) + 1
    BY <2>1, <2>2, PeekFacts
  <2> QED BY <2>2, <2>3
<1>1. \/ quantifier(t, i) = Fail
      \/ \E x : quantifier(t, i) = Parsed(x, i + 1)
      \/ /\ Ok(low)
         /\ \/ \E x : quantifier(t, i) = Parsed(x, low.at + 1)
            \/ \E x : quantifier(t, i) = Parsed(x, low.at + 2)
            \/ /\ peek(t, low.at) = "," /\ Ok(high)
               /\ \E x : quantifier(t, i) = Parsed(x, high.at + 1)
  BY DEF quantifier
<1>2. low \in Parses(t, Nat) /\ From(low, i + 1)
  BY <1>0, DecimalFacts, DecimalAdvances
<1> HIDE DEF low
<1>3. ASSUME Ok(low)
      PROVE  low.at \in 1..Len(t) + 1 /\ low.at >= i + 1
  BY <1>2, <1>3, ParseFacts DEF From
<1>4. ASSUME Ok(low), peek(t, low.at) = ",", Ok(high)
      PROVE  high.at \in Nat /\ high.at >= i
  <2>0. low.at \in 1..Len(t) + 1 /\ low.at >= i + 1
    BY <1>3, <1>4
  <2>1. low.at \in Nat \ {0} /\ low.at \in 1..Len(t) + 1 /\ low.at >= i + 1
    BY <2>0
  <2>2. low.at + 1 \in 1..Len(t) + 1
    BY <1>4, <2>1, PeekFacts
  <2>3. high \in Parses(t, Nat) /\ From(high, low.at + 1)
    BY <2>2, DecimalFacts, DecimalAdvances
  <2> HIDE DEF high
  <2>4. high.at \in 1..Len(t) + 1 /\ high.at >= low.at + 1
    BY <1>4, <2>3, ParseFacts DEF From
  <2> QED BY <1>0, <2>1, <2>4
<1> HIDE DEF high
<1>5. CASE quantifier(t, i) = Fail
  BY <1>5, FromFacts
<1>6. CASE \E x : quantifier(t, i) = Parsed(x, i + 1)
  BY <1>0, <1>6, FromFacts
<1>7. CASE Ok(low) /\ \E x : quantifier(t, i) = Parsed(x, low.at + 1)
  <2>0. low.at \in 1..Len(t) + 1 /\ low.at >= i + 1
    BY <1>3, <1>7
  <2>1. low.at + 1 \in Nat /\ low.at + 1 >= i
    BY <1>0, <2>0
  <2> QED BY <1>0, <1>7, <2>1, FromFacts
<1>8. CASE Ok(low) /\ \E x : quantifier(t, i) = Parsed(x, low.at + 2)
  <2>0. low.at \in 1..Len(t) + 1 /\ low.at >= i + 1
    BY <1>3, <1>8
  <2>1. low.at + 2 \in Nat /\ low.at + 2 >= i
    BY <1>0, <2>0
  <2> QED BY <1>0, <1>8, <2>1, FromFacts
<1>9. CASE /\ Ok(low) /\ peek(t, low.at) = "," /\ Ok(high)
           /\ \E x : quantifier(t, i) = Parsed(x, high.at + 1)
  <2>0. high.at \in Nat /\ high.at >= i
    BY <1>4, <1>9
  <2>1. high.at + 1 \in Nat /\ high.at + 1 >= i
    BY <1>0, <2>0
  <2> QED BY <1>0, <1>9, <2>1, FromFacts
<1> QED BY <1>1, <1>5, <1>6, <1>7, <1>8, <1>9

\* The next character of a class.
Single(t, i) ==
  IF peek(t, i) = "\\" THEN escaped(t, i, TRUE)
  ELSE IF Control(peek(t, i)) THEN Fail ELSE Parsed(peek(t, i), i + 1)

LEMMA SingleFacts ==
  ASSUME NEW t \in Seq(Chars), NEW i \in 1..Len(t) + 1, peek(t, i) # "none", Ok(Single(t, i))
  PROVE  Single(t, i).at \in i + 1..Len(t) + 1
<1> DEFINE c == peek(t, i)
           one == Single(t, i)
<1>1. i \in Nat \ {0}
  OBVIOUS
<1>2. c \in Chars /\ i \in 1..Len(t) /\ i + 1 \in 1..Len(t) + 1
  BY <1>1, PeekFacts
<1>3. CASE c = "\\"
  <2>1. escaped(t, i, TRUE) \in Parses(t, Chars)
    BY <1>2, EscapedFacts
  <2>2. one = escaped(t, i, TRUE)
    BY <1>3 DEF Single
  <2>3. escaped(t, i, TRUE) = Fail \/ escaped(t, i, TRUE).at = i + 2
    BY DEF escaped, Parsed
  <2> HIDE DEF one
  <2>4. one.at \in 1..Len(t) + 1 /\ one.at = i + 2
    BY <2>1, <2>2, <2>3, ParseFacts DEF one
  <2>5. one.at \in i + 1..Len(t) + 1
    BY <1>1, <2>4
  <2> QED BY <2>5 DEF one
<1>4. CASE c # "\\"
  <2>1. one = Fail \/ one = Parsed(c, i + 1)
    BY <1>4 DEF Single
  <2>2. one.at = i + 1
    <3> HIDE DEF one
    <3>1. Ok(one)
      BY DEF one
    <3> QED BY <2>1, <3>1, ParseFacts DEF Parsed
  <2>3. i + 1 \in i + 1..Len(t) + 1
    BY <1>2
  <2> QED BY <2>2, <2>3
<1> QED BY <1>3, <1>4

LEMMA TokensAdvance ==
  ASSUME NEW t \in Seq(Chars), NEW S, NEW P, ParserOf(P, t, S), Advances(P, t), NEW i \in 1..Len(t) + 1
  PROVE  From(ClassTokens(P, t, i), i + 1)
<1> DEFINE c == peek(t, i)
           one == Single(t, i)
           rest == P["tokens", one.at, FALSE]
<1>0. i \in Nat \ {0} /\ i + 1 \in Nat /\ i + 1 >= i + 1
  OBVIOUS
<1>1. \/ ClassTokens(P, t, i) = Fail
      \/ ClassTokens(P, t, i) = Parsed(<< >>, i + 1)
      \/ /\ c # "none" /\ Ok(one) /\ Ok(rest)
         /\ \E x : ClassTokens(P, t, i) = Parsed(x, rest.at)
  BY DEF ClassTokens, Single
<1>2. ASSUME c # "none", Ok(one)
      PROVE  one.at \in i + 1..Len(t) + 1
  BY <1>2, SingleFacts
<1> HIDE DEF one
<1>3. ASSUME c # "none", Ok(one), Ok(rest)
      PROVE  rest.at \in Nat /\ rest.at >= i + 1
  <2>0. one.at \in i + 1..Len(t) + 1
    BY <1>2, <1>3
  <2>1. one.at \in 1..Len(t) + 1 /\ one.at >= i + 1
    BY <1>0, <2>0
  <2>2. rest \in Parses(t, Tokens) /\ From(rest, one.at + 1)
    BY <2>1 DEF ParserOf, Advances
  <2> HIDE DEF rest
  <2>3. rest.at \in 1..Len(t) + 1 /\ rest.at >= one.at + 1
    BY <1>3, <2>2, ParseFacts DEF From
  <2> QED BY <1>0, <2>1, <2>3
<1> HIDE DEF rest, c
<1>4. From(Fail, i + 1) /\ From(Parsed(<< >>, i + 1), i + 1)
  BY <1>0, FromFacts
<1>5. ASSUME c # "none", Ok(one), Ok(rest)
      PROVE  \A x : From(Parsed(x, rest.at), i + 1)
  BY <1>0, <1>3, <1>5, FromFacts
<1> QED BY <1>1, <1>4, <1>5

LEMMA AlternationAdvances ==
  ASSUME NEW t \in Seq(Chars), NEW P, Advances(P, t), NEW i \in 1..Len(t) + 1, NEW root \in BOOLEAN
  PROVE  From(alternation(P, i, root), i)
<1>1. From(P["branches", i, root], i)
  BY DEF Advances
<1> QED BY <1>1, FromFacts DEF alternation, From, Parsed, Ok

LEMMA ClassAdvances ==
  ASSUME NEW t \in Seq(Chars), NEW S, NEW P, ParserOf(P, t, S), Advances(P, t), NEW i \in 1..Len(t)
  PROVE  From(characterClass(P, t, i), i + 1)
<1> DEFINE negated == peek(t, i + 1) = "^"
           tokens == ClassTokens(P, t, IF negated THEN i + 2 ELSE i + 1)
<1>0. i + 1 \in 1..Len(t) + 1 /\ i + 1 \in Nat \ {0} /\ i \in Nat /\ Len(t) \in Nat
  OBVIOUS
<1>1. From(tokens, i + 1)
  <2>1. CASE negated
    <3>1. (i + 1) + 1 \in 1..Len(t) + 1
      BY <1>0, <2>1, PeekFacts
    <3>2. i + 2 \in 1..Len(t) + 1
      BY <1>0, <3>1
    <3>3. From(ClassTokens(P, t, i + 2), i + 2 + 1) /\ ClassTokens(P, t, i + 2) \in Parses(t, Tokens)
      BY <3>2, TokensAdvance, ClassTokensFacts
    <3>4. Ok(ClassTokens(P, t, i + 2)) =>
            /\ ClassTokens(P, t, i + 2).at \in 1..Len(t) + 1 /\ ClassTokens(P, t, i + 2).at >= i + 2 + 1
      BY <3>3, ParseFacts DEF From
    <3> QED BY <1>0, <2>1, <3>4 DEF From
  <2>2. CASE ~negated
    <3>3. /\ From(ClassTokens(P, t, i + 1), i + 1 + 1) /\ ClassTokens(P, t, i + 1) \in Parses(t, Tokens)
      BY <1>0, TokensAdvance, ClassTokensFacts
    <3>4. Ok(ClassTokens(P, t, i + 1)) =>
            /\ ClassTokens(P, t, i + 1).at \in 1..Len(t) + 1 /\ ClassTokens(P, t, i + 1).at >= i + 1 + 1
      BY <3>3, ParseFacts DEF From
    <3> QED BY <1>0, <2>2, <3>4 DEF From
  <2> QED BY <2>1, <2>2
<1>2. characterClass(P, t, i) = Fail \/ (Ok(tokens) /\ \E x : characterClass(P, t, i) = Parsed(x, tokens.at))
  BY DEF characterClass
<1> HIDE DEF tokens
<1> QED BY <1>1, <1>2, FromFacts DEF From, Parsed, Ok

LEMMA AtomAdvances ==
  ASSUME NEW t \in Seq(Chars), NEW S, NEW P, ParserOf(P, t, S), Advances(P, t), NEW i \in 1..Len(t) + 1
  PROVE  From(atom(P, t, i), i + 1)
<1> DEFINE c == peek(t, i)
           group == alternation(P, i + 1, FALSE)
           literal == escaped(t, i, FALSE)
<1>0. i \in Nat \ {0} /\ i + 1 \in Nat /\ i + 1 >= i + 1 /\ i + 2 \in Nat /\ i + 2 >= i + 1
  OBVIOUS
<1>1. \A x : From(Parsed(x, i + 1), i + 1) /\ From(Parsed(x, i + 2), i + 1)
  BY <1>0, FromFacts
<1>2. \/ atom(P, t, i) = Fail
      \/ \E x : atom(P, t, i) = Parsed(x, i + 1)
      \/ c = "(" /\ Ok(group) /\ \E x : atom(P, t, i) = Parsed(x, group.at + 1)
      \/ c = "[" /\ atom(P, t, i) = characterClass(P, t, i)
      \/ Ok(literal) /\ \E x : atom(P, t, i) = Parsed(x, literal.at)
  BY DEF atom
<1>3. CASE c = "(" /\ Ok(group) /\ \E x : atom(P, t, i) = Parsed(x, group.at + 1)
  <2>1. i + 1 \in 1..Len(t) + 1
    BY <1>0, <1>3, PeekFacts
  <2>2. group \in Parses(t, Trees(S)) /\ From(group, i + 1)
    BY <2>1, AlternationFacts, AlternationAdvances
  <2> HIDE DEF group
  <2>3. group.at \in 1..Len(t) + 1 /\ group.at >= i + 1
    BY <1>3, <2>2, ParseFacts DEF From
  <2>4. group.at + 1 \in Nat /\ group.at + 1 >= i + 1
    BY <1>0, <2>3
  <2> QED BY <1>0, <1>3, <2>4, FromFacts
<1>4. CASE c = "[" /\ atom(P, t, i) = characterClass(P, t, i)
  <2>1. i \in 1..Len(t)
    BY <1>0, <1>4, PeekFacts
  <2> QED BY <1>4, <2>1, ClassAdvances
<1>5. CASE Ok(literal) /\ \E x : atom(P, t, i) = Parsed(x, literal.at)
  <2>1. literal = Fail \/ literal.at = i + 2
    BY DEF escaped, Parsed
  <2>2. literal.at = i + 2
    BY <1>5, <2>1, ParseFacts
  <2> HIDE DEF literal
  <2> QED BY <1>1, <1>5, <2>2
<1> HIDE DEF group, literal, c
<1> QED BY <1>1, <1>2, <1>3, <1>4, <1>5, FromFacts

LEMMA QuantifiedAdvances ==
  ASSUME NEW t \in Seq(Chars), NEW S, NEW P, ParserOf(P, t, S), Advances(P, t), NEW i \in 1..Len(t) + 1
  PROVE  From(quantified(P, t, i), i + 1)
<1> DEFINE a == P["atom", i, FALSE]
           q == quantifier(t, a.at)
<1>1. a \in Parses(t, S) /\ From(a, i + 1)
  BY DEF ParserOf, Advances
<1>2. \/ quantified(P, t, i) = a
      \/ quantified(P, t, i) = Fail
      \/ /\ Ok(a) /\ peek(t, a.at) \in QuantifierStarts /\ Ok(q)
         /\ \E x : quantified(P, t, i) = Parsed(x, q.at)
  BY DEF quantified, Repetition
<1> HIDE DEF a
<1>3. CASE Ok(a) /\ peek(t, a.at) \in QuantifierStarts /\ Ok(q)
           /\ \E x : quantified(P, t, i) = Parsed(x, q.at)
  <2>1. a.at \in 1..Len(t) + 1 /\ a.at >= i + 1
    BY <1>1, <1>3, ParseFacts DEF From
  <2>2. q \in Parses(t, Quantifiers) /\ From(q, a.at)
    BY <1>3, <2>1, QuantifierFacts, QuantifierAdvances
  <2> HIDE DEF q
  <2>3. q.at \in 1..Len(t) + 1 /\ q.at >= a.at
    BY <1>3, <2>2, ParseFacts DEF From
  <2>4. q.at \in Nat /\ q.at >= i + 1 /\ i + 1 \in Nat
    BY <2>1, <2>3
  <2> QED BY <1>3, <2>4, FromFacts
<1> HIDE DEF q
<1> QED BY <1>1, <1>2, <1>3, FromFacts

LEMMA ChildrenAdvance ==
  ASSUME NEW t \in Seq(Chars), NEW S, NEW P, ParserOf(P, t, S), Advances(P, t), NEW i \in 1..Len(t) + 1,
         NEW root \in BOOLEAN
  PROVE  From(Children(P, t, i, root), i)
<1> DEFINE q == quantified(P, t, i)
           rest == P["children", q.at, root]
<1>0. i \in Nat /\ i >= i
  OBVIOUS
<1>1. \/ Children(P, t, i, root) = Parsed(<< >>, i)
      \/ Children(P, t, i, root) = Fail
      \/ Ok(q) /\ Ok(rest) /\ \E x : Children(P, t, i, root) = Parsed(x, rest.at)
  BY DEF Children, Onwards
<1>2. q \in Parses(t, Trees(S)) /\ From(q, i + 1)
  BY QuantifiedFacts, QuantifiedAdvances
<1> HIDE DEF q
<1>3. CASE Ok(q) /\ Ok(rest) /\ \E x : Children(P, t, i, root) = Parsed(x, rest.at)
  <2>1. q.at \in 1..Len(t) + 1 /\ q.at >= i + 1
    BY <1>2, <1>3, ParseFacts DEF From
  <2>2. rest \in Parses(t, Seq(S)) /\ From(rest, q.at)
    BY <2>1 DEF ParserOf, Advances
  <2> HIDE DEF rest
  <2>3. rest.at \in 1..Len(t) + 1 /\ rest.at >= q.at
    BY <1>3, <2>2, ParseFacts DEF From
  <2>4. rest.at \in Nat /\ rest.at >= i
    BY <1>0, <2>1, <2>3
  <2> QED BY <1>0, <1>3, <2>4, FromFacts
<1> HIDE DEF rest
<1>4. From(Parsed(<< >>, i), i) /\ From(Fail, i)
  BY <1>0, FromFacts
<1> QED BY <1>1, <1>3, <1>4

LEMMA BranchesAdvance ==
  ASSUME NEW t \in Seq(Chars), NEW S, NEW P, ParserOf(P, t, S), Advances(P, t), NEW i \in 1..Len(t) + 1,
         NEW root \in BOOLEAN
  PROVE  From(Branches(P, t, i, root), i)
<1> DEFINE children == P["children", i, root]
           rest == P["branches", children.at + 1, root]
<1>1. children \in Parses(t, Seq(S)) /\ From(children, i)
  BY DEF ParserOf, Advances
<1>2. \/ Branches(P, t, i, root) = Fail
      \/ Ok(children) /\ \E x : Branches(P, t, i, root) = Parsed(x, children.at)
      \/ /\ Ok(children) /\ peek(t, children.at) = "|" /\ Ok(rest)
         /\ \E x : Branches(P, t, i, root) = Parsed(x, rest.at)
  BY DEF Branches
<1> HIDE DEF children
<1>3. ASSUME Ok(children)
      PROVE  /\ children.at \in 1..Len(t) + 1 /\ children.at \in Nat \ {0} /\ children.at >= i /\ i \in Nat
  <2>1. children.at \in 1..Len(t) + 1 /\ children.at >= i
    BY <1>1, <1>3, ParseFacts DEF From
  <2> QED BY <2>1
<1>4. CASE Ok(children) /\ \E x : Branches(P, t, i, root) = Parsed(x, children.at)
  BY <1>3, <1>4, FromFacts
<1>5. CASE /\ Ok(children) /\ peek(t, children.at) = "|" /\ Ok(rest)
           /\ \E x : Branches(P, t, i, root) = Parsed(x, rest.at)
  <2>1. children.at + 1 \in 1..Len(t) + 1
    BY <1>3, <1>5, PeekFacts
  <2>2. rest \in Parses(t, Seq(S) \ {<< >>}) /\ From(rest, children.at + 1)
    BY <2>1 DEF ParserOf, Advances
  <2> HIDE DEF rest
  <2>3. rest.at \in 1..Len(t) + 1 /\ rest.at >= children.at + 1
    BY <1>5, <2>2, ParseFacts DEF From
  <2>4. rest.at \in Nat /\ rest.at >= i /\ i \in Nat
    BY <1>3, <1>5, <2>3
  <2> QED BY <1>5, <2>4, FromFacts
<1> QED BY <1>2, <1>4, <1>5, FromFacts

LEMMA ParserAdvances ==
  ASSUME NEW t \in Seq(Chars)
  PROVE  \A h \in Nat : Advances(Parser(t)[h], t)
<1> DEFINE P == Parser(t)
           T == {h \in Nat : Advances(P[h], t)}
<1>0. "atom" \in Methods /\ "children" \in Methods /\ "branches" \in Methods /\ "tokens" \in Methods
  BY DEF Methods
<1>1. /\ \A h \in Nat : ParserOf(P[h], t, Node[h])
      /\ P[0] = [call \in Calls(t) |-> Fail]
      /\ \A h \in Nat \ {0} : P[h] = Deeper(P[h - 1], t)
  BY ParserTyped
<1> HIDE DEF P
<1>2. ASSUME NEW h \in Nat, \A j \in Nat : j < h => j \in T
      PROVE  h \in T
  <2>1. CASE h = 0
    <3>1. \A method \in Methods, i \in 1..Len(t) + 1, root \in BOOLEAN : P[0][method, i, root] = Fail
      <4> SUFFICES ASSUME NEW method \in Methods, NEW i \in 1..Len(t) + 1, NEW root \in BOOLEAN
                   PROVE  P[0][method, i, root] = Fail
        OBVIOUS
      <4>1. <<method, i, root>> \in Calls(t)
        BY DEF Calls
      <4> QED BY <1>1, <4>1
    <3>2. Advances(P[0], t)
      BY <1>0, <3>1, FromFacts DEF Advances
    <3> QED BY <2>1, <3>2
  <2>2. CASE h # 0
    <3>1. h - 1 \in Nat /\ h - 1 < h /\ h \in Nat \ {0}
      BY <2>2
    <3>2. h - 1 \in T
      <4> HIDE DEF T
      <4> QED BY <1>2, <3>1
    <3> DEFINE Q == P[h - 1]
    <3>3. ParserOf(Q, t, Node[h - 1]) /\ Advances(Q, t) /\ P[h] = Deeper(Q, t)
      BY <1>1, <3>1, <3>2
    <3> HIDE DEF Q
    <3>4. Advances(Deeper(Q, t), t)
      <4> SUFFICES ASSUME NEW i \in 1..Len(t) + 1, NEW root \in BOOLEAN
                   PROVE  /\ From(Deeper(Q, t)["atom", i, root], i + 1)
                          /\ From(Deeper(Q, t)["children", i, root], i)
                          /\ From(Deeper(Q, t)["branches", i, root], i)
                          /\ From(Deeper(Q, t)["tokens", i, root], i + 1)
        BY DEF Advances
      <4>1. /\ Deeper(Q, t)["atom", i, root] = atom(Q, t, i)
            /\ Deeper(Q, t)["children", i, root] = Children(Q, t, i, root)
            /\ Deeper(Q, t)["branches", i, root] = Branches(Q, t, i, root)
            /\ Deeper(Q, t)["tokens", i, root] = ClassTokens(Q, t, i)
        <5>1. /\ Deeper(Q, t)["atom", i, root] = Called(Q, t, "atom", i, root)
              /\ Deeper(Q, t)["children", i, root] = Called(Q, t, "children", i, root)
          BY <1>0, DeeperCalls
        <5>2. /\ Deeper(Q, t)["branches", i, root] = Called(Q, t, "branches", i, root)
              /\ Deeper(Q, t)["tokens", i, root] = Called(Q, t, "tokens", i, root)
          BY <1>0, DeeperCalls
        <5> QED BY <5>1, <5>2, CalledFacts
      <4>2. From(atom(Q, t, i), i + 1) /\ From(Children(Q, t, i, root), i)
        BY <3>3, AtomAdvances, ChildrenAdvance
      <4>3. From(Branches(Q, t, i, root), i) /\ From(ClassTokens(Q, t, i), i + 1)
        BY <3>3, BranchesAdvance, TokensAdvance
      <4> QED BY <4>1, <4>2, <4>3
    <3> QED BY <3>3, <3>4
  <2> QED BY <2>1, <2>2
<1> HIDE DEF T
<1>3. T = Nat
  BY <1>2, StrongInduction DEF T
<1> QED BY <1>3 DEF T, P
-----------------------------------------------------------------------------
\* How deep a call of a method goes at most, for what is left to read.
Need(t, method, i) ==
  LET left == Len(t) + 1 - i
  IN  CASE method = "branches" -> 3 * left
        [] method = "children" -> IF left = 0 THEN 1 ELSE 3 * left - 1
        [] method = "atom" -> IF left = 0 THEN 0 ELSE 3 * left - 2
        [] method = "tokens" -> left

Agree(P, Q, t, h) ==
  \A method \in Methods, i \in 1..Len(t) + 1, root \in BOOLEAN :
    Need(t, method, i) <= h => P[method, i, root] = Q[method, i, root]

LEMMA NeedFacts ==
  ASSUME NEW t, NEW i
  PROVE  /\ Need(t, "branches", i) = 3 * (Len(t) + 1 - i)
         /\ Need(t, "children", i) = IF Len(t) + 1 - i = 0 THEN 1 ELSE 3 * (Len(t) + 1 - i) - 1
         /\ Need(t, "atom", i) = IF Len(t) + 1 - i = 0 THEN 0 ELSE 3 * (Len(t) + 1 - i) - 2
         /\ Need(t, "tokens", i) = Len(t) + 1 - i
BY DEF Need

LEMMA MethodFacts ==
  /\ "atom" \in Methods /\ "children" \in Methods /\ "branches" \in Methods /\ "tokens" \in Methods
  /\ \A method \in Methods : method \in {"atom", "children", "branches", "tokens"}
BY DEF Methods

LEMMA TokensAgree ==
  ASSUME NEW t \in Seq(Chars), NEW P, NEW Q, NEW h \in Nat, Agree(P, Q, t, h),
         NEW i \in 1..Len(t) + 1, Len(t) + 1 - i <= h + 1
  PROVE  ClassTokens(P, t, i) = ClassTokens(Q, t, i)
<1> DEFINE one == Single(t, i)
<1>1. CASE peek(t, i) = "none"
  BY <1>1 DEF ClassTokens
<1>2. CASE peek(t, i) # "none" /\ ~Ok(one)
  BY <1>2 DEF ClassTokens, Single
<1>3. CASE peek(t, i) # "none" /\ Ok(one)
  <2>0. Len(t) \in Nat /\ i \in Nat
    OBVIOUS
  <2>1. one.at \in i + 1..Len(t) + 1
    BY <1>3, SingleFacts
  <2> HIDE DEF one
  <2>2. one.at \in 1..Len(t) + 1 /\ Len(t) + 1 - one.at <= h
    BY <2>0, <2>1
  <2>3. P["tokens", one.at, FALSE] = Q["tokens", one.at, FALSE]
    <3>1. Need(t, "tokens", one.at) <= h
      BY <2>2, NeedFacts
    <3> QED BY <2>2, <3>1, MethodFacts DEF Agree
  <2> QED BY <2>3 DEF ClassTokens, Single, one
<1> QED BY <1>1, <1>2, <1>3

LEMMA AtomAgrees ==
  ASSUME NEW t \in Seq(Chars), NEW P, NEW Q, NEW h \in Nat, Agree(P, Q, t, h),
         NEW i \in 1..Len(t) + 1, Need(t, "atom", i) <= h + 1
  PROVE  atom(P, t, i) = atom(Q, t, i)
<1> DEFINE c == peek(t, i)
<1>0. Len(t) \in Nat /\ i \in Nat \ {0}
  OBVIOUS
<1>1. CASE c = "none"
  BY <1>1 DEF atom
<1>2. CASE c # "none"
  <2>1. i \in 1..Len(t) /\ i + 1 \in 1..Len(t) + 1
    BY <1>0, <1>2, PeekFacts
  <2>2. 3 * (Len(t) + 1 - i) - 2 <= h + 1
    <3>1. Len(t) + 1 - i # 0
      BY <1>0, <2>1
    <3> QED BY <3>1, NeedFacts
  <2>3. 3 * (Len(t) + 1 - (i + 1)) <= h /\ Len(t) + 1 - (i + 1) <= h + 1 /\ Len(t) + 1 - (i + 2) <= h + 1
    BY <1>0, <2>1, <2>2
  <2>4. alternation(P, i + 1, FALSE) = alternation(Q, i + 1, FALSE)
    <3>1. P["branches", i + 1, FALSE] = Q["branches", i + 1, FALSE]
      <4>1. Need(t, "branches", i + 1) <= h
        BY <2>3, NeedFacts
      <4> QED BY <2>1, <4>1, MethodFacts DEF Agree
    <3> QED BY <3>1 DEF alternation
  <2>5. CASE c = "["
    <3>1. ClassTokens(P, t, i + 1) = ClassTokens(Q, t, i + 1)
      BY <2>1, <2>3, TokensAgree
    <3>2. peek(t, i + 1) = "^" => ClassTokens(P, t, i + 2) = ClassTokens(Q, t, i + 2)
      <4>1. i + 1 \in Nat \ {0}
        BY <1>0
      <4>2. peek(t, i + 1) = "^" => (i + 1) + 1 \in 1..Len(t) + 1
        BY <4>1, PeekFacts
      <4>3. peek(t, i + 1) = "^" => i + 2 \in 1..Len(t) + 1
        BY <1>0, <4>2
      <4> QED BY <2>3, <4>3, TokensAgree
    <3>3. characterClass(P, t, i) = characterClass(Q, t, i)
      BY <3>1, <3>2 DEF characterClass
    <3> QED BY <2>5, <3>3 DEF atom
  <2>6. CASE c # "["
    BY <2>4, <2>6 DEF atom
  <2> QED BY <2>5, <2>6
<1> QED BY <1>1, <1>2

LEMMA ChildrenAgree ==
  ASSUME NEW t \in Seq(Chars), NEW S, NEW P, ParserOf(P, t, S), Advances(P, t),
         NEW Q, NEW h \in Nat, Agree(P, Q, t, h),
         NEW i \in 1..Len(t) + 1, NEW root \in BOOLEAN, Need(t, "children", i) <= h + 1
  PROVE  Children(P, t, i, root) = Children(Q, t, i, root)
<1> DEFINE c == peek(t, i)
           q == quantified(P, t, i)
<1>0. Len(t) \in Nat /\ i \in Nat \ {0}
  OBVIOUS
<1>1. CASE c \in {"none", "|"} \/ (~root /\ c = ")")
  BY <1>1 DEF Children, Onwards
<1>2. CASE ~(c \in {"none", "|"} \/ (~root /\ c = ")"))
  <2>1. i \in 1..Len(t)
    BY <1>0, <1>2, PeekFacts
  <2>2. Len(t) + 1 - i # 0 /\ 3 * (Len(t) + 1 - i) - 1 <= h + 1
    <3>1. Len(t) + 1 - i # 0
      BY <1>0, <2>1
    <3> QED BY <3>1, NeedFacts
  <2>3. quantified(Q, t, i) = q
    <3>1. 3 * (Len(t) + 1 - i) - 2 <= h
      BY <1>0, <2>2
    <3>2. P["atom", i, FALSE] = Q["atom", i, FALSE]
      BY <2>2, <3>1, MethodFacts, NeedFacts DEF Agree
    <3> QED BY <3>2 DEF quantified, Repetition
  <2>4. q \in Parses(t, Trees(S)) /\ From(q, i + 1)
    BY QuantifiedFacts, QuantifiedAdvances
  <2>5. /\ Children(P, t, i, root) = (IF ~Ok(q) \/ ~Ok(P["children", q.at, root]) THEN Fail
             ELSE Parsed(<<q.node>> \o P["children", q.at, root].node, P["children", q.at, root].at))
        /\ Children(Q, t, i, root) = (IF ~Ok(q) \/ ~Ok(Q["children", q.at, root]) THEN Fail
             ELSE Parsed(<<q.node>> \o Q["children", q.at, root].node, Q["children", q.at, root].at))
    BY <1>2, <2>3 DEF Children, Onwards
  <2> HIDE DEF q
  <2>6. CASE ~Ok(q)
    BY <2>5, <2>6
  <2>7. CASE Ok(q)
    <3>1. q.at \in 1..Len(t) + 1 /\ q.at >= i + 1
      BY <2>4, <2>7, ParseFacts DEF From
    <3>2. Need(t, "children", q.at) <= h
      <4>1. CASE Len(t) + 1 - q.at = 0
        <5>1. 1 <= h
          BY <1>0, <2>1, <2>2
        <5> QED BY <4>1, <5>1, NeedFacts
      <4>2. CASE Len(t) + 1 - q.at # 0
        <5>1. 3 * (Len(t) + 1 - q.at) - 1 <= h
          BY <1>0, <2>2, <3>1
        <5> QED BY <4>2, <5>1, NeedFacts
      <4> QED BY <4>1, <4>2
    <3>3. P["children", q.at, root] = Q["children", q.at, root]
      BY <3>1, <3>2, MethodFacts DEF Agree
    <3> DEFINE p == P["children", q.at, root]
               r == Q["children", q.at, root]
    <3>4. p = r
      BY <3>3
    <3>5. /\ Children(P, t, i, root) = IF ~Ok(q) \/ ~Ok(p) THEN Fail ELSE Parsed(<<q.node>> \o p.node, p.at)
          /\ Children(Q, t, i, root) = IF ~Ok(q) \/ ~Ok(r) THEN Fail ELSE Parsed(<<q.node>> \o r.node, r.at)
      BY <2>5
    <3> HIDE DEF p, r
    <3> QED BY <3>4, <3>5
  <2> QED BY <2>6, <2>7
<1> QED BY <1>1, <1>2

\* At the end of the text there is no child.
NoneAtEnd(P, t) ==
  \A root \in BOOLEAN :
    ~Ok(P["children", Len(t) + 1, root]) \/ P["children", Len(t) + 1, root].node = << >>

LEMMA BranchesAgree ==
  ASSUME NEW t \in Seq(Chars), NEW S, NEW P, ParserOf(P, t, S), Advances(P, t), NoneAtEnd(P, t),
         NEW Q, NoneAtEnd(Q, t), NEW h \in Nat, Agree(P, Q, t, h),
         NEW i \in 1..Len(t) + 1, NEW root \in BOOLEAN, Need(t, "branches", i) <= h + 1
  PROVE  Branches(P, t, i, root) = Branches(Q, t, i, root)
<1> DEFINE children == P["children", i, root]
<1>0. Len(t) \in Nat /\ i \in Nat \ {0}
  OBVIOUS
<1>1. CASE i = Len(t) + 1
  BY <1>1 DEF Branches, NoneAtEnd
<1>2. CASE i # Len(t) + 1
  <2>1. Len(t) + 1 - i # 0 /\ 3 * (Len(t) + 1 - i) <= h + 1
    BY <1>0, <1>2, NeedFacts
  <2>2. Q["children", i, root] = children
    <3>1. 3 * (Len(t) + 1 - i) - 1 <= h
      BY <1>0, <2>1
    <3> QED BY <2>1, <3>1, MethodFacts, NeedFacts DEF Agree
  <2>3. children \in Parses(t, Seq(S)) /\ From(children, i)
    BY DEF ParserOf, Advances
  <2> HIDE DEF children
  <2>4. CASE Ok(children) /\ peek(t, children.at) = "|"
    <3>1. children.at \in 1..Len(t) + 1 /\ children.at >= i
      BY <2>3, <2>4, ParseFacts DEF From
    <3>2. children.at \in Nat \ {0}
      BY <3>1
    <3>3. children.at + 1 \in 1..Len(t) + 1
      BY <2>4, <3>2, PeekFacts
    <3>4. 3 * (Len(t) + 1 - (children.at + 1)) <= h
      BY <1>0, <2>1, <3>1
    <3>5. P["branches", children.at + 1, root] = Q["branches", children.at + 1, root]
      <4>1. Need(t, "branches", children.at + 1) <= h
        BY <3>4, NeedFacts
      <4> QED BY <3>3, <4>1, MethodFacts DEF Agree
    <3> QED BY <2>2, <3>5 DEF Branches, children
  <2>5. CASE ~(Ok(children) /\ peek(t, children.at) = "|")
    BY <2>2, <2>5 DEF Branches, children
  <2> QED BY <2>4, <2>5
<1> QED BY <1>1, <1>2

LEMMA ParserNoneAtEnd ==
  ASSUME NEW t \in Seq(Chars), NEW h \in Nat
  PROVE  NoneAtEnd(Parser(t)[h], t)
<1> DEFINE P == Parser(t)
           e == Len(t) + 1
<1>1. /\ P[0] = [call \in Calls(t) |-> Fail]
      /\ \A k \in Nat \ {0} : P[k] = Deeper(P[k - 1], t)
  BY ParserTyped
<1> HIDE DEF P
<1>2. e \in 1..Len(t) + 1 /\ peek(t, e) = "none"
  BY DEF peek
<1> HIDE DEF e
<1>3. ASSUME NEW root \in BOOLEAN
      PROVE  P[h]["children", e, root] \in {Fail, Parsed(<< >>, e)}
  <2>1. CASE h = 0
    <3>1. <<"children", e, root>> \in Calls(t)
      BY <1>2, MethodFacts DEF Calls
    <3>2. P[0]["children", e, root] = Fail
      BY <1>1, <3>1
    <3> QED BY <2>1, <3>2
  <2>2. CASE h # 0
    <3> DEFINE Q == P[h - 1]
    <3>1. P[h] = Deeper(Q, t)
      BY <1>1, <2>2
    <3> HIDE DEF Q
    <3>2. Deeper(Q, t)["children", e, root] = Called(Q, t, "children", e, root)
      BY <1>2, MethodFacts, DeeperCalls
    <3>3. Called(Q, t, "children", e, root) = Children(Q, t, e, root)
      BY CalledFacts
    <3>4. Children(Q, t, e, root) = Parsed(<< >>, e)
      BY <1>2 DEF Children, Onwards
    <3> QED BY <3>1, <3>2, <3>3, <3>4
  <2> QED BY <2>1, <2>2
<1>4. ~Ok(Fail) /\ Parsed(<< >>, e).node = << >>
  BY DEF Ok, Fail, Parsed
<1> QED BY <1>3, <1>4 DEF NoneAtEnd, P, e

\* At the end of the text, an atom, branches and tokens fail at any height.
LEMMA EndFails ==
  ASSUME NEW t \in Seq(Chars), NEW h \in Nat, NEW method \in {"atom", "branches", "tokens"}, NEW root \in BOOLEAN
  PROVE  Parser(t)[h][method, Len(t) + 1, root] = Fail
<1> DEFINE P == Parser(t)
           e == Len(t) + 1
<1>1. /\ P[0] = [call \in Calls(t) |-> Fail]
      /\ \A k \in Nat \ {0} : P[k] = Deeper(P[k - 1], t)
      /\ \A k \in Nat : NoneAtEnd(P[k], t)
  BY ParserTyped, ParserNoneAtEnd
<1> HIDE DEF P
<1>2. e \in 1..Len(t) + 1 /\ peek(t, e) = "none" /\ method \in Methods
  BY DEF peek, Methods
<1>3. CASE h = 0
  <2>1. <<method, e, root>> \in Calls(t)
    BY <1>2 DEF Calls
  <2> HIDE DEF e
  <2>2. P[0][method, e, root] = Fail
    BY <1>1, <2>1
  <2> QED BY <1>3, <2>2 DEF P, e
<1>4. CASE h # 0
  <2> DEFINE Q == P[h - 1]
  <2>1. P[h] = Deeper(Q, t) /\ NoneAtEnd(Q, t)
    BY <1>1, <1>4
  <2> HIDE DEF Q
  <2>2. Deeper(Q, t)[method, e, root] = Called(Q, t, method, e, root)
    BY <1>2, DeeperCalls
  <2>3. atom(Q, t, e) = Fail /\ ClassTokens(Q, t, e) = Fail
    BY <1>2 DEF atom, ClassTokens
  <2>4. Branches(Q, t, e, root) = Fail
    BY <2>1 DEF Branches, NoneAtEnd
  <2> HIDE DEF e
  <2>5. Called(Q, t, method, e, root) = Fail
    BY <2>3, <2>4, CalledFacts
  <2> QED BY <2>1, <2>2, <2>5 DEF P, e
<1> QED BY <1>3, <1>4

LEMMA HigherAgrees ==
  ASSUME NEW t \in Seq(Chars)
  PROVE  \A h \in Nat : \A g \in Nat : g >= h => Agree(Parser(t)[h], Parser(t)[g], t, h)
<1> DEFINE P == Parser(t)
           T == {h \in Nat : \A g \in Nat : g >= h => Agree(P[h], P[g], t, h)}
<1>0. Len(t) \in Nat
  OBVIOUS
<1>1. /\ \A k \in Nat : ParserOf(P[k], t, Node[k]) /\ Advances(P[k], t) /\ NoneAtEnd(P[k], t)
      /\ \A k \in Nat \ {0} : P[k] = Deeper(P[k - 1], t)
      /\ \A k \in Nat : \A method \in {"atom", "branches", "tokens"} : \A root \in BOOLEAN :
           P[k][method, Len(t) + 1, root] = Fail
  BY ParserTyped, ParserAdvances, ParserNoneAtEnd, EndFails
<1> HIDE DEF P
<1>2. ASSUME NEW h \in Nat, \A j \in Nat : j < h => j \in T
      PROVE  h \in T
  <2> SUFFICES ASSUME NEW g \in Nat, g >= h PROVE Agree(P[h], P[g], t, h)
    OBVIOUS
  <2> SUFFICES ASSUME NEW method \in Methods, NEW i \in 1..Len(t) + 1, NEW root \in BOOLEAN,
                      Need(t, method, i) <= h
               PROVE  P[h][method, i, root] = P[g][method, i, root]
    BY DEF Agree
  <2>1. CASE h = 0
    <3>1. i = Len(t) + 1 /\ method # "children"
      <4>1. i \in Nat /\ Len(t) + 1 - i \in Nat
        BY <1>0
      <4>2. CASE method = "children"
        <5>1. Need(t, "children", i) >= 1
          BY <4>1, NeedFacts
        <5>2. Need(t, "children", i) \in Nat
          BY <4>1, NeedFacts
        <5> QED BY <2>1, <4>2, <5>1, <5>2
      <4>3. CASE method = "branches"
        BY <1>0, <2>1, <4>1, <4>3, NeedFacts
      <4>4. CASE method = "tokens"
        BY <1>0, <2>1, <4>1, <4>4, NeedFacts
      <4>5. CASE method = "atom"
        BY <1>0, <2>1, <4>1, <4>5, NeedFacts
      <4> QED BY <4>2, <4>3, <4>4, <4>5, MethodFacts
    <3> QED BY <1>1, <3>1, MethodFacts
  <2>2. CASE h # 0
    <3>1. h - 1 \in Nat /\ h - 1 < h /\ g - 1 \in Nat /\ g - 1 >= h - 1 /\ g \in Nat \ {0} /\ h \in Nat \ {0}
          /\ h - 1 + 1 = h
      BY <2>2
    <3> DEFINE A == P[h - 1]
               B == P[g - 1]
               m == h - 1
    <3>2. Agree(A, B, t, m)
      <4>1. h - 1 \in T
        <5> HIDE DEF T
        <5> QED BY <1>2, <3>1
      <4> QED BY <3>1, <4>1
    <3>3. ParserOf(A, t, Node[m]) /\ Advances(A, t) /\ NoneAtEnd(A, t) /\ NoneAtEnd(B, t)
      BY <1>1, <3>1
    <3>4. P[h] = Deeper(A, t) /\ P[g] = Deeper(B, t)
      BY <1>1, <3>1
    <3>5. m \in Nat /\ Need(t, method, i) <= m + 1
      BY <3>1
    <3> HIDE DEF A, B, m
    <3>6. Called(A, t, method, i, root) = Called(B, t, method, i, root)
      <4>1. CASE method = "atom"
        BY <3>2, <3>5, <4>1, AtomAgrees, CalledFacts
      <4>2. CASE method = "children"
        BY <3>2, <3>3, <3>5, <4>2, ChildrenAgree, CalledFacts
      <4>3. CASE method = "branches"
        BY <3>2, <3>3, <3>5, <4>3, BranchesAgree, CalledFacts
      <4>4. CASE method = "tokens"
        <5>1. Len(t) + 1 - i <= m + 1
          BY <3>5, <4>4, NeedFacts
        <5> QED BY <3>2, <3>5, <4>4, <5>1, TokensAgree, CalledFacts
      <4> QED BY <4>1, <4>2, <4>3, <4>4, MethodFacts
    <3>7. /\ Deeper(A, t)[method, i, root] = Called(A, t, method, i, root)
          /\ Deeper(B, t)[method, i, root] = Called(B, t, method, i, root)
      BY DeeperCalls
    <3> QED BY <3>4, <3>6, <3>7
  <2> QED BY <2>1, <2>2
<1> HIDE DEF T
<1>3. T = Nat
  BY <1>2, StrongInduction DEF T
<1> QED BY <1>3 DEF T, P

\* The parser of pattern.py calls itself without a limit.  That calls nest at
\* most Height(t) deep in the model is no restriction: with more of them the
\* outermost alternation, and so the pattern, is the same.
THEOREM HeightSuffices ==
  ASSUME NEW t \in Seq(Chars), NEW h \in Nat, h >= Height(t) - 1
  PROVE  alternation(Parser(t)[h], 1, TRUE) = alternation(Parser(t)[Height(t) - 1], 1, TRUE)
<1> DEFINE g == Height(t) - 1
<1>1. Len(t) \in Nat
  OBVIOUS
<1>2. g = 3 * Len(t) /\ g \in Nat /\ 1 \in 1..Len(t) + 1
  BY <1>1 DEF Height
<1>3. Need(t, "branches", 1) <= g
  BY <1>1, <1>2, NeedFacts
<1> HIDE DEF g
<1>4. h >= g
  BY DEF g
<1>5. Agree(Parser(t)[g], Parser(t)[h], t, g)
  BY <1>2, <1>4, HigherAgrees
<1>6. Parser(t)[g]["branches", 1, TRUE] = Parser(t)[h]["branches", 1, TRUE]
  BY <1>2, <1>3, <1>5, MethodFacts DEF Agree
<1> QED BY <1>6 DEF alternation, g
-----------------------------------------------------------------------------
(* Searching. *)

LEMMA FollowsFacts ==
  ASSUME WellFormed(states), NEW k \in DOMAIN states, NEW at
  PROVE  Follows(k, at) \subseteq DOMAIN states
<1>1. Len(states) \in Nat /\ DOMAIN states = 1..Len(states)
  BY DEF WellFormed
<1>2. states[k].out \in 0..Len(states) /\ states[k].out1 \in 0..Len(states)
  BY <1>1 DEF WellFormed
<1>3. {states[k].out, states[k].out1} \ {None} \subseteq DOMAIN states
  BY <1>1, <1>2 DEF None
<1>4. Follows(k, at) \subseteq {states[k].out, states[k].out1} \ {None}
  BY DEF Follows
<1> QED BY <1>3, <1>4

LEMMA VisitedFacts ==
  ASSUME WellFormed(states), NEW pending \in SUBSET DOMAIN states, NEW at
  PROVE  Visited(pending, at) \subseteq DOMAIN states /\ Cardinality(Visited(pending, at)) \in Nat
<1> DEFINE L == Len(states)
           S == SUBSET DOMAIN states
           Wider(visited) == visited \cup UNION {Follows(k, at) : k \in visited}
           G == [p \in (1..L) \X S |-> Wider(p[2])]
           E(s) == [j \in 0..L |-> IF j = 0 THEN pending ELSE Wider(s[j - 1])]
           Round == CHOOSE s : s = E(s)
<1>0. L \in Nat /\ DOMAIN states = 1..L
  BY DEF WellFormed
<1>1. \A s \in S : Wider(s) \in S
  BY FollowsFacts
<1> HIDE DEF L, S, Wider
<1>2. G \in [(1..L) \X S -> S] /\ pending \in S
  BY <1>1 DEF S
<1>3. PICK s : IsLoop(s, L, S, pending, G)
  <2> HIDE DEF G
  <2> QED BY <1>0, <1>2, LoopExists
<1>4. s = E(s)
  <2>1. \A j \in 1..L : s[j] = Wider(s[j - 1])
    <3> SUFFICES ASSUME NEW j \in 1..L PROVE s[j] = Wider(s[j - 1])
      OBVIOUS
    <3>1. <<j, s[j - 1]>> \in (1..L) \X S
      BY <1>0, <1>3 DEF IsLoop
    <3>2. G[<<j, s[j - 1]>>] = Wider(s[j - 1])
      BY <3>1
    <3> HIDE DEF G
    <3> QED BY <1>3, <3>2 DEF IsLoop
  <2> HIDE DEF G
  <2> QED BY <1>0, <1>3, <2>1 DEF IsLoop
<1>5. Round = E(Round)
  <2> HIDE DEF E
  <2> QED BY <1>4
<1>6. Visited(pending, at) = Round[L]
  BY DEF Visited, L, Wider
<1> HIDE DEF Round
<1>7. Round[0] = pending /\ \A j \in 1..L : Round[j] = Wider(Round[j - 1])
  BY <1>0, <1>5
<1>8. \A j \in 0..L : Round[j] \in S
  <2>1. Round[0] \in S /\ \A j \in 1..L : Round[j - 1] \in S => Round[j] \in S
    BY <1>1, <1>2, <1>7
  <2> QED BY <1>0, <2>1, LoopTyped
<1>9. Visited(pending, at) \subseteq DOMAIN states
  BY <1>0, <1>6, <1>8 DEF S
<1>10. IsFiniteSet(DOMAIN states)
  BY <1>0, FS_Interval
<1>11. IsFiniteSet(Visited(pending, at))
  BY <1>9, <1>10, FS_Subset
<1> QED BY <1>9, <1>11, FS_CardinalityType

\* Before a pattern is compiled nothing is searched, and after it the states
\* are the counted ones, of which none leads to one that does not exist.
Inv ==
  /\ TypeOK /\ CountIsExact
  /\ text \in Seq(Chars) /\ WellFormed(states)
  /\ phase = "typing" => position = 0 /\ active = {}
  /\ phase = "search" => start \in DOMAIN states

LEMMA InitInv == Init => Inv
<1> SUFFICES ASSUME Init PROVE Inv
  OBVIOUS
<1>1. text \in Seq(Chars) /\ states = << >> /\ Len(states) = 0 /\ DOMAIN states = {}
  BY TextsAssumption DEF Init
<1>2. WellFormed(states)
  BY <1>1 DEF WellFormed
<1>3. TypeOK
  <2>1. value = << >> /\ Len(value) = 0 /\ position = 0
    BY DEF Init
  <2>2. 0 \in 0..MaxTyped /\ 0 \in 0..MaxOperations
    BY LimitsAssumption
  <2>3. /\ typed = 0 /\ phase = "typing" /\ start = 0 /\ active = {} /\ operations = 0
        /\ matched = FALSE
    BY DEF Init, None
  <2>4. start \in 0..Len(states) /\ position \in 0..Len(value)
    BY <1>1, <2>1, <2>3
  <2>5. \A k \in DOMAIN states : states[k].out \in 0..Len(states) /\ states[k].out1 \in 0..Len(states)
    BY <1>1
  <2> QED BY <2>1, <2>2, <2>3, <2>4, <2>5 DEF TypeOK
<1> QED BY <1>1, <1>2, <1>3 DEF Init, Inv, CountIsExact

LEMMA AdvanceFacts ==
  ASSUME Inv, Advance
  PROVE  /\ active' \subseteq DOMAIN states /\ operations' \in 0..MaxOperations /\ matched' \in BOOLEAN
         /\ position' \in 0..Len(value) /\ phase' \in {"search", "exhausted", "done"}
<1> DEFINE last == position = Len(value)
           injected == Visited({start}, position)
           moving == IF last THEN {}
                     ELSE {k \in active \cup Waiting(injected) : Accepts(k, value[position + 1])}
           visits == [k \in moving |-> Visited({states[k].out} \ {None}, position + 1)]
           reached == UNION {visits[k] : k \in moving}
           each == [k \in DOMAIN states |-> IF k \in moving THEN Cardinality(visits[k]) ELSE 0]
           total == operations + Cardinality(injected) + Total(each, Len(states))
<1>1. /\ Len(states) \in Nat /\ DOMAIN states = 1..Len(states) /\ WellFormed(states)
      /\ start \in DOMAIN states /\ active \subseteq DOMAIN states
      /\ operations \in 0..MaxOperations /\ matched \in BOOLEAN /\ position \in 0..Len(value)
      /\ phase = "search"
  BY DEF Inv, TypeOK, WellFormed, Advance
<1>2. Len(value) \in Nat
  <2>1. value \in Values \cup {<< >>}
    BY DEF Inv, TypeOK
  <2>2. << >> \in Seq(Chars)
    OBVIOUS
  <2>3. value \in Seq(Chars)
    BY <2>1, <2>2, TextsAssumption
  <2> QED BY <2>3
<1>3. /\ \/ /\ phase' = "exhausted" /\ UNCHANGED <<position, active, operations, matched>>
         \/ /\ ~Exhausted(total)
            /\ operations' = total
            /\ matched' = (matched \/ Matches(injected \cup reached))
            /\ active' = IF last THEN active ELSE Waiting(reached)
            /\ position' = IF last THEN position ELSE position + 1
            /\ phase' = IF last THEN "done" ELSE "search"
  BY DEF Advance
<1>4. injected \subseteq DOMAIN states /\ Cardinality(injected) \in Nat
  BY <1>1, VisitedFacts
<1> HIDE DEF injected
<1>5. moving \subseteq DOMAIN states
  BY <1>1, <1>4 DEF Waiting
<1> HIDE DEF moving
<1>6. ASSUME NEW k \in moving
      PROVE  visits[k] \subseteq DOMAIN states /\ Cardinality(visits[k]) \in Nat
  <2>1. states[k].out \in 0..Len(states)
    BY <1>1, <1>5, <1>6 DEF WellFormed
  <2>2. {states[k].out} \ {None} \in SUBSET DOMAIN states
    BY <1>1, <2>1 DEF None
  <2>3. visits[k] = Visited({states[k].out} \ {None}, position + 1)
    BY <1>6
  <2> HIDE DEF visits
  <2> QED BY <1>1, <2>2, <2>3, VisitedFacts
<1> HIDE DEF visits
<1>7. reached \subseteq DOMAIN states
  BY <1>6
<1> HIDE DEF reached
<1>8. each \in [1..Len(states) -> Nat]
  BY <1>1, <1>6
<1> HIDE DEF each
<1>9. Total(each, Len(states)) \in Nat
  <2>1. PICK Sum : /\ \A k \in 0..Len(states) : Sum[k] \in Nat
                   /\ Total(each, Len(states)) = Sum[Len(states)]
    BY <1>1, <1>8, TotalSteps
  <2>2. Len(states) \in 0..Len(states)
    BY <1>1
  <2> QED BY <2>1, <2>2
<1>10. total \in Nat
  BY <1>1, <1>4, <1>9, LimitsAssumption
<1> HIDE DEF total
<1>11. ~Exhausted(total) => total \in 0..MaxOperations
  BY <1>10, LimitsAssumption DEF Exhausted
<1>12. Waiting(reached) \subseteq DOMAIN states
  BY <1>7 DEF Waiting
<1>13. ~last => position + 1 \in 0..Len(value)
  BY <1>1, <1>2
<1> HIDE DEF last
<1> QED BY <1>1, <1>3, <1>11, <1>12, <1>13

LEMMA NextInv == Inv /\ [Next]_vars => Inv'
<1> SUFFICES ASSUME Inv, [Next]_vars PROVE Inv'
  OBVIOUS
<1> USE DEF Inv
<1>1. CASE \E c \in Typed : Type(c)
  <2>1. PICK c \in Typed : Type(c)
    BY <1>1
  <2>2. c \in Chars
    BY TextsAssumption
  <2>3. text' \in Seq(Chars)
    BY <2>1, <2>2 DEF Type
  <2>4. typed' \in 0..MaxTyped
    BY <2>1, LimitsAssumption DEF Type, TypeOK
  <2>5. /\ phase = "typing" /\ phase' = phase /\ states' = states /\ start' = start /\ value' = value
        /\ position' = position /\ active' = active /\ operations' = operations /\ matched' = matched
    BY <2>1 DEF Type
  <2>6. TypeOK'
    BY <2>4, <2>5 DEF TypeOK
  <2>7. WellFormed(states)'
    BY <2>5 DEF WellFormed
  <2> QED BY <2>3, <2>5, <2>6, <2>7 DEF CountIsExact
<1>2. CASE Refuse
  <2>1. /\ phase' = "refused" /\ text' = text /\ typed' = typed /\ states' = states /\ start' = start
        /\ value' = value /\ position' = position /\ active' = active /\ operations' = operations
        /\ matched' = matched
    BY <1>2 DEF Refuse
  <2>2. TypeOK'
    BY <2>1 DEF TypeOK
  <2>3. WellFormed(states)'
    BY <2>1 DEF WellFormed
  <2> QED BY <2>1, <2>2, <2>3 DEF CountIsExact
<1>3. CASE \E v \in Values : Compile(v)
  <2>1. PICK v \in Values : Compile(v)
    BY <1>3
  <2> DEFINE n == parse(text).node
             h == Height(text)
             compiled == Compiled(n, h)
  <2>2. n \in Node[h] /\ h \in Nat
    BY <2>1, ParseTyped DEF Compile, Compilable
  <2>3. /\ phase = "typing" /\ phase' = "search" /\ text' = text /\ typed' = typed /\ node' = n
        /\ states' = compiled.states /\ start' = compiled.start /\ value' = v
        /\ position' = position /\ active' = active /\ operations' = operations /\ matched' = matched
    BY <2>1 DEF Compile
  <2> HIDE DEF n, h
  <2>4. /\ WellFormed(compiled.states) /\ Len(compiled.states) = stateCount[h][n] + 1
        /\ compiled.start \in 1..Len(compiled.states)
    BY <2>2, CompiledExact
  <2> HIDE DEF compiled
  <2>5. compiled.states \in Seq(States) /\ DOMAIN compiled.states = 1..Len(compiled.states)
        /\ Len(compiled.states) \in Nat
    BY <2>4 DEF WellFormed
  <2>6. WellFormed(states)'
    BY <2>3, <2>4 DEF WellFormed
  <2>7. CountIsExact'
    BY <2>3, <2>4 DEF CountIsExact, h
  <2>8. Len(v) \in Nat
    <3>1. v \in Seq(Chars)
      BY TextsAssumption
    <3> QED BY <3>1
  <2>9. TypeOK'
    <3>1. position' \in 0..Len(value')
      BY <2>3, <2>8
    <3>2. start' \in 0..Len(states')
      BY <2>3, <2>4, <2>5
    <3>3. (\A k \in DOMAIN states : states[k].out \in 0..Len(states) /\ states[k].out1 \in 0..Len(states))'
      BY <2>3, <2>4, <2>5 DEF WellFormed
    <3>4. active' \subseteq DOMAIN states'
      BY <2>3
    <3> QED BY <2>3, <3>1, <3>2, <3>3, <3>4 DEF TypeOK
  <2> QED BY <2>3, <2>4, <2>5, <2>6, <2>7, <2>9
<1>4. CASE Advance
  <2>1. /\ active' \subseteq DOMAIN states /\ operations' \in 0..MaxOperations /\ matched' \in BOOLEAN
        /\ position' \in 0..Len(value) /\ phase' \in {"search", "exhausted", "done"}
    BY <1>4, AdvanceFacts
  <2>2. /\ phase = "search" /\ text' = text /\ typed' = typed /\ node' = node /\ states' = states
        /\ start' = start /\ value' = value
    BY <1>4 DEF Advance
  <2>3. TypeOK'
    BY <2>1, <2>2 DEF TypeOK
  <2>4. CountIsExact'
    BY <2>2 DEF CountIsExact
  <2>5. WellFormed(states)'
    BY <2>2 DEF WellFormed
  <2> QED BY <2>1, <2>2, <2>3, <2>4, <2>5
<1>5. CASE Over \/ UNCHANGED vars
  <2>1. UNCHANGED vars
    BY <1>5 DEF Over
  <2>2. TypeOK' /\ CountIsExact'
    BY <2>1 DEF TypeOK, CountIsExact, vars
  <2>3. WellFormed(states)'
    BY <2>1 DEF WellFormed, vars
  <2> QED BY <2>1, <2>2, <2>3 DEF vars
<1> QED BY <1>1, <1>2, <1>3, <1>4, <1>5 DEF Next

\* All that is needed of a compiled pattern and its search, for every text, limit
\* and value: the types, the exact count, and an automaton that is closed.
THEOREM SpecInv == Spec => []Inv
BY InitInv, NextInv, PTL DEF Spec

\* compile_pattern checks max_states against a count that is made of the tree
\* before anything is built, and asserts that the automaton has as many states.
\* For every text that the parser accepts, whatever its length and the limits,
\* the assertion holds: the limit is one on the automaton.
THEOREM CountMatchesTheBuild == Spec => []CountIsExact
<1>1. Inv => CountIsExact
  BY DEF Inv
<1> QED BY <1>1, SpecInv, PTL

\* No state of the compiled automaton leads to one that does not exist, the
\* search is only ever in states that do, and it never counts more operations
\* than max_operations.
THEOREM AutomatonIsClosed == Spec => []TypeOK
<1>1. Inv => TypeOK
  BY DEF Inv
<1> QED BY <1>1, SpecInv, PTL
=============================================================================
