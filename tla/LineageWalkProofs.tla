------------------------- MODULE LineageWalkProofs --------------------------
(***************************************************************************)
(* Proofs about LineageWalk for every finite or infinite set of nodes and  *)
(* every graph over it.                                                    *)
(***************************************************************************)
EXTENDS LineageWalk, SequenceTheorems, TLAPS

\* The type invariant of both loops: the stack holds nodes only, and what
\* an open visit has left is a set of names.
THEOREM TypeCorrect == Spec => []TypeOK
<1>1. Init => TypeOK
  BY DEF Init, TypeOK
<1>2. TypeOK /\ [Next]_vars => TypeOK'
  <2> SUFFICES ASSUME TypeOK, [Next]_vars PROVE TypeOK'
    OBVIOUS
  <2>0. stack # << >> => Len(stack) \in 1..Len(stack) /\ Top \in Node
    BY DEF TypeOK, Top
  <2>1. CASE VisitRoot
    BY <2>1, NodeAssumption DEF VisitRoot, Enter, IsNext, TypeOK
  <2>2. CASE SkipPredecessor
    BY <2>0, <2>2 DEF SkipPredecessor, IsNext, TypeOK
  <2>3. CASE VisitPredecessor
    BY <2>0, <2>3 DEF VisitPredecessor, Enter, IsNext, TypeOK
  <2>4. CASE CloseCycle
    BY <2>0, <2>4 DEF CloseCycle, IsNext, TypeOK
  <2>5. CASE Leave
    <3>1. SubSeq(stack, 1, Len(stack) - 1) \in Seq(Node)
      BY <2>5 DEF Leave, TypeOK
    <3> QED BY <2>0, <2>5, <3>1 DEF Leave, TypeOK
  <2>6. CASE StartReach
    BY <2>6, NodeAssumption DEF StartReach, TypeOK
  <2>7. CASE Pop
    BY <2>7 DEF Pop, TypeOK
  <2>8. CASE Finish
    BY <2>8 DEF Finish, TypeOK
  <2>9. CASE UNCHANGED vars
    BY <2>9 DEF vars, TypeOK
  <2> QED
    BY <2>1, <2>2, <2>3, <2>4, <2>5, <2>6, <2>7, <2>8, <2>9 DEF Next, Walk, Done
<1> QED BY <1>1, <1>2, PTL DEF Spec

CycleInv == /\ TypeOK /\ StackIsOpenVisits /\ ScannedAreLeft
            /\ LeftIsAcyclic /\ PhaseInv /\ ReportedHavePredecessor

LEMMA CycleInvInit == Init => CycleInv
  BY DEF Init, CycleInv, TypeOK, StackIsOpenVisits, ScannedAreLeft,
         LeftIsAcyclic, PhaseInv, ReportedHavePredecessor, Left

\* Opening a visit, of a root or of a predecessor of the top.
LEMMA EnterKeepsStack ==
  ASSUME CycleInv, NEW n \in Node, state[n] = 0, Enter(n),
         preds' = preds, cyclic' = cyclic, phase' = phase,
         stack # << >> => n \in left[Top],
         left' \in [Node -> SUBSET Name],
         left'[n] = preds[n],
         \A m \in Node \ {n} : left'[m] \subseteq left[m],
         \A m \in Node \ {n} : left[m] \ left'[m] \subseteq {n},
         \A i \in 1..Len(stack) - 1 : left'[stack[i]] = left[stack[i]]
  PROVE  StackIsOpenVisits' /\ ScannedAreLeft' /\ LeftIsAcyclic'
<1> DEFINE N == Len(stack)
<1>1. /\ stack \in Seq(Node) /\ stack' = Append(stack, n) /\ N \in Nat
      /\ Len(stack') = N + 1 /\ stack'[N + 1] = n
      /\ \A i \in 1..N : stack'[i] = stack[i] /\ stack[i] \in Node
  BY DEF CycleInv, TypeOK, Enter
<1>2. state' = [state EXCEPT ![n] = 1] /\ state \in [Node -> 0..2]
      /\ preds \in [Node -> SUBSET Name]
  BY DEF CycleInv, TypeOK, Enter
<1>3. \A i \in 1..N : stack[i] # n /\ state[stack[i]] = 1
  BY <1>1 DEF CycleInv, StackIsOpenVisits
<1>4. Left' = Left
  BY <1>2 DEF Left
<1>5. LeftIsAcyclic'
  BY <1>4 DEF CycleInv, LeftIsAcyclic
<1>6. N > 0 => n \in preds[stack[N]]
  BY <1>1 DEF CycleInv, StackIsOpenVisits, Top
<1>7. StackIsOpenVisits'
  <2>1. \A i, j \in 1..N + 1 : stack'[i] = stack'[j] => i = j
    BY <1>1, <1>3 DEF CycleInv, StackIsOpenVisits
  <2>2. \A m \in Node : state'[m] = 1 <=> \E i \in 1..N + 1 : stack'[i] = m
    <3> TAKE m \in Node
    <3>1. CASE m = n
      BY <1>1, <1>2, <3>1
    <3>2. CASE m # n
      <4>1. state'[m] = state[m]
        BY <1>2, <3>2
      <4>2. \A i \in 1..N + 1 : stack'[i] = m => i \in 1..N /\ stack[i] = m
        BY <1>1, <3>2
      <4>3. \A i \in 1..N : stack[i] = m => i \in 1..N + 1 /\ stack'[i] = m
        BY <1>1
      <4> QED BY <4>1, <4>2, <4>3 DEF CycleInv, StackIsOpenVisits
    <3> QED BY <3>1, <3>2
  <2>3. \A i \in 1..N : stack'[i + 1] \in preds[stack'[i]]
    BY <1>1, <1>6 DEF CycleInv, StackIsOpenVisits
  <2>4. \A i \in 1..N + 1 : left'[stack'[i]] \subseteq preds[stack'[i]]
    <3> TAKE i \in 1..N + 1
    <3>1. CASE i = N + 1
      BY <1>1, <3>1
    <3>2. CASE i \in 1..N
      BY <1>1, <1>3, <3>2 DEF CycleInv, StackIsOpenVisits
    <3> QED BY <1>1, <3>1, <3>2
  <2>5. Len(stack') = N + 1 /\ Len(stack') - 1 = N
    BY <1>1
  <2>6. \A i, j \in 1..Len(stack') : stack'[i] = stack'[j] => i = j
    BY <2>1, <2>5
  <2>7. \A m \in Node : state'[m] = 1 <=> \E i \in 1..Len(stack') : stack'[i] = m
    BY <2>2, <2>5
  <2>8. \A i \in 1..Len(stack') - 1 : stack'[i + 1] \in preds'[stack'[i]]
    BY <2>3, <2>5
  <2>9. \A i \in 1..Len(stack') : left'[stack'[i]] \subseteq preds'[stack'[i]]
    BY <2>4, <2>5
  <2> QED BY <2>6, <2>7, <2>8, <2>9 DEF StackIsOpenVisits
<1>8. ScannedAreLeft'
  <2>0. Len(stack') = N + 1
    BY <1>1
  <2> SUFFICES ASSUME cyclic = {}, NEW i \in 1..N + 1,
                      NEW p \in (preds[stack'[i]] \cap Node) \ left'[stack'[i]]
               PROVE  state'[p] = 2 \/ (i < N + 1 /\ p = stack'[i + 1])
    BY <2>0 DEF ScannedAreLeft
  <2>1. CASE i = N + 1
    BY <1>1, <2>1
  <2>2. CASE i \in 1..N
    <3>1. stack'[i] = stack[i] /\ stack[i] \in Node \ {n}
      BY <1>1, <1>3, <2>2
    <3>2. CASE p \in left[stack[i]]
      <4>1. p = n
        BY <3>1, <3>2
      <4>2. i = N
        BY <1>1, <2>2, <3>1, <3>2
      <4> QED BY <1>1, <4>1, <4>2
    <3>3. CASE p \notin left[stack[i]]
      <4>1. state[p] = 2 \/ (i < N /\ p = stack[i + 1])
        BY <2>2, <3>1, <3>3 DEF CycleInv, ScannedAreLeft
      <4>2. state[p] = 2 => state'[p] = 2
        BY <1>2
      <4>3. i < N => stack[i + 1] = stack'[i + 1]
        BY <1>1, <2>2
      <4> QED BY <1>1, <2>2, <4>1, <4>2, <4>3
    <3> QED BY <3>2, <3>3
  <2> QED BY <1>1, <2>1, <2>2
<1> QED BY <1>5, <1>7, <1>8

\* An interval from 1 determines its length.
LEMMA IntervalLength == ASSUME NEW a \in Nat, NEW b \in Nat, 1..a = 1..b PROVE a = b
<1>1. a \in 1..a => a \in 1..b
  OBVIOUS
<1>2. b \in 1..b => b \in 1..a
  OBVIOUS
<1> QED BY <1>1, <1>2

\* What is left of a stack when its top is popped.
LEMMA ButLastFacts ==
  ASSUME NEW S, NEW s \in Seq(S), s # << >>
  PROVE  /\ Len(s) >= 1
         /\ Len(SubSeq(s, 1, Len(s) - 1)) = Len(s) - 1
         /\ \A j \in 1..Len(s) - 1 : SubSeq(s, 1, Len(s) - 1)[j] = s[j]
<1> DEFINE N == Len(s)
           L == Len(SubSeq(s, 1, N - 1))
<1>1. N >= 1 /\ N - 1 \in Nat /\ N - 1 \in 0..N
  OBVIOUS
<1>2. L = N - 1
  <2>1. SubSeq(s, 1, N - 1) = Restrict(s, 1..N - 1)
    BY <1>1, SubSeqRestrict
  <2>2. DOMAIN SubSeq(s, 1, N - 1) = 1..N - 1
    BY <2>1 DEF Restrict
  <2>3. SubSeq(s, 1, N - 1) \in Seq(S)
    OBVIOUS
  <2>4. L \in Nat /\ 1..L = 1..N - 1
    BY <2>2, <2>3, LenProperties
  <2> HIDE DEF L, N
  <2> QED BY <1>1, <2>4, IntervalLength
<1>3. \A j \in 1..N - 1 : SubSeq(s, 1, N - 1)[j] = s[j]
  BY <1>1
<1> QED BY <1>1, <1>2, <1>3

LEMMA CycleInvStep == CycleInv /\ TypeOK' /\ [Next]_vars => CycleInv'
<1> SUFFICES ASSUME CycleInv, TypeOK', [Next]_vars PROVE CycleInv'
  OBVIOUS
<1> USE DEF CycleInv
<1> DEFINE N == Len(stack)
<1>0. /\ stack \in Seq(Node) /\ N \in Nat
      /\ \A i \in 1..N : stack[i] \in Node
      /\ stack # << >> => N \in 1..N /\ Top = stack[N] /\ Top \in Node
      /\ preds \in [Node -> SUBSET Name] /\ left \in [Node -> SUBSET Name]
      /\ state \in [Node -> 0..2]
  BY DEF TypeOK, Top
<1>1. CASE VisitRoot
  <2>1. PICK n \in Node : /\ state[n] = 0 /\ Enter(n)
                          /\ left' = [left EXCEPT ![n] = preds[n]]
    BY <1>1 DEF VisitRoot, IsNext
  <2>2. /\ stack = << >> /\ phase = "cycles"
        /\ preds' = preds /\ cyclic' = cyclic /\ phase' = phase
    BY <1>1 DEF VisitRoot
  <2>3. StackIsOpenVisits' /\ ScannedAreLeft' /\ LeftIsAcyclic'
    <3>1. /\ left' \in [Node -> SUBSET Name] /\ left'[n] = preds[n]
          /\ \A m \in Node \ {n} : left'[m] = left[m]
      BY <1>0, <2>1
    <3>2. 1..Len(stack) - 1 = {}
      BY <2>2
    <3> QED BY <2>1, <2>2, <3>1, <3>2, EnterKeepsStack
  <2> QED BY <2>2, <2>3 DEF PhaseInv, ReportedHavePredecessor
<1>2. CASE SkipPredecessor
  <2>1. PICK p \in left[Top] : /\ p \in Node => state[p] = 2
                               /\ left' = [left EXCEPT ![Top] = @ \ {p}]
    BY <1>2 DEF SkipPredecessor
  <2>2. /\ stack # << >> /\ phase = "cycles"
        /\ UNCHANGED <<preds, phase, state, stack, cyclic>>
    BY <1>2 DEF SkipPredecessor
  <2>3. \A m \in Node : left'[m] \subseteq left[m] /\ left[m] \ left'[m] \subseteq {p}
    BY <1>0, <2>1
  <2>4. StackIsOpenVisits'
    BY <1>0, <2>2, <2>3 DEF StackIsOpenVisits
  <2>5. ScannedAreLeft'
    BY <1>0, <2>1, <2>2, <2>3 DEF ScannedAreLeft
  <2>6. LeftIsAcyclic' /\ PhaseInv' /\ ReportedHavePredecessor'
    BY <2>2 DEF LeftIsAcyclic, PhaseInv, ReportedHavePredecessor, Left
  <2> QED BY <2>4, <2>5, <2>6
<1>3. CASE VisitPredecessor
  <2>1. PICK p \in left[Top] \cap Node :
               /\ state[p] = 0 /\ Enter(p)
               /\ left' = [left EXCEPT ![Top] = @ \ {p}, ![p] = preds[p]]
    BY <1>3 DEF VisitPredecessor
  <2>2. /\ stack # << >> /\ phase = "cycles"
        /\ preds' = preds /\ cyclic' = cyclic /\ phase' = phase
    BY <1>3 DEF VisitPredecessor
  <2>3. p # Top
    BY <1>0, <2>1, <2>2 DEF StackIsOpenVisits
  <2>4. /\ left' \in [Node -> SUBSET Name] /\ left'[p] = preds[p]
        /\ left'[Top] = left[Top] \ {p}
        /\ \A m \in Node \ {p, Top} : left'[m] = left[m]
    BY <1>0, <2>1, <2>2, <2>3
  <2>5. \A i \in 1..Len(stack) - 1 : left'[stack[i]] = left[stack[i]]
    <3> TAKE i \in 1..Len(stack) - 1
    <3>1. stack[i] # Top /\ stack[i] \in Node
      BY <1>0, <2>2 DEF StackIsOpenVisits
    <3>2. stack[i] # p
      BY <1>0, <2>1, <3>1 DEF StackIsOpenVisits
    <3> QED BY <2>4, <3>1, <3>2
  <2>6. /\ \A m \in Node \ {p} : left'[m] \subseteq left[m]
        /\ \A m \in Node \ {p} : left[m] \ left'[m] \subseteq {p}
    BY <1>0, <2>2, <2>4
  <2>7. StackIsOpenVisits' /\ ScannedAreLeft' /\ LeftIsAcyclic'
    BY <2>1, <2>2, <2>4, <2>5, <2>6, EnterKeepsStack
  <2> QED BY <2>2, <2>7 DEF PhaseInv, ReportedHavePredecessor
<1>4. CASE CloseCycle
  <2>1. PICK p \in left[Top] \cap Node, i \in 1..N :
               /\ stack[i] = p
               /\ cyclic' = cyclic \cup {stack[j] : j \in i..N}
               /\ left' = [left EXCEPT ![Top] = @ \ {p}]
    BY <1>4 DEF CloseCycle
  <2>2. /\ stack # << >> /\ phase = "cycles"
        /\ UNCHANGED <<preds, phase, state, stack>>
    BY <1>4 DEF CloseCycle
  <2>3. cyclic' # {}
    BY <1>0, <2>1
  <2>4. StackIsOpenVisits'
    BY <1>0, <2>1, <2>2 DEF StackIsOpenVisits
  <2>5. ReportedHavePredecessor'
    <3> SUFFICES ASSUME NEW n \in cyclic' PROVE preds[n] \cap cyclic' # {}
      BY <2>2 DEF ReportedHavePredecessor
    <3>1. CASE n \in cyclic
      BY <2>1, <3>1 DEF ReportedHavePredecessor
    <3>2. CASE n \notin cyclic
      <4>1. PICK j \in i..N : n = stack[j]
        BY <2>1, <3>2
      <4>2. CASE j = N
        <5>1. p \in preds[Top]
          BY <1>0, <2>1, <2>2 DEF StackIsOpenVisits
        <5>2. p \in cyclic'
          BY <1>0, <2>1
        <5> QED BY <1>0, <2>2, <4>1, <4>2, <5>1, <5>2
      <4>3. CASE j # N
        <5>1. j \in 1..N - 1 /\ j + 1 \in i..N
          BY <1>0, <4>1, <4>3
        <5>2. stack[j + 1] \in preds[stack[j]]
          BY <5>1 DEF StackIsOpenVisits
        <5> QED BY <2>1, <4>1, <5>1, <5>2
      <4> QED BY <4>2, <4>3
    <3> QED BY <3>1, <3>2
  <2> QED BY <2>2, <2>3, <2>4, <2>5 DEF ScannedAreLeft, LeftIsAcyclic, PhaseInv
<1>5. CASE Leave
  <2>1. /\ stack # << >> /\ phase = "cycles" /\ left[Top] = {}
        /\ state' = [state EXCEPT ![Top] = 2]
        /\ stack' = SubSeq(stack, 1, N - 1)
        /\ UNCHANGED <<preds, phase, left, cyclic>>
    BY <1>5 DEF Leave
  <2>2. /\ Len(stack') = N - 1 /\ N >= 1
        /\ \A j \in 1..N - 1 : stack'[j] = stack[j]
    BY <1>0, <2>1, ButLastFacts
  <2>3. \A j \in 1..N - 1 : stack[j] # Top
    <3>1. \A i, j \in 1..N : stack[i] = stack[j] => i = j
      BY DEF StackIsOpenVisits
    <3>2. N \in 1..N /\ Top = stack[N]
      BY <1>0, <2>1
    <3> QED BY <1>0, <3>1, <3>2
  <2>4. StackIsOpenVisits'
    <3>1. \A m \in Node : state'[m] = 1 <=> \E j \in 1..N - 1 : stack[j] = m
      <4> TAKE m \in Node
      <4>1. CASE m = Top
        BY <1>0, <2>1, <2>3, <4>1
      <4>2. CASE m # Top
        <5>1. state'[m] = state[m]
          BY <1>0, <2>1, <4>2
        <5>2. \A j \in 1..N : stack[j] = m => j \in 1..N - 1
          BY <1>0, <2>1, <4>2
        <5>3. \A j \in 1..N - 1 : j \in 1..N
          BY <1>0
        <5> QED BY <5>1, <5>2, <5>3 DEF StackIsOpenVisits
      <4> QED BY <4>1, <4>2
    <3>2. \A m \in Node : state'[m] = 1 <=> \E j \in 1..Len(stack') : stack'[j] = m
      BY <2>2, <3>1
    <3>3. /\ \A i \in 1..N - 1 : i \in 1..N /\ stack[i] \in Node
          /\ \A i \in 1..(N - 1) - 1 : i \in 1..N - 1 /\ i + 1 \in 1..N - 1
      BY <1>0
    <3>4. \A i, j \in 1..Len(stack') : stack'[i] = stack'[j] => i = j
      BY <2>2, <3>3 DEF StackIsOpenVisits
    <3>5. \A i \in 1..Len(stack') - 1 : stack'[i + 1] \in preds'[stack'[i]]
      BY <2>1, <2>2, <3>3 DEF StackIsOpenVisits
    <3>6. \A i \in 1..Len(stack') : left'[stack'[i]] \subseteq preds'[stack'[i]]
      BY <2>1, <2>2, <3>3 DEF StackIsOpenVisits
    <3> QED BY <3>2, <3>4, <3>5, <3>6 DEF StackIsOpenVisits
  <2>5. \A m \in Node : state[m] = 2 => state'[m] = 2
    BY <1>0, <2>1
  <2>6. ScannedAreLeft'
    <3> SUFFICES ASSUME cyclic = {}, NEW j \in 1..N - 1,
                        NEW p \in (preds[stack[j]] \cap Node) \ left[stack[j]]
                 PROVE  state'[p] = 2 \/ (j < N - 1 /\ p = stack'[j + 1])
      BY <2>1, <2>2 DEF ScannedAreLeft
    <3>1. state[p] = 2 \/ (j < N /\ p = stack[j + 1])
      BY <1>0 DEF ScannedAreLeft
    <3>2. CASE state[p] = 2
      BY <2>5, <3>2
    <3>3. CASE p = stack[j + 1] /\ j + 1 = N
      BY <1>0, <2>1, <3>3
    <3>4. CASE p = stack[j + 1] /\ j + 1 # N
      BY <1>0, <2>2, <3>4
    <3> QED BY <3>1, <3>2, <3>3, <3>4
  <2>7. LeftIsAcyclic'
    <3> SUFFICES ASSUME cyclic = {}
                 PROVE  /\ \A n \in Left' : preds[n] \cap Node \subseteq Left'
                        /\ \A C \in SUBSET Left' :
                             C # {} => \E n \in C : preds[n] \cap C = {}
      BY <2>1 DEF LeftIsAcyclic
    <3>1. Left' = Left \cup {Top} /\ Top \notin Left /\ Left \subseteq Node
      <4>1. state[Top] = 1
        BY <1>0, <2>1 DEF StackIsOpenVisits
      <4> QED BY <1>0, <2>1, <4>1 DEF Left
    <3>2. preds[Top] \cap Node \subseteq Left
      BY <1>0, <2>1 DEF ScannedAreLeft, Left
    <3>3. \A n \in Left : preds[n] \cap Node \subseteq Left
      BY DEF LeftIsAcyclic
    <3>4. ASSUME NEW C \in SUBSET Left', C # {}
          PROVE  \E n \in C : preds[n] \cap C = {}
      <4>1. C \subseteq Node
        BY <1>0, <2>1, <3>1
      <4>2. CASE C \cap Left = {}
        <5>1. C = {Top}
          BY <3>1, <3>4, <4>2
        <5> QED BY <1>0, <2>1, <3>1, <3>2, <5>1
      <4>3. CASE C \cap Left # {}
        <5>1. PICK n \in C \cap Left : preds[n] \cap (C \cap Left) = {}
          BY <4>3 DEF LeftIsAcyclic
        <5> QED BY <3>3, <4>1, <5>1
      <4> QED BY <4>2, <4>3
    <3> QED BY <3>1, <3>2, <3>3, <3>4
  <2> QED BY <2>1, <2>4, <2>6, <2>7 DEF PhaseInv, ReportedHavePredecessor
<1>6. CASE StartReach
  <2>1. Left = Node
    BY <1>0, <1>6 DEF StartReach, StackIsOpenVisits, Left
  <2> QED
    BY <1>6, <2>1 DEF StartReach, StackIsOpenVisits, ScannedAreLeft,
       LeftIsAcyclic, PhaseInv, ReportedHavePredecessor, Left
<1>7. CASE Pop
  BY <1>7 DEF Pop, StackIsOpenVisits, ScannedAreLeft, LeftIsAcyclic,
     PhaseInv, ReportedHavePredecessor, Left
<1>8. CASE Finish
  BY <1>8 DEF Finish, StackIsOpenVisits, ScannedAreLeft, LeftIsAcyclic,
     PhaseInv, ReportedHavePredecessor, Left
<1>9. CASE UNCHANGED vars
  BY <1>9 DEF vars, StackIsOpenVisits, ScannedAreLeft, LeftIsAcyclic,
     PhaseInv, ReportedHavePredecessor, Left
<1> QED
  BY <1>1, <1>2, <1>3, <1>4, <1>5, <1>6, <1>7, <1>8, <1>9 DEF Next, Walk, Done

LEMMA CycleInvariant == Spec => []CycleInv
<1>1. Init => CycleInv
  BY CycleInvInit
<1>2. CycleInv /\ TypeOK' /\ [Next]_vars => CycleInv'
  BY CycleInvStep
<1> QED BY <1>1, <1>2, TypeCorrect, PTL DEF Spec

PathInv == StackIsPath /\ ReportedOnCycle

\* A predecessor of m is upstream of it, and upstream is transitive.
LEMMA UpstreamFacts ==
  ASSUME preds \in [Node -> SUBSET Name], Node \subseteq Name
  PROVE  /\ \A m \in Node : \A n \in preds[m] : UpstreamOf(n, m)
         /\ \A k, m, n \in Node : UpstreamOf(k, m) /\ UpstreamOf(n, k) => UpstreamOf(n, m)
BY DEF UpstreamOf

LEMMA PathInvStep == CycleInv /\ PathInv /\ TypeOK' /\ [Next]_vars => PathInv'
<1> SUFFICES ASSUME CycleInv, PathInv, TypeOK', [Next]_vars PROVE PathInv'
  OBVIOUS
<1> DEFINE N == Len(stack)
<1>0. /\ stack \in Seq(Node) /\ N \in Nat
      /\ \A i \in 1..N : stack[i] \in Node
      /\ stack # << >> => N \in 1..N /\ Top = stack[N] /\ Top \in Node
      /\ preds \in [Node -> SUBSET Name] /\ Node \subseteq Name
  BY NodeAssumption DEF CycleInv, TypeOK, Top
<1>a. preds' = preds
  BY DEF Next, Walk, Done, vars, VisitRoot, SkipPredecessor, VisitPredecessor,
         CloseCycle, Leave, StartReach, Pop, Finish
<1>b. \A m, n : UpstreamOf(n, m)' <=> UpstreamOf(n, m)
  BY <1>a DEF UpstreamOf
<1>c. ASSUME cyclic' = cyclic PROVE ReportedOnCycle'
  BY <1>b, <1>c DEF PathInv, ReportedOnCycle
<1>d. ASSUME stack' = stack PROVE StackIsPath'
  BY <1>b, <1>d DEF PathInv, StackIsPath
<1>1. CASE VisitRoot
  <2>1. stack = << >> /\ cyclic' = cyclic /\ Len(stack') = 1
    BY <1>1 DEF VisitRoot, Enter
  <2>2. StackIsPath'
    BY <2>1 DEF StackIsPath
  <2> QED BY <1>c, <2>1, <2>2 DEF PathInv
<1>2. CASE VisitPredecessor
  <2>1. PICK p \in left[Top] \cap Node : Enter(p)
    BY <1>2 DEF VisitPredecessor
  <2>2. stack # << >> /\ cyclic' = cyclic
    BY <1>2 DEF VisitPredecessor
  <2>3. /\ Len(stack') = N + 1 /\ stack'[N + 1] = p
        /\ \A i \in 1..N : stack'[i] = stack[i]
    BY <1>0, <2>1 DEF Enter
  <2>4. UpstreamOf(p, Top)
    <3>1. p \in preds[Top]
      BY <1>0, <2>1, <2>2 DEF CycleInv, StackIsOpenVisits
    <3> QED BY <1>0, <2>2, <3>1, UpstreamFacts
  <2>5. \A i \in 1..N : UpstreamOf(p, stack[i])
    <3> TAKE i \in 1..N
    <3>1. CASE i = N
      BY <1>0, <2>2, <2>4, <3>1
    <3>2. CASE i # N
      <4>1. UpstreamOf(Top, stack[i])
        BY <1>0, <2>2, <3>2 DEF PathInv, StackIsPath
      <4> QED BY <1>0, <2>2, <2>4, <4>1, UpstreamFacts
    <3> QED BY <3>1, <3>2
  <2>6. ASSUME NEW i \in 1..N + 1, NEW j \in 1..N + 1, i < j
        PROVE  UpstreamOf(stack'[j], stack'[i])
    <3>1. i \in 1..N /\ stack'[i] = stack[i]
      BY <1>0, <2>3, <2>6
    <3>2. CASE j = N + 1
      BY <2>3, <2>5, <3>1, <3>2
    <3>3. CASE j \in 1..N
      BY <2>3, <2>6, <3>1, <3>3 DEF PathInv, StackIsPath
    <3> QED BY <1>0, <3>2, <3>3
  <2>7. StackIsPath'
    BY <1>b, <2>3, <2>6 DEF StackIsPath
  <2> QED BY <1>c, <2>2, <2>7 DEF PathInv
<1>3. CASE CloseCycle
  <2>1. PICK p \in left[Top] \cap Node, i \in 1..N :
               /\ stack[i] = p
               /\ cyclic' = cyclic \cup {stack[j] : j \in i..N}
    BY <1>3 DEF CloseCycle
  <2>2. stack # << >> /\ stack' = stack
    BY <1>3 DEF CloseCycle
  <2>3. UpstreamOf(p, Top)
    <3>1. p \in preds[Top]
      BY <1>0, <2>1, <2>2 DEF CycleInv, StackIsOpenVisits
    <3> QED BY <1>0, <2>2, <3>1, UpstreamFacts
  <2>4. ASSUME NEW j \in i..N PROVE UpstreamOf(stack[j], stack[j])
    <3>1. j \in 1..N /\ stack[j] \in Node
      BY <1>0
    <3>2. UpstreamOf(p, stack[j])
      <4>1. CASE j = N
        BY <1>0, <2>2, <2>3, <4>1
      <4>2. CASE j # N
        <5>1. UpstreamOf(Top, stack[j])
          BY <1>0, <2>2, <3>1, <4>2 DEF PathInv, StackIsPath
        <5> QED BY <1>0, <2>1, <2>2, <2>3, <3>1, <5>1, UpstreamFacts
      <4> QED BY <4>1, <4>2
    <3>3. CASE j = i
      BY <2>1, <3>2, <3>3
    <3>4. CASE j # i
      <4>1. UpstreamOf(stack[j], p)
        BY <1>0, <2>1, <3>1, <3>4 DEF PathInv, StackIsPath
      <4> QED BY <1>0, <2>1, <3>1, <3>2, <4>1, UpstreamFacts
    <3> QED BY <3>3, <3>4
  <2>5. ReportedOnCycle'
    <3> SUFFICES ASSUME NEW n \in cyclic' PROVE UpstreamOf(n, n)
      BY <1>b DEF ReportedOnCycle
    <3>1. CASE n \in cyclic
      BY <3>1 DEF PathInv, ReportedOnCycle
    <3>2. CASE n \notin cyclic
      BY <2>1, <2>4, <3>2
    <3> QED BY <3>1, <3>2
  <2> QED BY <1>d, <2>2, <2>5 DEF PathInv
<1>4. CASE Leave
  <2>1. stack # << >> /\ cyclic' = cyclic /\ stack' = SubSeq(stack, 1, N - 1)
    BY <1>4 DEF Leave
  <2>2. Len(stack') = N - 1 /\ \A j \in 1..N - 1 : stack'[j] = stack[j]
    BY <1>0, <2>1, ButLastFacts
  <2>3. ASSUME NEW i \in 1..N - 1, NEW j \in 1..N - 1, i < j
        PROVE  UpstreamOf(stack'[j], stack'[i])
    <3>1. i \in 1..N /\ j \in 1..N
      BY <1>0
    <3>2. UpstreamOf(stack[j], stack[i])
      BY <2>3, <3>1 DEF PathInv, StackIsPath
    <3> QED BY <2>2, <3>2
  <2>4. StackIsPath'
    BY <1>b, <2>2, <2>3 DEF StackIsPath
  <2> QED BY <1>c, <2>1, <2>4 DEF PathInv
<1>5. CASE SkipPredecessor \/ StartReach \/ Pop \/ Finish \/ UNCHANGED vars
  <2>1. cyclic' = cyclic /\ stack' = stack
    BY <1>5 DEF SkipPredecessor, StartReach, Pop, Finish, vars
  <2> QED BY <1>c, <1>d, <2>1 DEF PathInv
<1> QED
  BY <1>1, <1>2, <1>3, <1>4, <1>5 DEF Next, Walk, Done

\* On every graph, what _cycle_members reports is on a cycle: it is among its
\* own upstream statements.
THEOREM ReportedOnCycleHolds == Spec => []ReportedOnCycle
<1>1. Init => PathInv
  BY DEF Init, PathInv, StackIsPath, ReportedOnCycle
<1>2. CycleInv /\ PathInv /\ TypeOK' /\ [Next]_vars => PathInv'
  BY PathInvStep
<1>3. PathInv => ReportedOnCycle
  BY DEF PathInv
<1> QED BY <1>1, <1>2, <1>3, CycleInvariant, TypeCorrect, PTL DEF Spec

\* _cycle_members returns the empty set exactly on the acyclic graphs: a
\* bundle with a cyclic lineage always gets an E_GRAPH_CYCLE, an acyclic one
\* never does.
THEOREM CycleReportedIffCyclicHolds == Spec => []CycleReportedIffCyclic
<1>1. CycleInv => CycleReportedIffCyclic
  <2> SUFFICES ASSUME CycleInv, phase # "cycles"
               PROVE  cyclic = {} <=> Acyclic(preds)
    BY DEF CycleReportedIffCyclic
  <2>0. DOMAIN preds = Node /\ cyclic \in SUBSET Node
    BY DEF CycleInv, TypeOK
  <2>1. ASSUME cyclic = {} PROVE Acyclic(preds)
    BY <2>0, <2>1 DEF CycleInv, PhaseInv, LeftIsAcyclic, Acyclic
  <2>2. ASSUME cyclic # {}, Acyclic(preds) PROVE FALSE
    BY <2>0, <2>2 DEF CycleInv, ReportedHavePredecessor, Acyclic
  <2> QED BY <2>1, <2>2
<1> QED BY <1>1, CycleInvariant, PTL

ReachInv ==
  /\ phase = "cycles" => pending = {} /\ reached = {}
  /\ phase # "cycles" => heads \subseteq reached \cup pending
  /\ phase = "done" => pending = {}
  /\ \A n \in reached \cap Node : preds[n] \subseteq reached \cup pending
  /\ \A C \in SUBSET Name :
       heads \subseteq C /\ (\A n \in C \cap Node : preds[n] \subseteq C)
         => reached \cup pending \subseteq C

\* reachable_from_heads returns the least set closed under predecessors that
\* holds the usable heads, in whatever order the loop pops its work list.
THEOREM ReachedIsLeastClosedHolds == Spec => []ReachedIsLeastClosed
<1>1. Init => ReachInv
  BY DEF Init, ReachInv
<1>2. TypeOK /\ ReachInv /\ [Next]_vars => ReachInv'
  <2> SUFFICES ASSUME TypeOK, ReachInv, [Next]_vars PROVE ReachInv'
    OBVIOUS
  <2>1. CASE VisitRoot \/ SkipPredecessor \/ VisitPredecessor \/ CloseCycle \/ Leave
    <3>1. UNCHANGED <<preds, heads, phase, pending, reached>>
      BY <2>1 DEF VisitRoot, SkipPredecessor, VisitPredecessor, CloseCycle, Leave
    <3> QED BY <3>1 DEF ReachInv
  <2>2. CASE StartReach
    BY <2>2 DEF StartReach, ReachInv
  <2>3. CASE Pop
    <3>1. phase = "reach" /\ UNCHANGED <<preds, heads, phase>>
      BY <2>3 DEF Pop
    <3>2. PICK n \in pending :
            IF n \in reached
            THEN pending' = pending \ {n} /\ reached' = reached
            ELSE /\ reached' = reached \cup {n}
                 /\ pending' = (pending \ {n}) \cup (IF n \in Node THEN preds[n] ELSE {})
      BY <2>3 DEF Pop
    <3>3. CASE n \in reached
      BY <3>1, <3>2, <3>3 DEF ReachInv
    <3>4. CASE n \notin reached
      <4>1. /\ reached' = reached \cup {n}
            /\ pending' = (pending \ {n}) \cup (IF n \in Node THEN preds[n] ELSE {})
        BY <3>2, <3>4
      <4>2. reached \cup pending \subseteq reached' \cup pending'
        BY <4>1
      <4>3. \A m \in reached' \cap Node : preds[m] \subseteq reached' \cup pending'
        BY <4>1, <4>2 DEF ReachInv
      <4>4. \A C \in SUBSET Name :
              heads \subseteq C /\ (\A m \in C \cap Node : preds[m] \subseteq C)
                => reached' \cup pending' \subseteq C
        BY <4>1 DEF ReachInv
      <4> QED BY <3>1, <4>2, <4>3, <4>4 DEF ReachInv
    <3> QED BY <3>3, <3>4
  <2>4. CASE Finish
    BY <2>4 DEF Finish, ReachInv
  <2>5. CASE UNCHANGED vars
    BY <2>5 DEF vars, ReachInv
  <2> QED BY <2>1, <2>2, <2>3, <2>4, <2>5 DEF Next, Walk, Done
<1>3. ReachInv => ReachedIsLeastClosed
  BY DEF ReachInv, ReachedIsLeastClosed
<1> QED BY <1>1, <1>2, <1>3, TypeCorrect, PTL DEF Spec
=============================================================================
