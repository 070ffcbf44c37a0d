---------------------------- MODULE LineageWalk -----------------------------
(***************************************************************************)
(* The two walks over a finished lineage graph, one step at a time:        *)
(* _cycle_members (the depth-first search that ends build_graph) and       *)
(* reachable_from_heads, which _verify_bundle calls on its result.  The    *)
(* graph is any map from Node to sets over Name; a predecessor outside     *)
(* Node is a statement that is absent or not usable.                       *)
(*                                                                         *)
(*   state, stack, cyclic   the variables of _cycle_members; state is 0    *)
(*                          (new), 1 (on the stack) or 2 (left)            *)
(*   left                   what is left of the for loop of each open      *)
(*                          visit                                          *)
(*   pending, reached       the variables of reachable_from_heads.  The    *)
(*                          order and the repetitions of pending do not    *)
(*                          show in the set it returns: pending is a set   *)
(*                          and any member may be popped next.             *)
(***************************************************************************)
EXTENDS Integers, Sequences, LineageGraph

CONSTANTS Node, Name

ASSUME NodeAssumption == Node \subseteq Name /\ Name \subseteq Nat

VARIABLES preds, heads, phase, state, stack, left, cyclic, pending, reached

vars == <<preds, heads, phase, state, stack, left, cyclic, pending, reached>>

Init ==
  /\ preds \in [Node -> SUBSET Name]
  /\ heads \in SUBSET Node
  /\ phase = "cycles"
  /\ state = [n \in Node |-> 0]
  /\ stack = << >>
  /\ left = [n \in Node |-> {}]
  /\ cyclic = {}
  /\ pending = {}
  /\ reached = {}

Top == stack[Len(stack)]

\* p is what an iteration over the sorted set T yields next.
IsNext(p, T) == p \in T /\ \A q \in T : p <= q

Enter(n) ==
  /\ state' = [state EXCEPT ![n] = 1]
  /\ stack' = Append(stack, n)

\* The outer loop: visit the first node whose state is 0.
VisitRoot ==
  /\ phase = "cycles" /\ stack = << >>
  /\ \E n \in Node : /\ IsNext(n, {m \in Node : state[m] = 0})
                     /\ Enter(n)
                     /\ left' = [left EXCEPT ![n] = preds[n]]
  /\ UNCHANGED <<preds, heads, phase, cyclic, pending, reached>>

\* Mutant of SkipPredecessor: a predecessor that is still open is skipped too.
SkipVisited ==
  /\ phase = "cycles" /\ stack # << >>
  /\ \E p \in left[Top] : /\ IsNext(p, left[Top])
                          /\ p \in Node => state[p] # 0
                          /\ left' = [left EXCEPT ![Top] = @ \ {p}]
  /\ UNCHANGED <<preds, heads, phase, state, stack, cyclic, pending, reached>>

\* An absent predecessor, or one already left.
SkipPredecessor ==
  /\ phase = "cycles" /\ stack # << >>
  /\ \E p \in left[Top] : /\ IsNext(p, left[Top])
                          /\ p \in Node => state[p] = 2
                          /\ left' = [left EXCEPT ![Top] = @ \ {p}]
  /\ UNCHANGED <<preds, heads, phase, state, stack, cyclic, pending, reached>>

VisitPredecessor ==
  /\ phase = "cycles" /\ stack # << >>
  /\ \E p \in left[Top] \cap Node :
       /\ IsNext(p, left[Top]) /\ state[p] = 0
       /\ Enter(p)
       /\ left' = [left EXCEPT ![Top] = @ \ {p}, ![p] = preds[p]]
  /\ UNCHANGED <<preds, heads, phase, cyclic, pending, reached>>

\* Mutant of CloseCycle: the whole stack is reported, not the part from p.
CloseWholeStack ==
  /\ phase = "cycles" /\ stack # << >>
  /\ \E p \in left[Top] \cap Node :
       /\ IsNext(p, left[Top]) /\ state[p] = 1
       /\ cyclic' = cyclic \cup {stack[j] : j \in 1..Len(stack)}
       /\ left' = [left EXCEPT ![Top] = @ \ {p}]
  /\ UNCHANGED <<preds, heads, phase, state, stack, pending, reached>>

\* A predecessor on the stack: everything from it to the top is cyclic.
CloseCycle ==
  /\ phase = "cycles" /\ stack # << >>
  /\ \E p \in left[Top] \cap Node :
       /\ IsNext(p, left[Top]) /\ state[p] = 1
       /\ \E i \in 1..Len(stack) :
            /\ stack[i] = p
            /\ cyclic' = cyclic \cup {stack[j] : j \in i..Len(stack)}
       /\ left' = [left EXCEPT ![Top] = @ \ {p}]
  /\ UNCHANGED <<preds, heads, phase, state, stack, pending, reached>>

Leave ==
  /\ phase = "cycles" /\ stack # << >> /\ left[Top] = {}
  /\ state' = [state EXCEPT ![Top] = 2]
  /\ stack' = SubSeq(stack, 1, Len(stack) - 1)
  /\ UNCHANGED <<preds, heads, phase, left, cyclic, pending, reached>>

\* build_graph returns; reachable_from_heads starts with the usable heads.
StartReach ==
  /\ phase = "cycles" /\ stack = << >> /\ \A n \in Node : state[n] # 0
  /\ phase' = "reach"
  /\ pending' = heads
  /\ UNCHANGED <<preds, heads, state, stack, left, cyclic, reached>>

\* Mutant of Pop: predecessors outside the graph are not followed.
PopPresent ==
  /\ phase = "reach"
  /\ \E n \in pending :
       /\ reached' = reached \cup {n}
       /\ pending' = (pending \ {n}) \cup ((preds[n] \cap Node) \ reached')
  /\ UNCHANGED <<preds, heads, phase, state, stack, left, cyclic>>

\* Mutant of Pop: without the test that a statement was reached before.
PopAgain ==
  /\ phase = "reach"
  /\ \E n \in pending :
       /\ reached' = reached \cup {n}
       /\ pending' = (pending \ {n}) \cup (IF n \in Node THEN preds[n] ELSE {})
  /\ UNCHANGED <<preds, heads, phase, state, stack, left, cyclic>>

\* One iteration of the while loop.
Pop ==
  /\ phase = "reach"
  /\ \E n \in pending :
       IF n \in reached
       THEN /\ pending' = pending \ {n}
            /\ UNCHANGED reached
       ELSE /\ reached' = reached \cup {n}
            /\ pending' = (pending \ {n}) \cup (IF n \in Node THEN preds[n] ELSE {})
  /\ UNCHANGED <<preds, heads, phase, state, stack, left, cyclic>>

Finish ==
  /\ phase = "reach" /\ pending = {}
  /\ phase' = "done"
  /\ UNCHANGED <<preds, heads, state, stack, left, cyclic, pending, reached>>

Walk == \/ VisitRoot \/ SkipPredecessor \/ VisitPredecessor \/ CloseCycle \/ Leave
        \/ StartReach \/ Pop \/ Finish

Done == phase = "done" /\ UNCHANGED vars

Next == Walk \/ Done

\* One thread runs both loops to their end.
Spec == Init /\ [][Next]_vars /\ WF_vars(Walk)
-----------------------------------------------------------------------------
\* The values the variables of both walks take.
TypeOK ==
  /\ preds \in [Node -> SUBSET Name]
  /\ heads \in SUBSET Node
  /\ phase \in {"cycles", "reach", "done"}
  /\ state \in [Node -> 0..2]
  /\ stack \in Seq(Node)
  /\ left \in [Node -> SUBSET Name]
  /\ cyclic \in SUBSET Node
  /\ pending \in SUBSET Name
  /\ reached \in SUBSET Name

\* _cycle_members answers the question build_graph asks of it: it returns no
\* statement exactly when the graph has no cycle.
CycleReportedIffCyclic ==
  phase # "cycles" => (cyclic = {} <=> Acyclic(preds))

\* n is upstream of m: in every set that holds the predecessors of m and of its
\* own members.
UpstreamOf(n, m) ==
  \A C \in SUBSET Name :
    preds[m] \subseteq C /\ (\A k \in C \cap Node : preds[k] \subseteq C) => n \in C

\* Every statement reported as cyclic is upstream of itself: no statement that
\* is merely before or behind a cycle gets an E_GRAPH_CYCLE.
ReportedOnCycle ==
  \A n \in cyclic : UpstreamOf(n, n)

\* What both loops maintain: the inductive strengthening of the three
\* properties above and below, checked by TLC and used by the proofs.
Left == {n \in Node : state[n] = 2}

StackIsOpenVisits ==
  /\ \A i, j \in 1..Len(stack) : stack[i] = stack[j] => i = j
  /\ \A n \in Node : state[n] = 1 <=> \E i \in 1..Len(stack) : stack[i] = n
  /\ \A i \in 1..Len(stack) - 1 : stack[i + 1] \in preds[stack[i]]
  /\ \A i \in 1..Len(stack) : left[stack[i]] \subseteq preds[stack[i]]

\* While nothing is reported, the predecessors an open visit has dealt with
\* are left for good, except the one it is waiting for.
ScannedAreLeft ==
  cyclic = {} =>
    \A i \in 1..Len(stack) :
      \A p \in (preds[stack[i]] \cap Node) \ left[stack[i]] :
        state[p] = 2 \/ (i < Len(stack) /\ p = stack[i + 1])

LeftIsAcyclic ==
  cyclic = {} =>
    /\ \A n \in Left : preds[n] \cap Node \subseteq Left
    /\ \A C \in SUBSET Left : C # {} => \E n \in C : preds[n] \cap C = {}

PhaseInv ==
  phase # "cycles" => stack = << >> /\ Left = Node

ReportedHavePredecessor ==
  \A n \in cyclic : preds[n] \cap cyclic # {}

\* Whatever is higher on the stack is upstream of what is lower.
StackIsPath ==
  \A i, j \in 1..Len(stack) : i < j => UpstreamOf(stack[j], stack[i])

\* reachable_from_heads returns the least set that holds the usable heads and
\* every predecessor, absent ones included, of its members.
ReachedIsLeastClosed ==
  phase = "done" =>
    /\ heads \subseteq reached
    /\ \A n \in reached \cap Node : preds[n] \subseteq reached
    /\ \A C \in SUBSET Name :
         heads \subseteq C /\ (\A n \in C \cap Node : preds[n] \subseteq C)
           => reached \subseteq C

\* Both loops end: a statement is put on the stack once and reached once.
WalkEnds == <>(phase = "done")
=============================================================================
