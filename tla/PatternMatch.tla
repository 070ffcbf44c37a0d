---------------------------- MODULE PatternMatch ----------------------------
(***************************************************************************)
(* compile_pattern and CompiledPattern.search of pattern.py: somebody      *)
(* types a pattern, it is parsed (PatternSyntax), its automaton is built,  *)
(* and a value is searched one position per step.                          *)
(*                                                                         *)
(* States are numbered from 1 in the order _add is called, and 0 is None.  *)
(***************************************************************************)
EXTENDS PatternSyntax

CONSTANTS Seeds,          \* texts that typing starts from
          Typed,          \* the characters that are typed
          MaxTyped,       \* bound on how many
          Values,         \* the strings that are searched
          MaxLength,      \* max_length
          MaxStates,      \* max_states
          MaxOperations   \* max_operations of a search

ASSUME LimitsAssumption ==
  MaxTyped \in Nat /\ MaxLength \in Nat /\ MaxStates \in Nat /\ MaxOperations \in Nat

ASSUME TextsAssumption ==
  Seeds \subseteq Seq(Chars) /\ Typed \subseteq Chars /\ Values \subseteq Seq(Chars)

VARIABLES
  text, typed, phase,
  node, states, start,                    \* the compiled pattern
  value, position, active, operations, matched  \* of search

vars == <<text, typed, phase, node, states, start, value, position, active, operations, matched>>

\* sum
Total(f, m) ==
  LET Sum[k \in 0..m] == IF k = 0 THEN 0 ELSE Sum[k - 1] + f[k]
  IN  Sum[m]

\* Mutant of RepeatCount: an optional copy is counted without its split.
RepeatCountUnsplit(n, c) ==
  IF n.maximum = n.minimum THEN n.minimum * c
  ELSE IF n.maximum = Unbounded THEN (IF n.copy THEN n.minimum + 1 ELSE 1) * c + 1
  ELSE n.maximum * c

\* The states of a repetition of a node that has c of them.
RepeatCount(n, c) ==
  IF n.maximum = n.minimum THEN n.minimum * c
  ELSE IF n.maximum = Unbounded THEN (IF n.copy THEN n.minimum + 1 ELSE 1) * c + 1
  ELSE n.minimum * c + (n.maximum - n.minimum) * (c + 1)

\* _state_count, which decides whether a pattern is compiled at all.
stateCount[h \in Nat] ==
  [n \in Node[h] |->
     CASE n.kind \in {"concat", "alternate"} ->
            Total([k \in DOMAIN n.children |-> stateCount[h - 1][n.children[k]]], Len(n.children))
              + (IF n.kind = "concat" THEN 0 ELSE Len(n.children) - 1)
       [] n.kind = "repeat" -> RepeatCount(n, stateCount[h - 1][n.child])
       [] OTHER -> 1]
-----------------------------------------------------------------------------
(* The compiler.  A fragment is [states, start, outs], with the list of    *)
(* all states so far in it; outs are the fields yet to be patched.         *)

None == 0

State(n, out, out1) == [node |-> n, out |-> out, out1 |-> out1]
Split == [kind |-> "split"]
Final == [kind |-> "match"]

Fragment(ss, s, outs) == [states |-> ss, start |-> s, outs |-> outs]

patch(ss, outs, target) ==
  [k \in DOMAIN ss |->
     [ss[k] EXCEPT !.out = IF <<k, "out">> \in outs THEN target ELSE @,
                   !.out1 = IF <<k, "out1">> \in outs THEN target ELSE @]]

\* _concat: right was built after left, and holds left's states.
concat(left, right) ==
  IF left.start = None THEN right
  ELSE IF right.start = None THEN [left EXCEPT !.states = right.states]
  ELSE Fragment(patch(right.states, left.outs, right.start), left.start, right.outs)

\* A split in front of a fragment that ends in it: the loop of a star.
Star(f) ==
  LET split == Len(f.states) + 1
  IN  Fragment(patch(Append(f.states, State(Split, f.start, None)), f.outs, split),
               split, {<<split, "out1">>})

\* A split that may bypass a fragment.
Optional(f) ==
  LET split == Len(f.states) + 1
  IN  Fragment(Append(f.states, State(Split, f.start, None)), split, f.outs \cup {<<split, "out1">>})

(* What builds a fragment of a node takes the builder B of lower nodes, a  *)
(* function of the node and the states so far.                             *)

\* Nodes one after the other, behind f; those after the first m are optional.
Chain(B, nodes, m, f) ==
  LET Loop[k \in 0..Len(nodes)] ==
        IF k = 0 THEN f
        ELSE LET before == Loop[k - 1]
                 next == B[nodes[k], before.states]
             IN  concat(before, IF k <= m THEN next ELSE Optional(next))
  IN  Loop[Len(nodes)]

Empty(ss) == Fragment(ss, None, {})
Copies(n, m) == [k \in 1..m |-> n.child]

\* Mutant of repeat: a bounded repetition may be left only behind a copy of
\* its own.
repeatOnce(B, n, ss) ==
  LET looped == Star(B[n.child, ss])
      copied == Chain(B, Copies(n, n.minimum), n.minimum, Empty(ss))
  IN  IF n.maximum = Unbounded /\ ~n.copy
      THEN IF n.minimum = 0 THEN looped ELSE [looped EXCEPT !.start = B[n.child, ss].start]
      ELSE IF n.maximum = Unbounded THEN concat(copied, Star(B[n.child, copied.states]))
      ELSE Chain(B, Copies(n, n.maximum), n.maximum, Empty(ss))

\* _repeat
repeat(B, n, ss) ==
  LET looped == Star(B[n.child, ss])
      copied == Chain(B, Copies(n, n.minimum), n.minimum, Empty(ss))
  IN  IF n.maximum = Unbounded /\ ~n.copy
      THEN IF n.minimum = 0 THEN looped ELSE [looped EXCEPT !.start = B[n.child, ss].start]
      ELSE IF n.maximum = Unbounded THEN concat(copied, Star(B[n.child, copied.states]))
      ELSE Chain(B, Copies(n, n.maximum), n.minimum, Empty(ss))

\* The branches of an alternation are built from left to right, and joined by
\* splits from right to left.
Built(B, children, ss) ==
  LET Loop[k \in 0..Len(children)] ==
        IF k = 0 THEN Empty(ss) ELSE B[children[k], Loop[k - 1].states]
  IN  Loop

Joined(fragments, m) ==
  LET Loop[k \in 0..m - 1] ==   \* the alternation of the last k + 1 of m fragments
        IF k = 0 THEN fragments[m]
        ELSE LET right == Loop[k - 1]
                 split == Len(right.states) + 1
             IN  Fragment(Append(right.states, State(Split, fragments[m - k].start, right.start)),
                          split, fragments[m - k].outs \cup right.outs)
  IN  Loop[m - 1]

States == [node : Leaf \cup {Split, Final}, out : Nat, out1 : Nat]

\* _node, from the builder B of the nodes below it.
BuildFrom(B, n, ss) ==
  CASE n.kind = "concat" -> Chain(B, n.children, Len(n.children), Empty(ss))
    [] n.kind = "alternate" -> Joined(Built(B, n.children, ss), Len(n.children))
    [] n.kind = "repeat" -> repeat(B, n, ss)
    [] OTHER -> Fragment(Append(ss, State(n, None, None)), Len(ss) + 1, {<<Len(ss) + 1, "out">>})

build[h \in Nat] == [p \in Node[h] \X Seq(States) |-> BuildFrom(build[h - 1], p[1], p[2])]

\* compile: the match state comes last.
Compiled(n, h) ==
  LET f == build[h][n, << >>]
      match == Len(f.states) + 1
      all == Append(f.states, State(Final, None, None))
  IN  [states |-> IF f.start = None THEN all ELSE patch(all, f.outs, match),
       start |-> IF f.start = None THEN match ELSE f.start]
-----------------------------------------------------------------------------
Init ==
  /\ text \in Seeds /\ typed = 0 /\ phase = "typing"
  /\ node = Dot /\ states = << >> /\ start = None
  /\ value = << >>
  /\ position = 0 /\ active = {} /\ operations = 0 /\ matched = FALSE

\* The text is still being written.
Type(c) ==
  /\ phase = "typing" /\ typed < MaxTyped
  /\ text' = Append(text, c) /\ typed' = typed + 1
  /\ UNCHANGED <<phase, node, states, start, value, position, active, operations, matched>>

\* compile_pattern does not raise: the limits and the grammar are respected.
Compilable(t) ==
  /\ Len(t) <= MaxLength
  /\ Ok(parse(t))
  /\ stateCount[Height(t)][parse(t).node] + 1 <= MaxStates

Refuse ==
  /\ phase = "typing" /\ ~Compilable(text)
  /\ phase' = "refused"
  /\ UNCHANGED <<text, typed, node, states, start, value, position, active, operations, matched>>

Compile(v) ==
  /\ phase = "typing" /\ Compilable(text)
  /\ node' = parse(text).node
  /\ states' = Compiled(parse(text).node, Height(text)).states
  /\ start' = Compiled(parse(text).node, Height(text)).start
  /\ value' = v
  /\ phase' = "search"
  /\ UNCHANGED <<text, typed, position, active, operations, matched>>

\* Where add_state goes on to from a state at a position.
Follows(k, at) ==
  CASE states[k].node.kind = "split" -> {states[k].out, states[k].out1} \ {None}
    [] states[k].node.kind = "begin" -> IF at = 0 THEN {states[k].out} \ {None} ELSE {}
    [] states[k].node.kind = "end" -> IF at = Len(value) THEN {states[k].out} \ {None} ELSE {}
    [] OTHER -> {}

\* The states add_state visits, each once and each an operation; after as many
\* rounds as there are states, no other state is pending.
Visited(pending, at) ==
  LET Round[j \in 0..Len(states)] ==
        IF j = 0 THEN pending
        ELSE LET visited == Round[j - 1] IN visited \cup UNION {Follows(k, at) : k \in visited}
  IN  Round[Len(states)]

Accepts(k, c) ==
  LET n == states[k].node
      member == c \in n.values \/ \E r \in n.ranges : r[1] <= ord(c) /\ ord(c) <= r[2]
  IN  CASE n.kind = "literal" -> c = n.value
        [] n.kind = "dot" -> c # "LF"
        [] n.kind = "class" -> member # n.negated
        [] OTHER -> FALSE

Waiting(ks) == {k \in ks : states[k].node.kind \notin {"split", "begin", "end", "match"}}
Matches(ks) == \E k \in ks : states[k].node.kind = "match"

\* Mutant of Exhausted: the budget may be overrun by one.
ExhaustedLate(n) == n > MaxOperations + 1

\* count_operation
Exhausted(n) == n > MaxOperations

\* One iteration of the loop over the positions: the start is injected, and
\* unless the value is over, states that accept its next character move on,
\* each in a call of add_state of its own.
Advance ==
  /\ phase = "search"
  /\ LET last == position = Len(value)
         injected == Visited({start}, position)
         moving == IF last THEN {}
                   ELSE {k \in active \cup Waiting(injected) : Accepts(k, value[position + 1])}
         visits == [k \in moving |-> Visited({states[k].out} \ {None}, position + 1)]
         reached == UNION {visits[k] : k \in moving}
         total == operations + Cardinality(injected)
                    + Total([k \in DOMAIN states |-> IF k \in moving THEN Cardinality(visits[k]) ELSE 0],
                            Len(states))
     IN  IF Exhausted(total)
         THEN phase' = "exhausted" /\ UNCHANGED <<position, active, operations, matched>>
         ELSE /\ operations' = total
              /\ matched' = (matched \/ Matches(injected \cup reached))
              /\ active' = IF last THEN active ELSE Waiting(reached)
              /\ position' = IF last THEN position ELSE position + 1
              /\ phase' = IF last THEN "done" ELSE "search"
  /\ UNCHANGED <<text, typed, node, states, start, value>>

Over == phase \in {"refused", "exhausted", "done"} /\ UNCHANGED vars

Next == (\E c \in Typed : Type(c)) \/ Refuse \/ (\E v \in Values : Compile(v)) \/ Advance \/ Over

Spec == Init /\ [][Next]_vars
-----------------------------------------------------------------------------
\* The values the variables take; no state leads to one that does not exist.
TypeOK ==
  /\ typed \in 0..MaxTyped
  /\ phase \in {"typing", "refused", "search", "exhausted", "done"}
  /\ value \in Values \cup {<< >>} /\ position \in 0..Len(value)
  /\ active \subseteq DOMAIN states /\ operations \in 0..MaxOperations /\ matched \in BOOLEAN
  /\ start \in 0..Len(states)
  /\ \A k \in DOMAIN states : states[k].out \in 0..Len(states) /\ states[k].out1 \in 0..Len(states)

\* The assertion of compile_pattern: the count that was checked against the
\* limit beforehand is the number of states that are built.
CountIsExact ==
  phase = "search" => Len(states) = stateCount[Height(text)][node] + 1
=============================================================================
