---------------------------- MODULE PatternSyntax ---------------------------
(***************************************************************************)
(* The recursive-descent parser of pattern.py, over texts that are         *)
(* sequences of characters.  A character is one of Scalars, in code point  *)
(* order: "LF" is a control character and "wide" one beyond ASCII.         *)
(*                                                                         *)
(* A parse is [node, at]: what was read and the index after it.  Every     *)
(* PatternError is Fail, whatever its message.                             *)
(*                                                                         *)
(* Recursion is by height: Height(t) bounds how deep the parser's calls    *)
(* for t nest, and the height of the tree it makes.                        *)
(***************************************************************************)
EXTENDS Integers, Sequences, FiniteSets

CONSTANT MaxBound  \* the largest bound of a quantifier, 1000 in the code

ASSUME BoundAssumption == MaxBound \in Nat

Height(t) == 3 * Len(t) + 1

Scalars ==
  <<"LF", "$", "(", ")", "*", "+", ",", "-", ".", "0", "1", "2", "?", "[", "\\", "]", "^",
    "a", "b", "c", "n", "{", "|", "}", "wide">>

Chars == {Scalars[k] : k \in 1..Len(Scalars)}

ord(c) == CHOOSE k \in 1..Len(Scalars) : Scalars[k] = c
Ascii(c) == c # "wide"
Control(c) == c = "LF"

Outside == {".", "^", "$", "*", "+", "?", "{", "}", "[", "]", "(", ")", "|", "\\"}
Escapes(c) == IF c = "n" THEN {"LF"} ELSE {c} \cap (Outside \cup {"-"})
QuantifierStarts == {"?", "*", "+", "{"}

Unbounded == -1

Literal(c) == [kind |-> "literal", value |-> c]
Dot == [kind |-> "dot"]
Anchor(k) == [kind |-> k]
Class(values, ranges, negated) ==
  [kind |-> "class", values |-> values, ranges |-> ranges, negated |-> negated]
Concat(children) == IF Len(children) = 1 THEN children[1] ELSE [kind |-> "concat", children |-> children]
Alternate(children) == IF Len(children) = 1 THEN children[1] ELSE [kind |-> "alternate", children |-> children]
Repeat(child, q) ==
  [kind |-> "repeat", child |-> child, minimum |-> q.minimum, maximum |-> q.maximum, copy |-> q.copy]

IsAnchor(node) == node.kind \in {"begin", "end"}

Leaf ==
  [kind : {"literal"}, value : Chars] \cup [kind : {"dot", "begin", "end"}]
  \cup [kind : {"class"}, values : SUBSET Chars, ranges : SUBSET (Nat \X Nat), negated : BOOLEAN]

Composite(S) ==
  [kind : {"concat", "alternate"}, children : Seq(S) \ {<< >>}]
  \cup {r \in [kind : {"repeat"}, child : S,
              minimum : Nat, maximum : Nat \cup {Unbounded}, copy : BOOLEAN] :
         r.maximum = Unbounded \/ r.minimum <= r.maximum}

\* The trees of at most a height.
Node[h \in Nat] == IF h = 0 THEN {} ELSE Leaf \cup Composite(Node[h - 1])

ContainsRepeat[h \in Nat] ==
  [n \in Node[h] |->
     \/ n.kind = "repeat"
     \/ /\ n.kind \in {"concat", "alternate"}
        /\ \E k \in DOMAIN n.children : ContainsRepeat[h - 1][n.children[k]]]

\* Anchors stand at the two ends of an alternative of the whole pattern.
AnchorsPlaced(children, root) ==
  \A k \in DOMAIN children :
    IsAnchor(children[k]) =>
      root /\ k = (IF children[k].kind = "begin" THEN 1 ELSE Len(children))
-----------------------------------------------------------------------------
Fail == [node |-> <<"fail">>, at |-> 0]
Ok(p) == p.at > 0
Parsed(node, i) == [node |-> node, at |-> i]

peek(t, i) == IF i <= Len(t) THEN t[i] ELSE "none"

Digit(c) == c \in {"0", "1", "2"}

DigitsEnd(t, i) ==
  CHOOSE j \in i..Len(t) + 1 : ~Digit(peek(t, j)) /\ \A m \in i..j - 1 : Digit(peek(t, m))

DigitValue(c) == CHOOSE d \in 0..2 : c = <<"0", "1", "2">>[d + 1]

ValueOf(s) ==
  LET Read[k \in 0..Len(s)] == IF k = 0 THEN 0 ELSE 10 * Read[k - 1] + DigitValue(s[k])
  IN  Read[Len(s)]

\* _decimal: canonical, and within the bound.
decimal(t, i) ==
  LET digits == SubSeq(t, i, DigitsEnd(t, i) - 1)
  IN  IF \/ digits = << >>
         \/ Len(digits) > 1 /\ digits[1] = "0"
         \/ ValueOf(digits) \notin 0..MaxBound
      THEN Fail ELSE Parsed(ValueOf(digits), DigitsEnd(t, i))

Bounds(min, max, copy) == [minimum |-> min, maximum |-> max, copy |-> copy]

quantifier(t, i) ==
  LET c == peek(t, i)
      low == decimal(t, i + 1)
      high == decimal(t, low.at + 1)
  IN  CASE c = "?" -> Parsed(Bounds(0, 1, FALSE), i + 1)
        [] c = "*" -> Parsed(Bounds(0, Unbounded, FALSE), i + 1)
        [] c = "+" -> Parsed(Bounds(1, Unbounded, FALSE), i + 1)
        [] OTHER ->
             IF ~Ok(low) THEN Fail
             ELSE IF peek(t, low.at) = "}" THEN Parsed(Bounds(low.node, low.node, FALSE), low.at + 1)
             ELSE IF peek(t, low.at) # "," THEN Fail
             ELSE IF peek(t, low.at + 1) = "}"
             THEN Parsed(Bounds(low.node, Unbounded, TRUE), low.at + 2)
             ELSE IF ~Ok(high) \/ peek(t, high.at) # "}" \/ high.node < low.node THEN Fail
             ELSE Parsed(Bounds(low.node, high.node, FALSE), high.at + 1)

\* _escaped: the character a backslash at i stands for.
escaped(t, i, inClass) ==
  LET c == peek(t, i + 1)
  IN  IF Escapes(c) = {} \/ (c = "-" /\ ~inClass) THEN Fail
      ELSE Parsed(CHOOSE v \in Escapes(c) : TRUE, i + 2)

Dash == <<"-", FALSE>>

\* One iteration of the loop over the tokens, of which the next is number s.at:
\* a single character or a range.
NextMember(tokens, s) ==
  LET v == tokens[s.at]
      end == tokens[s.at + 2]
      single == s.at = Len(tokens) \/ tokens[s.at + 1] # Dash
  IN  IF s.at \notin 1..Len(tokens) THEN s
      ELSE IF v = Dash \/ (~single /\ s.at + 1 = Len(tokens)) THEN Fail
      ELSE IF single THEN Parsed([s.node EXCEPT !.values = @ \cup {v[1]}], s.at + 1)
      ELSE IF v[2] \/ end[2] \/ ~Ascii(v[1]) \/ ~Ascii(end[1]) \/ ord(v[1]) > ord(end[1]) THEN Fail
      ELSE Parsed([s.node EXCEPT !.ranges = @ \cup {<<ord(v[1]), ord(end[1])>>}], s.at + 3)

ClassMembers(tokens) ==
  LET Loop[k \in 0..Len(tokens)] ==
        IF k = 0 THEN Parsed([values |-> {}, ranges |-> {}], 1) ELSE NextMember(tokens, Loop[k - 1])
  IN  Loop[Len(tokens)]

(* The methods that call each other, and the loops, take the parser P, a   *)
(* function of the method and its arguments: the index and whether the     *)
(* alternation is root (a group ends at ")", the pattern only at its end). *)

\* What is left at i of the loop over a class: the tokens up to its "]", each
\* a character with whether it was escaped.
ClassTokens(P, t, i) ==
  LET c == peek(t, i)
      one == IF c = "\\" THEN escaped(t, i, TRUE)
             ELSE IF Control(c) THEN Fail ELSE Parsed(c, i + 1)
      rest == P["tokens", one.at, FALSE]
  IN  IF c = "none" THEN Fail
      ELSE IF c = "]" THEN Parsed(<< >>, i + 1)
      ELSE IF ~Ok(one) \/ ~Ok(rest) THEN Fail
      ELSE Parsed(<<<<one.node, c = "\\">>>> \o rest.node, rest.at)

characterClass(P, t, i) ==
  LET negated == peek(t, i + 1) = "^"
      tokens == ClassTokens(P, t, IF negated THEN i + 2 ELSE i + 1)
      members == ClassMembers(tokens.node)
  IN  IF ~Ok(tokens) \/ tokens.node = << >> \/ ~Ok(members) THEN Fail
      ELSE Parsed(Class(members.node.values, members.node.ranges, negated), tokens.at)

\* The loop of _alternation, over what is left of it at i; its body is
\* _alternative.
Branches(P, t, i, root) ==
  LET children == P["children", i, root]
      rest == P["branches", children.at + 1, root]
  IN  IF ~Ok(children) \/ children.node = << >> \/ ~AnchorsPlaced(children.node, root) THEN Fail
      ELSE IF peek(t, children.at) # "|" THEN Parsed(<<Concat(children.node)>>, children.at)
      ELSE IF ~Ok(rest) THEN Fail
      ELSE Parsed(<<Concat(children.node)>> \o rest.node, rest.at)

alternation(P, i, root) ==
  LET p == P["branches", i, root] IN IF Ok(p) THEN Parsed(Alternate(p.node), p.at) ELSE Fail

atom(P, t, i) ==
  LET c == peek(t, i)
      group == alternation(P, i + 1, FALSE)
      literal == escaped(t, i, FALSE)
  IN  CASE c = "." -> Parsed(Dot, i + 1)
        [] c = "^" -> Parsed(Anchor("begin"), i + 1)
        [] c = "$" -> Parsed(Anchor("end"), i + 1)
        [] c = "(" -> IF Ok(group) /\ peek(t, group.at) = ")" THEN Parsed(group.node, group.at + 1)
                      ELSE Fail
        [] c = "[" -> characterClass(P, t, i)
        [] c = "\\" -> IF Ok(literal) THEN Parsed(Literal(literal.node), literal.at) ELSE Fail
        [] OTHER -> IF c = "none" \/ c \in Outside \/ Control(c) THEN Fail
                    ELSE Parsed(Literal(c), i + 1)

\* Mutant of Repetition: a quantified group may be quantified once more.
RepetitionNested(t, a, q) ==
  IF IsAnchor(a.node) \/ ~Ok(q) \/ peek(t, q.at) \in QuantifierStarts THEN Fail
  ELSE Parsed(Repeat(a.node, q.node), q.at)

\* An atom a that a quantifier q follows.
Repetition(t, a, q) ==
  IF IsAnchor(a.node) \/ ContainsRepeat[Height(t)][a.node] \/ ~Ok(q) THEN Fail
  ELSE IF peek(t, q.at) \in QuantifierStarts THEN Fail
  ELSE Parsed(Repeat(a.node, q.node), q.at)

quantified(P, t, i) ==
  LET a == P["atom", i, FALSE]
  IN  IF ~Ok(a) \/ peek(t, a.at) \notin QuantifierStarts THEN a
      ELSE Repetition(t, a, quantifier(t, a.at))

\* The loop of _alternative behind a child q, and over what is left of it at i.
Onwards(P, q, root) ==
  LET rest == P["children", q.at, root]
  IN  IF ~Ok(q) \/ ~Ok(rest) THEN Fail ELSE Parsed(<<q.node>> \o rest.node, rest.at)

Children(P, t, i, root) ==
  IF peek(t, i) \in {"none", "|"} \/ (~root /\ peek(t, i) = ")") THEN Parsed(<< >>, i)
  ELSE Onwards(P, quantified(P, t, i), root)

Methods == {"atom", "children", "branches", "tokens"}

Called(P, t, method, i, root) ==
  CASE method = "atom" -> atom(P, t, i)
    [] method = "children" -> Children(P, t, i, root)
    [] method = "branches" -> Branches(P, t, i, root)
    [] method = "tokens" -> ClassTokens(P, t, i)

\* The parser when its calls nest at most h deep, and its outermost one.
Parser(t) ==
  LET P[h \in Nat] ==
        [call \in Methods \X (1..Len(t) + 1) \X BOOLEAN |->
           IF h = 0 THEN Fail ELSE Called(P[h - 1], t, call[1], call[2], call[3])]
  IN  P

\* parse: the whole text is one pattern.
parse(t) ==
  LET whole == alternation(Parser(t)[Height(t) - 1], 1, TRUE)
  IN  IF t = << >> \/ ~Ok(whole) \/ whole.at # Len(t) + 1 THEN Fail ELSE whole
=============================================================================
