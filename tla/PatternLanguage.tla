--------------------------- MODULE PatternLanguage --------------------------
(***************************************************************************)
(* What a pattern means, as the specification of makotoPattern says it,    *)
(* to compare PatternMatch with: derivations of a text by the grammar, and *)
(* the positions a node can match up to.                                   *)
(***************************************************************************)
EXTENDS PatternMatch

RECURSIVE HasRepeat(_)
HasRepeat(n) ==
  \/ n.kind = "repeat"
  \/ n.kind \in {"concat", "alternate"} /\ \E k \in DOMAIN n.children : HasRepeat(n.children[k])

RECURSIVE GMembers(_), GPattern(_, _), GSequence(_), GBranches(_, _)

GChar(s) ==   \* an unescaped or escaped character of a class
  IF Len(s) = 1 THEN {c \in {s[1]} : c \notin {"]", "\\", "-"} /\ ~Control(c)}
  ELSE IF Len(s) = 2 /\ s[1] = "\\" THEN Escapes(s[2]) ELSE {}

GItem(s) ==
  {[values |-> {c}, ranges |-> {}] : c \in GChar(s)}
  \cup IF /\ Len(s) = 3 /\ s[2] = "-"
          /\ GChar(<<s[1]>>) # {} /\ GChar(<<s[3]>>) # {}
          /\ Ascii(s[1]) /\ Ascii(s[3]) /\ ord(s[1]) <= ord(s[3])
       THEN {[values |-> {}, ranges |-> {<<ord(s[1]), ord(s[3])>>}]} ELSE {}

GMembers(s) ==
  GItem(s) \cup
  UNION {{[values |-> m.values \cup r.values, ranges |-> m.ranges \cup r.ranges] :
            m \in GItem(SubSeq(s, 1, k)), r \in GMembers(SubSeq(s, k + 1, Len(s)))} :
         k \in 1..Len(s) - 1}

GClass(s, negated) == {Class(m.values, m.ranges, negated) : m \in GMembers(s)}

GAtom(s) ==
  LET inner == SubSeq(s, 2, Len(s) - 1)
  IN  CASE Len(s) = 1 ->
             CASE s[1] = "." -> {Dot}
               [] s[1] = "^" -> {Anchor("begin")}
               [] s[1] = "$" -> {Anchor("end")}
               [] OTHER -> IF s[1] \in Outside \/ Control(s[1]) THEN {} ELSE {Literal(s[1])}
        [] Len(s) = 2 -> IF s[1] = "\\" /\ s[2] # "-" THEN {Literal(c) : c \in Escapes(s[2])} ELSE {}
        [] OTHER ->
             IF s[1] = "(" /\ s[Len(s)] = ")" THEN GPattern(inner, FALSE)
             ELSE IF s[1] = "[" /\ s[Len(s)] = "]"
             THEN IF inner[1] = "^" THEN GClass(Tail(inner), TRUE) ELSE GClass(inner, FALSE)
             ELSE {}

Numerals == {<<"0">>, <<"1">>, <<"2">>}
GNumber(s) == {v \in 0..MaxBound : s \in Numerals /\ ValueOf(s) = v}

GQuantifier(s) ==
  LET body == SubSeq(s, 2, Len(s) - 1)
  IN  CASE s = <<"?">> -> {Bounds(0, 1, FALSE)}
        [] s = <<"*">> -> {Bounds(0, Unbounded, FALSE)}
        [] s = <<"+">> -> {Bounds(1, Unbounded, FALSE)}
        [] OTHER ->
             IF Len(s) < 3 \/ s[1] # "{" \/ s[Len(s)] # "}" THEN {}
             ELSE {Bounds(v, v, FALSE) : v \in GNumber(body)} \cup
                  IF Len(body) < 2 \/ body[2] # "," THEN {}
                  ELSE UNION {IF Len(body) = 2 THEN {Bounds(v, Unbounded, TRUE)}
                              ELSE {Bounds(v, w, FALSE) :
                                      w \in {w \in GNumber(SubSeq(body, 3, Len(body))) : v <= w}} :
                              v \in GNumber(<<body[1]>>)}

GQuantified(s) ==
  GAtom(s) \cup
  UNION {UNION {{Repeat(a, q) : a \in {a \in GAtom(SubSeq(s, 1, k)) : ~IsAnchor(a) /\ ~HasRepeat(a)}} :
                q \in GQuantifier(SubSeq(s, k + 1, Len(s)))} :
         k \in 1..Len(s) - 1}

GSequence(s) ==
  {<<q>> : q \in GQuantified(s)} \cup
  UNION {UNION {{<<q>> \o r : r \in GSequence(SubSeq(s, k + 1, Len(s)))} :
                q \in GQuantified(SubSeq(s, 1, k))} :
         k \in 1..Len(s) - 1}

GBranches(s, root) ==
  {<<Concat(c)>> : c \in {c \in GSequence(s) : AnchorsPlaced(c, root)}} \cup
  UNION {{<<b[1]>> \o r : b \in {b \in GBranches(SubSeq(s, 1, k - 1), root) : Len(b) = 1},
                          r \in GBranches(SubSeq(s, k + 1, Len(s)), root)} :
         k \in {k \in 2..Len(s) - 1 : s[k] = "|"}}

GPattern(s, root) == IF s = << >> THEN {} ELSE {Alternate(b) : b \in GBranches(s, root)}

RECURSIVE Ends(_, _, _), Times(_, _, _, _)

\* Where a match of n from one of the positions in from can end, in w.
Ends(n, w, from) ==
  LET Reads(Good(_)) == {i + 1 : i \in {i \in from : i < Len(w) /\ Good(w[i + 1])}}
      After[k \in 0..(IF n.kind = "concat" THEN Len(n.children) ELSE 0)] ==
        IF k = 0 THEN from ELSE Ends(n.children[k], w, After[k - 1])
  IN  CASE n.kind = "literal" -> Reads(LAMBDA c : c = n.value)
        [] n.kind = "dot" -> Reads(LAMBDA c : c # "LF")
        [] n.kind = "class" ->
             Reads(LAMBDA c : (c \in n.values \/ \E r \in n.ranges : ord(c) \in r[1]..r[2]) # n.negated)
        [] n.kind = "begin" -> from \cap {0}
        [] n.kind = "end" -> from \cap {Len(w)}
        [] n.kind = "concat" -> After[Len(n.children)]
        [] n.kind = "alternate" -> UNION {Ends(n.children[k], w, from) : k \in DOMAIN n.children}
        [] n.kind = "repeat" ->
             UNION {Times(n.child, k, w, from) :
                      k \in n.minimum..(IF n.maximum = Unbounded THEN n.minimum + Len(w) ELSE n.maximum)}

Times(n, k, w, from) == IF k = 0 THEN from ELSE Ends(n, w, Times(n, k - 1, w, from))

InLanguage(n, w) == Ends(n, w, 0..Len(w)) # {}

RECURSIVE Stateless(_), EmptyBranch(_)
\* A node that compiles to no state at all, as a{0} does.
Stateless(n) ==
  \/ n.kind = "concat" /\ \A k \in DOMAIN n.children : Stateless(n.children[k])
  \/ n.kind = "repeat" /\ n.maximum = n.minimum /\ (n.minimum = 0 \/ Stateless(n.child))

\* Some branch of an alternation is stateless.
EmptyBranch(n) ==
  \/ /\ n.kind \in {"concat", "alternate"}
     /\ \E k \in DOMAIN n.children :
          EmptyBranch(n.children[k]) \/ (n.kind = "alternate" /\ Stateless(n.children[k]))
  \/ n.kind = "repeat" /\ EmptyBranch(n.child)

RECURSIVE HyphenRange(_)
\* Some class has a range that ends in an unescaped hyphen, as [(--] does.
HyphenRange(n) ==
  \/ n.kind = "class" /\ \E r \in n.ranges : r[2] = ord("-")
  \/ n.kind \in {"concat", "alternate"} /\ \E k \in DOMAIN n.children : HyphenRange(n.children[k])
  \/ n.kind = "repeat" /\ HyphenRange(n.child)
-----------------------------------------------------------------------------
\* The parser, which looks one character ahead and never back, accepts every
\* text the grammar derives, with the one derivation there is, and beyond them
\* only the texts whose class ranges end in a hyphen: the grammar has no
\* literal "-" in a class, the parser takes one as the end of a range.
ParsesTheGrammar ==
  phase = "typing" =>
    GPattern(text, TRUE) = {n \in (IF Ok(parse(text)) THEN {parse(text).node} ELSE {}) : ~HyphenRange(n)}

\* The automaton finds a match exactly where the pattern's language has one: a
\* value is matched only if a substring of it is in the language, and then it
\* is, unless a branch of the pattern compiles to nothing.
SearchIsExact ==
  /\ phase \in {"search", "done"} /\ matched => InLanguage(node, value)
  /\ phase = "done" /\ InLanguage(node, value) => matched \/ EmptyBranch(node)

\* "Zero bounds are deliberate", and "the ban on an empty pattern or
\* alternative [...] does not forbid a well-formed expression whose language
\* contains the empty string": such a branch matches.
ZeroBoundsMatch ==
  phase = "done" => (matched <=> InLanguage(node, value))
=============================================================================
