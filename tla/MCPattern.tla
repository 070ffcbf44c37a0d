------------------------------ MODULE MCPattern -----------------------------
(***************************************************************************)
(* An instance of PatternMatch: short texts from nothing, and texts that   *)
(* start inside a quantifier, a class, a group or an alternation.          *)
(***************************************************************************)
EXTENDS PatternLanguage

MCSeeds ==
  {<< >>, <<"a", "$">>, <<"LF">>,
   <<"a", "{">>, <<"a", "{", "1", ",">>, <<"^", "(", "a", "b", ")", "{", "1", ",">>,
   <<"[", "wide">>, <<"[", "a", "-">>, <<"[", "^", "\\">>,
   <<"[", "(", "-">>, <<"[", "(", "-", ")", "-">>,
   <<"(", "a", "|", "b">>, <<"(", "a", "*", ")">>,
   <<"a", "{", "0", "}", "|">>, <<"^", "(", "b", "|", "a", "{", "0", "}">>,
   <<"^", "(", "a", "|", "b", ")", "+", "b">>, <<"^", ".", "{", "1", ",", "2", "}">>}

MCTyped == {"(", ")", "*", ",", "-", "0", "[", "\\", "]", "^", "a", "|", "}"}

MCValues == {<< >>, <<"a">>, <<"b">>, <<"a", "b">>, <<"b", "a", "b">>, <<"a", "a", "LF">>}
=============================================================================
