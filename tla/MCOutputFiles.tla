--------------------------- MODULE MCOutputFiles ----------------------------
(***************************************************************************)
(* Instances of OutputFiles with three commands and two paths.             *)
(***************************************************************************)
EXTENDS OutputFiles

MCCommand == {"a", "b", "c"}
MCPath == {"p", "q"}

PrivateKey(x) == <<"private", x>>
PublicKey(x) == <<"public", x>>
Json(x, k) == <<"json", x, k>>

MCSecret == {PrivateKey(x) : x \in MCCommand} \cup {<<"private", "old">>}
MCData == MCSecret \cup {PublicKey(x) : x \in MCCommand} \cup {<<"public", "old">>}
          \cup {Json(x, k) : x \in MCCommand, k \in {1, 2}}

Out(path, data, mode, guarded) ==
  [path |-> path, data |-> data, mode |-> mode, guarded |-> guarded]

KeyGenerate(x) == <<Out("p", PrivateKey(x), 600, FALSE), Out("q", PublicKey(x), 644, FALSE)>>
Attest(x, path, force) == <<Out(path, Json(x, 1), 644, ~force)>>
Summarize(x, force) == <<Out("p", Json(x, 1), 644, ~force), Out("q", Json(x, 2), 644, ~force)>>

Old(data, mode) == [data |-> data, mode |-> mode, synced |-> TRUE]

Nothing == [path \in MCPath |-> Absent]
OldPair == [path \in MCPath |-> IF path = "p" THEN Old(<<"private", "old">>, 600)
                                ELSE Old(<<"public", "old">>, 644)]
OldPublic == [OldPair EXCEPT !["p"] = Absent]

Plan(x, y, z) == [k \in MCCommand |-> IF k = "a" THEN x ELSE IF k = "b" THEN y ELSE z]

\* A command without outputs, such as "verify", is << >>.
MCScenarios ==
  {[plan |-> Plan(KeyGenerate("a"), KeyGenerate("b"), << >>), file |-> OldPair],
   [plan |-> Plan(Summarize("a", FALSE), Attest("b", "q", FALSE), Attest("c", "p", FALSE)),
    file |-> Nothing],
   [plan |-> Plan(Summarize("a", FALSE), Attest("b", "q", FALSE), Attest("c", "q", TRUE)),
    file |-> OldPublic]}
=============================================================================
