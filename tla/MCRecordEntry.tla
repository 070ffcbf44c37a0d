---------------------------- MODULE MCRecordEntry ---------------------------
(***************************************************************************)
(* An instance of RecordEntry: statement 1 is trusted and of the bundle,   *)
(* statement 2 is neither; both sign dataset "set", statement 1 signs      *)
(* "other" too under its second subject.                                   *)
(***************************************************************************)
EXTENDS RecordEntry, TLC

MCPath == {"bundle.json", "s1", "s2", "set"}
MCContent == {"index", "index 2", "index both", "odd index", "envelope 1", "envelope 2", "set", "other"}

Map(d, s, c) == [stmt |-> d, subject |-> s, digest |-> c, path |-> "set"]
At(d, p) == [stmt |-> d, path |-> p]

MCIndexOf ==
  [c \in MCContent |->
     [fault |-> CASE c \in {"index", "index 2", "odd index"} -> "none"
                  [] c = "index both" -> "schema"
                  [] OTHER -> "json",
      attestations |-> CASE c = "index 2" -> {At(1, "s1"), At(2, "s2")}
                         [] c = "index both" -> {At(1, "s1"), At(1, "s2")}
                         [] OTHER -> {At(1, "s1")},
      artifacts |-> CASE c = "index 2" -> {Map(2, "data", "set")}
                      [] c = "odd index" -> {Map(1, "data", "other")}
                      [] OTHER -> {Map(1, "data", "set")}]]

MCStatementOf ==
  [c \in MCContent |-> CASE c = "envelope 1" -> {1} [] c = "envelope 2" -> {2} [] OTHER -> {}]

MCSubjects == 1 :> ("data" :> "set" @@ "more" :> "other") @@ 2 :> ("data" :> "set")

MCCommittedIn == [c \in MCContent |-> IF c \in {"set", "other"} THEN {"rows"} ELSE {}]

MCAsked == [stmt : {1, 2}, subject : {"data", "more"}, entry : {"rows", "columns"}]

Good == "bundle.json" :> "index" @@ "s1" :> "envelope 1" @@ "s2" :> Absent @@ "set" :> "set"

MCStartDisks ==
  {Good, [Good EXCEPT !["bundle.json"] = "index 2", !["s2"] = "envelope 2"],
   [Good EXCEPT !["s1"] = Absent], [Good EXCEPT !["set"] = "other"]}
=============================================================================
