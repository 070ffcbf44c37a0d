---------------------------- MODULE MCAssurance -----------------------------
(***************************************************************************)
(* Instances of Assurance.  The run is a capture o1 of "raw" and a         *)
(* transformation t1 of it into "model"; its repetition is o2 and t2.      *)
(* Platforms A and C are of one independence group, B is of another, O and *)
(* D assess captures, P does too but needs two signatures.                 *)
(***************************************************************************)
EXTENDS Assurance, TLC

MCName == {"a", "b", "c", "d", "p", "q", "r"}

(* Statements; an x marks the same statement in an envelope signed anew. *)

Raw == {<<"raw", "r">>}
Model == {<<"model", "m">>}

Origin(d) == [fault |-> FALSE, type |-> "origin", digest |-> d, subjects |-> Raw]

Transform(d) ==
  [fault |-> FALSE, type |-> "transform", digest |-> d, subjects |-> Model, inputs |-> <<"r">>,
   op |-> "train", tool |-> {"tool"}, parameters |-> {"defaults"}]

Statements ==
  "o1" :> Origin(1) @@ "o1x" :> Origin(1) @@ "o2" :> Origin(2)
  @@ "t1" :> Transform(3) @@ "t1x" :> Transform(3) @@ "t2" :> Transform(4)
  @@ "bare" :> [Transform(3) EXCEPT !.parameters = {}]
  @@ "other tool" :> [Transform(4) EXCEPT !.tool = {"other"}]
  @@ "alien" :> [Origin(9) EXCEPT !.type = "other"]
  @@ "torn" :> [Origin(9) EXCEPT !.fault = TRUE]
-----------------------------------------------------------------------------
(* Assessments. *)

By(k) == {[keyid |-> k, keyless |-> FALSE, good |-> TRUE]}

Capture(n, who, key, controls) == Assessment("origin", n, Raw, {"o1"}, controls, {}, who, By(key))
Training(n, who, key, c, hw) == Assessment("transform", n, Model, {c}, {}, hw, who, By(key))

A2 == Training(2, "A", "kA", "t1", {})

VSAs ==
  "O2" :> Capture(2, "O", "kO", {}) @@ "O3" :> Capture(3, "O", "kO", {"audit"})
  @@ "O2 with audit" :> Capture(2, "O", "kO", {"audit"})
  @@ "O3 no audit" :> Capture(3, "O", "kO", {}) @@ "D3" :> Capture(3, "D", "kO", {"audit"})
  @@ "P2" :> [Capture(2, "P", "kO", {}) EXCEPT !.sigs = By("kO") \cup By("kA")]
  @@ "P2 once" :> Capture(2, "P", "kO", {})
  @@ "A2" :> A2 @@ "A3" :> Training(3, "A", "kA", "t1", {"quote"})
  @@ "A3 no quote" :> Training(3, "A", "kA", "t1", {})
  @@ "A2 of x" :> Training(2, "A", "kA", "t1x", {})
  @@ "A2 failed" :> [A2 EXCEPT !.result = "FAILED", !.levels = {}]
  @@ "A2 unsorted" :> [A2 EXCEPT !.sorted = FALSE] @@ "A2 of raw" :> [A2 EXCEPT !.subjects = Raw]
  @@ "A2 forged" :> [A2 EXCEPT !.sigs = {[keyid |-> "kA", keyless |-> FALSE, good |-> FALSE]}]
  @@ "A2 by kB" :> [A2 EXCEPT !.sigs = By("kB")] @@ "A2 by nobody" :> [A2 EXCEPT !.sigs = By("k9")]
  @@ "A2 wide" :> [A2 EXCEPT !.evidence = {"t1", "o1"}]
  @@ "both" :> [A2 EXCEPT !.levels = {<<"origin", 2>>, <<"transform", 2>>}]
  @@ "Z2" :> [A2 EXCEPT !.terms = "Z"] @@ "B2 of t1" :> Training(2, "B", "kB", "t1", {})
  @@ "B2" :> Training(2, "B", "kB", "t2", {}) @@ "C2" :> Training(2, "C", "kA", "t2", {})
  @@ "B2 of other tool" :> Training(2, "B", "kB", "other tool", {})

MCEnvelope == Statements @@ VSAs
MCContent == DOMAIN MCEnvelope
-----------------------------------------------------------------------------
(* Policies and reports. *)

Rule(who, group, keys, levels) ==
  [terms |-> who, signers |-> keys, minimum |-> 1, allowed |-> levels, group |-> group,
   controls |-> {}, profiles |-> {}]

Grades(t) == {t} \X {2, 3}

CaptureRule == [Rule("O", "east", {"kO"}, Grades("origin"))
                  EXCEPT !.controls = {"audit"}, !.profiles = {"pin"}]

Rules ==
  {CaptureRule, [CaptureRule EXCEPT !.terms = "D", !.profiles = {}],
   [CaptureRule EXCEPT !.terms = "P", !.signers = {"kO", "kA"}, !.minimum = 2],
   Rule("A", "east", {"kA"}, Grades("transform") \cup Grades("origin")),
   Rule("B", "west", {"kB"}, Grades("transform")),
   Rule("C", "east", {"kA"}, Grades("transform"))}

Summary == [verifiers |-> Rules, required |-> {<<"origin", 2>>, <<"property", "authorized">>}]

Plain ==
  [digest |-> "policy", identities |-> {}, trustRoot |-> FALSE, pins |-> {"pin"},
   keys |-> "kA" :> [validFrom |-> {}, validUntil |-> {20}]
            @@ "kB" :> [validFrom |-> {10}, validUntil |-> {}]
            @@ "kO" :> [validFrom |-> {}, validUntil |-> {}],
   summary |-> {Summary}]

With(verifiers, required) == {[verifiers |-> verifiers, required |-> required]}

PolicyNames == {"plain", "silent", "doubled", "modest", "demanding"}

PolicyOf(n) ==
  CASE n = "plain"     -> Plain
    [] n = "silent"    -> [Plain EXCEPT !.summary = {}]
    [] n = "doubled"   -> [Plain EXCEPT !.summary =
                             With(Rules \cup {Rule("A", "west", {"kA"}, Grades("transform"))}, {})]
    [] n = "modest"    -> [Plain EXCEPT !.pins = {}, !.summary =
                             With({[r EXCEPT !.allowed = @ \ (Tracks \X {3})] : r \in Rules}, {})]
    [] n = "demanding" -> [Plain EXCEPT !.summary =
                             With(Rules, {<<"transform", 3>>, <<"property", "reproduced">>})]

AllChecks ==
  {"parse-strictly", "core-schemas", "index-payloads", "signatures", "authorization-thresholds",
   "authorization", "metadata-profiles", "artifact-profiles", "graph", "graph-dependency-artifacts",
   "roots-and-heads", "completeness-anchor", "freshness-anchors"}

Allowed(bytes, o, t) ==
  [bytes |-> bytes, fault |-> FALSE, policy |-> "policy", decision |-> "allow",
   passed |-> AllChecks, roots |-> {o}, profiles |-> {"pin"}, handoffOK |-> TRUE, anchored |-> TRUE,
   statements |-> o :> [type |-> "origin", core |-> TRUE] @@ t :> [type |-> "transform", core |-> TRUE],
   finals |-> Model, expected |-> {}, time |-> 10]

Denied(r, checks) == [r EXCEPT !.decision = "deny", !.passed = @ \ checks]

ReportNames == {"good", "unsigned", "untraced", "odd", "unrooted", "empty", "expected", "late",
                "edge", "early", "replayed", "unprofiled", "foreign", "torn", "origin only", "short",
                "hollow"}

ReportOf(n, bytes, o, t) ==
  LET g == Allowed(bytes, o, t)
  IN  CASE n = "good"        -> g
        [] n = "unsigned"    -> [Denied(g, {"signatures", "authorization"}) EXCEPT !.handoffOK = FALSE]
        [] n = "untraced"    -> Denied(g, {"graph", "completeness-anchor"})
        [] n = "odd"         -> [Denied(g, {"authorization"}) EXCEPT !.statements[o].core = FALSE]
        [] n = "unrooted"    -> [Denied(g, {"roots-and-heads"}) EXCEPT !.roots = {o, t}]
        [] n = "empty"       -> [Denied(g, AllChecks) EXCEPT !.finals = {}]
        [] n = "expected"    -> [Denied(g, {"artifact-profiles"}) EXCEPT !.finals = {}, !.expected = Model]
        [] n = "late"        -> [g EXCEPT !.time = 21]
        [] n = "edge"        -> [g EXCEPT !.time = 20]
        [] n = "early"       -> [g EXCEPT !.time = 9]
        [] n = "replayed"    -> [g EXCEPT !.anchored = FALSE]
        [] n = "unprofiled"  -> [g EXCEPT !.profiles = {}]
        [] n = "foreign"     -> [g EXCEPT !.policy = "another"]
        [] n = "torn"        -> [g EXCEPT !.fault = TRUE]
        [] n = "origin only" -> [g EXCEPT !.statements = o :> [type |-> "origin", core |-> TRUE]]
        [] n = "hollow"      -> [g EXCEPT !.finals = {}]
        [] n = "short"       -> [g EXCEPT !.finals = Raw]
-----------------------------------------------------------------------------
(* Scenarios: a summary that passes, with up to two departures. *)

Usual ==
  [policy |-> "plain", report |-> "good", again |-> "good", copy |-> FALSE, runs |-> 2, edits |-> 0,
   files |-> "a" :> "o1" @@ "b" :> "t1" @@ "c" :> "o2" @@ "d" :> "t2"
             @@ "p" :> "O3" @@ "q" :> "A2" @@ "r" :> "B2"]

FileOptions(n) ==
  CASE n \in {"a", "b"} -> {"o1x", "t1x", "bare", "alien", "torn", "o1", "A2", "none"}
    [] n \in {"c", "d"} -> {"other tool", "t1", "o1", "none"}
    [] n = "p" -> DOMAIN VSAs \cup {"o1"}
    [] n = "q" -> DOMAIN VSAs \cup {"none"}
    [] n = "r" -> {"C2", "A2", "B2 of other tool", "B2 of t1", "A2 of x", "Z2", "both"}

Departures(b) ==
  {[b EXCEPT !.policy = n] : n \in PolicyNames} \cup {[b EXCEPT !.report = n] : n \in ReportNames}
  \cup {[b EXCEPT !.again = n] : n \in ReportNames}
  \cup {[b EXCEPT !.copy = TRUE], [b EXCEPT !.runs = 1],
        [b EXCEPT !.copy = TRUE, !.files["r"] = "B2 of t1"]}
  \cup UNION {{[b EXCEPT !.files[n] = c] : c \in FileOptions(n)} : n \in MCName}

Choices == UNION {Departures(a) : a \in Departures(Usual)} \cup {[Usual EXCEPT !.edits = 1]}

\* A copy is the run itself, offered once more as its repetition.
RunsOf(ch) ==
  LET first == [report |-> ReportOf(ch.report, 1, 1, 3), directory |-> <<"a", "b">>,
                assessments |-> <<"p", "q">>]
      second == [report |-> IF ch.copy THEN ReportOf(ch.again, 1, 1, 3) ELSE ReportOf(ch.again, 2, 2, 4),
                 directory |-> IF ch.copy THEN <<"a", "b">> ELSE <<"c", "d">>,
                 assessments |-> <<"r">>]
  IN  IF ch.runs = 1 THEN <<first>> ELSE <<first, second>>

ScenarioOf(ch) ==
  [policy |-> PolicyOf(ch.policy), runs |-> RunsOf(ch), edits |-> ch.edits,
   files |-> [n \in Name |-> IF ch.files[n] = "none" THEN Absent ELSE ch.files[n]]]

MCScenarios == {ScenarioOf(ch) : ch \in Choices}
=============================================================================
