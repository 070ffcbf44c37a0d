----------------------------- MODULE Assurance ------------------------------
(***************************************************************************)
(* Assurance levels and verification summaries (assurance.py): "makoto vsa *)
(* assess" makes assessments, "makoto vsa summarize" loads one run and its *)
(* assessments, and any number of repetitions of it, decides which levels  *)
(* and properties they establish, and issues a summary.  Other processes   *)
(* may change the files while they are loaded.                             *)
(*                                                                         *)
(* Bytes are their own digest.  Envelope[c] is what c holds as a DSSE      *)
(* envelope: [fault, type, digest, subjects, ...], where type is "origin"  *)
(* or "transform" (of the report's protocol version), "vsa", or anything   *)
(* else.  A statement also has inputs (the sorted digests of its inputs),  *)
(* op, tool and parameters; an assessment has terms (verifier, resource    *)
(* and assessment policy), result, levels (a set of <<track, level>>),     *)
(* sorted (are its subjects?), evidence (the digests of its                *)
(* inputAttestations) and sigs.  A report is a record                      *)
(*   [bytes, fault, policy, decision, passed (checks that pass),           *)
(*    statements : digest -> [type, core], roots, profiles (that pass),    *)
(*    handoffOK, anchored, finals, expected, time]                         *)
(* and a run is [report, directory (names in order), assessments].  Run 1  *)
(* is the one summarized, the others are its repetitions.                  *)
(*                                                                         *)
(* Not here: the wire form of a VSA, URIs, timestamps and descriptors.     *)
(***************************************************************************)
EXTENDS TrustPolicy, Sequences

CONSTANTS Name, Content, Envelope, Absent, NoBytes,
          Scenarios,   \* the [policy, runs, files, edits] a command may start from
          MaxEdits     \* bound on the changes other processes make

ASSUME AbsentAssumption == Absent \notin Content /\ NoBytes \notin Content \cup {Absent}
ASSUME EditsAssumption ==
  MaxEdits \in Nat /\ \A s \in Scenarios : s.edits \in 0..MaxEdits

Tracks == {"origin", "transform"}

\* The files, and at least one run, whose directory and assessments they are.
ASSUME RunsAssumption ==
  \A s \in Scenarios :
    /\ s.files \in [Name -> Content \cup {Absent}]
    /\ Len(s.runs) \in Nat \ {0} /\ DOMAIN s.runs = 1..Len(s.runs)
    /\ \A k \in DOMAIN s.runs :
         s.runs[k].directory \in Seq(Name) /\ s.runs[k].assessments \in Seq(Name)

\* What the schema of a trust policy demands of its verificationSummary.
ASSUME PolicyAssumption ==
  \A s \in Scenarios : \A c \in s.policy.summary :
    /\ s.policy.identities \cap DOMAIN s.policy.keys = {}
    /\ IsFiniteSet(c.verifiers)
    /\ \A r \in c.verifiers :
         /\ IsFiniteSet(r.signers) /\ r.signers \subseteq DOMAIN s.policy.keys
         /\ r.minimum \in Nat /\ r.allowed \subseteq Tracks \X {2, 3}

\* The checks of a lineage that is traceable.
TracingChecks == {"core-schemas", "graph", "graph-dependency-artifacts", "roots-and-heads",
                  "completeness-anchor"}

\* Reports are the verifier's: an allow has no check that did not pass.
ASSUME ReportAssumption ==
  \A s \in Scenarios : \A k \in DOMAIN s.runs :
    s.runs[k].report.decision = "allow" => TracingChecks \subseteq s.runs[k].report.passed

\* _validate_vsa_statement: at most one level of a track.
ASSUME LevelsAssumption ==
  \A c \in Content : Envelope[c].type = "vsa" =>
    \A x, y \in Envelope[c].levels : x[1] = y[1] /\ x[1] \in Tracks => x = y

VARIABLES
  in,           \* the trust policy, the runs, and how often files may change
  files,        \* Name -> Content or Absent
  edits, pc,
  jobs,         \* what is still to be read: <<"list" | "run" | "vsa", run, name>>
  raw,          \* the bytes of the first of the two reads of a file
  loaded,       \* run -> [attestations : a set of [name, raw, bytes],
                \*         assessments : a sequence of them]
  at,           \* <<run, assessment>> that is looked at next
  best, groups, \* run -> track -> best accepted level, accepted groups
  diagnostics, base, reproduced, verified, passed, summary

vars == <<in, files, edits, pc, jobs, raw, loaded, at, best, groups, diagnostics, base,
          reproduced, verified, passed, summary>>

outcome == <<at, best, groups, diagnostics, base, reproduced, verified, passed, summary>>

Runs == DOMAIN in.runs

Init ==
  /\ \E s \in Scenarios :
       /\ in = [policy |-> s.policy, runs |-> s.runs, edits |-> s.edits]
       /\ files = s.files
       /\ jobs = <<<<"list", 1, "">>>>
       /\ loaded = [k \in DOMAIN s.runs |-> [attestations |-> {}, assessments |-> << >>]]
       /\ best = [k \in DOMAIN s.runs |-> [t \in Tracks |-> 0]]
       /\ groups = [k \in DOMAIN s.runs |-> [t \in Tracks |-> {}]]
  /\ edits = 0 /\ pc = "load" /\ raw = NoBytes /\ at = <<1, 1>>
  /\ base = [t \in Tracks |-> 0] /\ diagnostics = {} /\ reproduced = FALSE
  /\ verified = {} /\ passed = FALSE /\ summary = {}

\* AssuranceError, CliInputError or an error of a parser: nothing is issued.
Raise ==
  /\ pc' = "raised"
  /\ UNCHANGED <<in, files, edits, jobs, raw, loaded, outcome>>
-----------------------------------------------------------------------------
(* Loading.  A run that does not match its report is refused right after it *)
(* was read; here that is decided when everything is read, which makes no   *)
(* difference to what is refused.                                           *)

Job == Head(jobs)

\* What is there of the names d, in their order.
Listings(d) ==
  LET there == {i \in DOMAIN d : files[d[i]] # Absent}
  IN  {[j \in DOMAIN h |-> d[h[j]]] :
         h \in {g \in [1..Cardinality(there) -> there] :
                 \A i, j \in DOMAIN g : i < j => g[i] < g[j]}}

\* The report is read and the directory listed, before the first envelope of
\* it is; then come the run's assessments and the next run.
ListDirectory ==
  /\ pc = "load" /\ jobs # << >> /\ Job[1] = "list"
  /\ LET k == Job[2]
         run == in.runs[k]
         Jobs(kind, names) == [i \in DOMAIN names |-> <<kind, k, names[i]>>]
     IN  \/ run.report.fault /\ Raise
         \/ /\ ~run.report.fault
            /\ \E listed \in Listings(run.directory) :
                 jobs' = Jobs("run", listed) \o Jobs("vsa", run.assessments)
                         \o (IF k + 1 \in Runs THEN <<<<"list", k + 1, "">>>> ELSE << >>)
            /\ UNCHANGED <<in, files, edits, pc, raw, loaded, outcome>>

\* path.read_bytes(), for the digest.
ReadBytes ==
  /\ pc = "load" /\ jobs # << >> /\ Job[1] # "list" /\ raw = NoBytes
  /\ \/ files[Job[3]] = Absent /\ Raise
     \/ /\ files[Job[3]] # Absent
        /\ raw' = files[Job[3]]
        /\ UNCHANGED <<in, files, edits, pc, jobs, loaded, outcome>>

Loadable(c, kind) ==
  c # Absent /\ ~Envelope[c].fault /\ (kind = "vsa" => Envelope[c].type = "vsa")

\* load_attestation, which reads the file once more.
LoadAttestation ==
  /\ pc = "load" /\ raw # NoBytes
  /\ LET c == files[Job[3]]
         k == Job[2]
         item == [name |-> Job[3], raw |-> raw, bytes |-> c]
     IN  \/ ~Loadable(c, Job[1]) /\ Raise
         \/ /\ Loadable(c, Job[1])
            /\ raw' = NoBytes
            /\ jobs' = Tail(jobs)
            /\ loaded' =
                 IF Job[1] = "vsa"
                 THEN [loaded EXCEPT ![k].assessments = Append(@, item)]
                 ELSE IF Envelope[c].type = "vsa" THEN loaded
                 ELSE [loaded EXCEPT ![k].attestations = @ \cup {item}]
            /\ UNCHANGED <<in, files, edits, pc, outcome>>

Digests(k) == {Envelope[e.bytes].digest : e \in loaded[k].attestations}

\* The supplied statements are exactly the report's, each once.
MatchesReport(k) ==
  LET report == in.runs[k].report
  IN  /\ Cardinality(Digests(k)) = Cardinality(loaded[k].attestations)
      /\ Digests(k) = {d \in DOMAIN report.statements : report.statements[d].type \in Tracks}
-----------------------------------------------------------------------------
(* The levels a run has by itself. *)

Track(k, t) == {e \in loaded[k].attestations : Envelope[e.bytes].type = t}

Report == in.runs[1].report

\* _base_origin_level
OriginTraceable ==
  /\ Track(1, "origin") # {}
  /\ {"parse-strictly", "core-schemas", "index-payloads", "signatures"} \subseteq Report.passed
  /\ \A d \in DOMAIN Report.statements :
       Report.statements[d].type = "origin" => Report.statements[d].core
  /\ Report.roots = {Envelope[e.bytes].digest : e \in Track(1, "origin")}

\* _base_transform_level
TransformTraceable ==
  /\ Track(1, "transform") # {}
  /\ TracingChecks \subseteq Report.passed

StartEvaluation ==
  /\ pc = "load" /\ jobs = << >>
  /\ LET ok == /\ \A k \in Runs : MatchesReport(k)
               /\ in.policy.summary # {}
               /\ Report.policy = in.policy.digest
     IN  \/ ~ok /\ Raise
         \/ /\ ok
            /\ base' = [t \in Tracks |->
                          IF t = "origin" THEN (IF OriginTraceable THEN 1 ELSE 0)
                          ELSE IF TransformTraceable THEN 1 ELSE 0]
            /\ diagnostics' =
                 {x \in {<<"origin", "level 1">>} : ~OriginTraceable}
                 \cup {x \in {<<"transform", "level 1">>} :
                         Track(1, "transform") # {} /\ ~TransformTraceable}
            /\ pc' = "assess"
            /\ UNCHANGED <<in, files, edits, jobs, raw, loaded, at, best, groups, reproduced,
                           verified, passed, summary>>
-----------------------------------------------------------------------------
(* Assessments. *)

Configuration == CHOOSE c \in in.policy.summary : TRUE

MatchingRules(v) == {r \in Configuration.verifiers : r.terms = v.terms}

TrustedVSA(v) == Cardinality(MatchingRules(v)) = 1 /\ v.result = "PASSED"

RuleOf(v) == CHOOSE r \in MatchingRules(v) : TRUE

\* The configured keys that signed it well and are valid at the time the run
\* was verified.
Assessors(v, k) ==
  {s.keyid : s \in {x \in v.sigs : /\ Cryptographic(in.policy, x) = "pass"
                                   /\ x.keyid \in RuleOf(v).signers
                                   /\ KeyValidAt(in.policy, x.keyid, in.runs[k].report.time)}}

SignedVSA(v, k) == Cardinality(Assessors(v, k)) >= RuleOf(v).minimum

Claims(v, t) == {l[2] : l \in {x \in v.levels \cap RuleOf(v).allowed : x[1] = t}}

Claimed(v, t) ==
  LET ns == {0} \cup Claims(v, t) IN CHOOSE n \in ns : \A m \in ns : m <= n

TrackSubjects(k, t) == UNION {Envelope[e.bytes].subjects : e \in Track(k, t)}

ExpectedInputs(v, k, t) ==
  {e.raw : e \in Track(k, t)}
  \cup (IF t = "origin" /\ Claimed(v, t) >= 3 THEN RuleOf(v).controls ELSE {})

\* Anything more than the run's envelopes is hardware evidence.
InputsMatch(v, k, t) ==
  IF t = "transform" /\ Claimed(v, t) >= 3 THEN ExpectedInputs(v, k, t) \subseteq v.evidence
  ELSE v.evidence = ExpectedInputs(v, k, t)

\* _required_profiles_pass
RequiredProfilesPass(k, pins) == pins # {} /\ pins \subseteq in.runs[k].report.profiles

HoldsThree(v, k, t) ==
  IF t = "origin" THEN RequiredProfilesPass(k, RuleOf(v).profiles)
  ELSE v.evidence # ExpectedInputs(v, k, t)

\* The level of a track that a trusted and signed assessment is accepted for,
\* and the diagnostic it leaves.
Verdict(v, k, t) ==
  LET claimed == Claimed(v, t)
  IN  IF claimed < 2 THEN [level |-> 0, code |-> {}]
      ELSE IF ~v.sorted \/ v.subjects # TrackSubjects(k, t)
      THEN [level |-> 0, code |-> {<<t, "subjects">>}]
      ELSE IF ~InputsMatch(v, k, t) THEN [level |-> 0, code |-> {<<t, "inputs">>}]
      ELSE IF claimed >= 3 /\ ~HoldsThree(v, k, t)
      THEN [level |-> 2, code |-> {<<t, "level 3">>}]
      ELSE [level |-> claimed, code |-> {}]

\* A claim about a track of which the run has no statement: the subjects to
\* compare with are empty, and _sorted_subjects raises.
Unanswerable(v, k) == \E t \in Tracks : Claimed(v, t) >= 2 /\ Track(k, t) = {}

\* Only the run that is summarized has its diagnostics reported.
Diagnose(k, codes) == diagnostics' = IF k = 1 THEN diagnostics \cup codes ELSE diagnostics

\* Mutant of Accept: the last accepted level counts.
AcceptLast(v, k) ==
  /\ best' = [best EXCEPT ![k] = [t \in Tracks |-> IF Verdict(v, k, t).level >= 2
                                                   THEN Verdict(v, k, t).level ELSE @[t]]]
  /\ groups' = [groups EXCEPT ![k] =
                  [t \in Tracks |-> IF Verdict(v, k, t).level >= 2
                                    THEN @[t] \cup {RuleOf(v).group} ELSE @[t]]]
  /\ Diagnose(k, UNION {Verdict(v, k, t).code : t \in Tracks})

\* Mutant of Accept: the group of a rejected claim counts as well.
AcceptAnyGroup(v, k) ==
  /\ best' = [best EXCEPT ![k] = [t \in Tracks |-> IF Verdict(v, k, t).level > @[t]
                                                   THEN Verdict(v, k, t).level ELSE @[t]]]
  /\ groups' = [groups EXCEPT ![k] =
                  [t \in Tracks |-> IF Claimed(v, t) >= 2
                                    THEN @[t] \cup {RuleOf(v).group} ELSE @[t]]]
  /\ Diagnose(k, UNION {Verdict(v, k, t).code : t \in Tracks})

Accept(v, k) ==
  /\ best' = [best EXCEPT ![k] = [t \in Tracks |-> IF Verdict(v, k, t).level > @[t]
                                                   THEN Verdict(v, k, t).level ELSE @[t]]]
  /\ groups' = [groups EXCEPT ![k] =
                  [t \in Tracks |-> IF Verdict(v, k, t).level >= 2
                                    THEN @[t] \cup {RuleOf(v).group} ELSE @[t]]]
  /\ Diagnose(k, UNION {Verdict(v, k, t).code : t \in Tracks})

\* One iteration of the loop of _accepted_assessments.
Assess ==
  /\ pc \in {"assess", "reproduce"}
  /\ at[1] \in Runs /\ at[2] \in DOMAIN loaded[at[1]].assessments
  /\ pc = "reproduce" => in.runs[at[1]].report.policy = in.policy.digest
  /\ LET k == at[1]
         v == Envelope[loaded[k].assessments[at[2]].bytes]
     IN  \/ /\ TrustedVSA(v) /\ SignedVSA(v, k) /\ Unanswerable(v, k)
            /\ Raise
         \/ /\ \/ /\ ~TrustedVSA(v)
                  /\ Diagnose(k, {<<"assessment", "trust">>})
                  /\ UNCHANGED <<best, groups>>
               \/ /\ TrustedVSA(v) /\ ~SignedVSA(v, k)
                  /\ Diagnose(k, {<<"assessment", "signature">>})
                  /\ UNCHANGED <<best, groups>>
               \/ /\ TrustedVSA(v) /\ SignedVSA(v, k) /\ ~Unanswerable(v, k)
                  /\ Accept(v, k)
            /\ at' = <<k, at[2] + 1>>
            /\ UNCHANGED <<in, files, edits, pc, jobs, raw, loaded, base, reproduced, verified,
                           passed, summary>>
-----------------------------------------------------------------------------
(* Reproduction. *)

FinalSubjects(k) ==
  LET report == in.runs[k].report
  IN  IF report.finals # {} THEN report.finals ELSE report.expected

NodeOf(e) ==
  LET st == Envelope[e.bytes]
  IN  <<st.inputs, st.op, st.tool, st.parameters, st.subjects>>

\* Every transformation names its tool and its parameters by digest.
Comparable(k) ==
  \A e \in Track(k, "transform") : Envelope[e.bytes].tool # {} /\ Envelope[e.bytes].parameters # {}

\* The subjects of the captures, each with the file that has it.
Captured(k) == UNION {{e.name} \X Envelope[e.bytes].subjects : e \in Track(k, "origin")}

\* How often each digest is captured: a sorted list of them.
Roots(k) ==
  [d \in {x[2][2] : x \in Captured(k)} |-> Cardinality({x \in Captured(k) : x[2][2] = d})]

\* The transformations of run k that are alike in all that is compared.
Alike(k, n) == {e \in Track(k, "transform") : NodeOf(e) = n}

Nodes(k) == [n \in {NodeOf(e) : e \in Track(k, "transform")} |-> Cardinality(Alike(k, n))]

\* _run_fingerprint
Fingerprint(k) == <<Roots(k), Nodes(k), FinalSubjects(k)>>

Reproducible ==
  /\ Report.decision = "allow" /\ groups[1]["transform"] # {} /\ Comparable(1)

\* The loop over the assessments is over, and _accepted_assessments returns.
PrimaryAssessed ==
  /\ pc = "assess" /\ at[2] > Len(loaded[1].assessments)
  /\ diagnostics' = diagnostics \cup
       {<<t, "level 2">> : t \in {x \in Tracks : best[1][x] < 2 /\ Track(1, x) # {}}}
  /\ pc' = IF Reproducible THEN "reproduce" ELSE "evaluate"
  /\ at' = <<2, 1>>
  /\ UNCHANGED <<in, files, edits, jobs, raw, loaded, best, groups, base, reproduced, verified,
                 passed, summary>>

\* Mutant of Independent: one group that did not assess both is enough.
IndependentOfOne(k) ==
  /\ in.runs[k].report.decision = "allow" /\ groups[k]["transform"] # {}
  /\ groups[1]["transform"] \ groups[k]["transform"] # {}

Independent(k) ==
  /\ in.runs[k].report.decision = "allow" /\ groups[k]["transform"] # {}
  /\ groups[1]["transform"] \cap groups[k]["transform"] = {}

\* A repetition under another policy is passed over; otherwise its assessments
\* have been accepted as the run's own were, and the two are compared.
JudgeCandidate ==
  /\ pc = "reproduce"
  /\ at[1] \in Runs
  /\ LET k == at[1]
         samePolicy == in.runs[k].report.policy = in.policy.digest
         compared == samePolicy /\ Independent(k) /\ Comparable(k)
         same == compared /\ Fingerprint(k) = Fingerprint(1)
     IN  /\ samePolicy => at[2] > Len(loaded[k].assessments)
         /\ \/ compared /\ FinalSubjects(k) = {} /\ Raise
            \/ /\ compared => FinalSubjects(k) # {}
               /\ reproduced' = same
               /\ pc' = IF same THEN "evaluate" ELSE pc
               /\ at' = <<k + 1, 1>>
               /\ UNCHANGED <<in, files, edits, jobs, raw, loaded, best, groups, diagnostics,
                              base, verified, passed, summary>>

NotReproduced ==
  /\ pc = "reproduce" /\ at[1] \notin Runs
  /\ pc' = "evaluate"
  /\ UNCHANGED <<in, files, edits, jobs, raw, loaded, outcome>>
-----------------------------------------------------------------------------
(* The evaluation and the summary. *)

Level(t) == IF base[t] >= 1 /\ best[1][t] > base[t] THEN best[1][t] ELSE base[t]

Property(name) ==
  CASE name = "authorized" ->
         /\ {"signatures", "authorization-thresholds", "authorization"} \subseteq Report.passed
         /\ Report.handoffOK
    [] name = "graph complete" ->
         {"index-payloads", "graph-dependency-artifacts", "graph", "roots-and-heads",
          "completeness-anchor"} \subseteq Report.passed
    [] name = "freshness anchored" -> "freshness-anchors" \in Report.passed /\ Report.anchored
    [] name = "schema conformant" ->
         /\ {"core-schemas", "metadata-profiles", "artifact-profiles"} \subseteq Report.passed
         /\ RequiredProfilesPass(1, in.policy.pins)
    [] name = "reproduced" -> reproduced

Properties == {"authorized", "graph complete", "freshness anchored", "schema conformant",
               "reproduced"}

Verified == {<<t, Level(t)>> : t \in {x \in Tracks : Level(x) > 0}}
            \cup {<<"property", p>> : p \in {x \in Properties : Property(x)}}

\* A level is satisfied by a higher one of its own track.
RequirementSatisfied(r) ==
  IF r[1] \in Tracks THEN \E v \in Verified : v[1] = r[1] /\ v[2] >= r[2]
  ELSE r \in Verified

\* The end of evaluate_summary, which the optional sidecar shows.
Evaluate ==
  /\ pc = "evaluate"
  /\ LET missing == {r \in Configuration.required : ~RequirementSatisfied(r)}
     IN  \/ FinalSubjects(1) = {} /\ Raise
         \/ /\ FinalSubjects(1) # {}
            /\ verified' = Verified
            /\ passed' = (Report.decision = "allow" /\ missing = {})
            /\ diagnostics' = diagnostics
                 \cup {<<"property", p>> : p \in {x \in Properties : ~Property(x)}}
                 \cup {x \in {<<"summary", "required">>} : missing # {}}
                 \cup {x \in {<<"summary", "denied">>} : Report.decision # "allow"}
            /\ pc' = "summarize"
            /\ UNCHANGED <<in, files, edits, jobs, raw, loaded, at, best, groups, base,
                           reproduced, summary>>

\* The reports and assessments a summary refers to, as <<run, place>>; place 0
\* is the report.
References == UNION {{k} \X (0..Len(loaded[k].assessments)) : k \in Runs}

DescriptorOf(x) ==
  IF x[2] = 0 THEN <<"report", in.runs[x[1]].report.bytes>>
  ELSE <<"vsa", loaded[x[1]].assessments[x[2]].raw>>

\* Mutant of Distinct: a descriptor may be listed twice.
DistinctOrNot == TRUE

\* "resource descriptors must be unique"
Distinct == \A x, y \in References : DescriptorOf(x) = DescriptorOf(y) => x = y

Summarize ==
  /\ pc = "summarize"
  /\ \/ ~Distinct /\ Raise
     \/ /\ Distinct
        /\ summary' = {[result |-> IF passed THEN "PASSED" ELSE "FAILED",
                        levels |-> IF passed THEN verified ELSE {<<"FAILED", 0>>},
                        subjects |-> FinalSubjects(1),
                        evidence |-> {DescriptorOf(x) : x \in References}]}
        /\ pc' = "issued"
        /\ UNCHANGED <<in, files, edits, jobs, raw, loaded, at, best, groups, diagnostics, base,
                       reproduced, verified, passed>>
-----------------------------------------------------------------------------
(* create_assessment_vsa, once it has accepted its arguments. *)

\* What "makoto vsa assess" signs for the envelopes cs with those subjects.
Assessment(track, level, subjects, cs, controls, hardware, terms, sigs) ==
  [fault |-> FALSE, type |-> "vsa", terms |-> terms, result |-> "PASSED",
   levels |-> {<<track, level>>}, sorted |-> TRUE, subjects |-> subjects,
   evidence |-> cs \cup controls \cup hardware, sigs |-> sigs]
-----------------------------------------------------------------------------
Command ==
  \/ ListDirectory \/ ReadBytes \/ LoadAttestation \/ StartEvaluation \/ Assess
  \/ PrimaryAssessed \/ JudgeCandidate \/ NotReproduced \/ Evaluate \/ Summarize

\* Another process writes or removes a file that is still to be read.
Edit ==
  /\ pc = "load" /\ edits < in.edits
  /\ \E n \in Name, c \in Content \cup {Absent} :
       c # files[n] /\ files' = [files EXCEPT ![n] = c]
  /\ edits' = edits + 1
  /\ UNCHANGED <<in, pc, jobs, raw, loaded, outcome>>

Over == pc \in {"issued", "raised"} /\ UNCHANGED vars

Next == Command \/ Edit \/ Over

Spec == Init /\ [][Next]_vars
-----------------------------------------------------------------------------
(* Properties. *)

\* The values the variables take; what is read twice is in the queue.
TypeOK ==
  /\ files \in [Name -> Content \cup {Absent}] /\ edits \in 0..MaxEdits
  /\ pc \in {"load", "assess", "reproduce", "evaluate", "summarize", "issued", "raised"}
  /\ raw \in Content \cup {NoBytes} /\ raw # NoBytes => jobs # << >>
  /\ \A k \in Runs : \A e \in loaded[k].attestations : e.raw \in Content /\ e.bytes \in Content
  /\ best \in [Runs -> [Tracks -> {0, 2, 3}]]
  /\ base \in [Tracks -> 0..1]
  /\ \A k \in Runs, t \in Tracks : best[k][t] = 0 <=> groups[k][t] = {}
  /\ reproduced \in BOOLEAN /\ passed \in BOOLEAN
  /\ Cardinality(summary) <= 1

Evaluated == pc \in {"summarize", "issued"}

\* The digests of the envelopes a level is about: of those whose statements
\* were loaded, if nobody changed a file while they were.
Envelopes(k, t) ==
  IF edits = 0 THEN {e.bytes : e \in Track(k, t)} ELSE {e.raw : e \in Track(k, t)}

\* Rule r is the one rule for an assessment that says PASSED, and enough of
\* its signers have signed it with a key valid when run k was verified.
Vouches(r, v, k) ==
  /\ r.terms = v.terms /\ v.result = "PASSED"
  /\ \A q \in Configuration.verifiers : q.terms = v.terms => q = r
  /\ \E K \in SUBSET r.signers :
       /\ Cardinality(K) >= r.minimum
       /\ \A x \in K : \E s \in v.sigs :
            /\ s.keyid = x /\ s.good /\ ~s.keyless /\ x \in DOMAIN in.policy.keys
            /\ \A b \in in.policy.keys[x].validFrom : b <= in.runs[k].report.time
            /\ \A b \in in.policy.keys[x].validUntil : in.runs[k].report.time < b

\* Under rule r the assessment v supports level n of a track of run k: it is
\* about all subjects and exactly the envelopes of that track, with the control
\* evidence or something that may be hardware evidence for a level 3.
SupportsBy(r, v, k, t, n) ==
  /\ Vouches(r, v, k)
  /\ v.sorted /\ v.subjects = TrackSubjects(k, t)
  /\ \/ n = 2 /\ <<t, 2>> \in v.levels \cap r.allowed /\ v.evidence = Envelopes(k, t)
     \/ /\ <<t, 3>> \in v.levels \cap r.allowed
        /\ \/ /\ t = "origin" /\ v.evidence = Envelopes(k, t) \cup r.controls
              /\ n = 3 => r.profiles # {} /\ r.profiles \subseteq in.runs[k].report.profiles
           \/ /\ t = "transform" /\ Envelopes(k, t) \subseteq v.evidence
              /\ n = 3 => v.evidence \ Envelopes(k, t) # {}

AssessmentsOf(k) ==
  {Envelope[loaded[k].assessments[i].bytes] : i \in DOMAIN loaded[k].assessments}

Supports(v, k, t, n) == \E r \in Configuration.verifiers : SupportsBy(r, v, k, t, n)

\* A track reaches level 2 or 3 exactly when the run is traceable by itself and
\* some assessment supports that level, whatever other assessments, rejected,
\* weaker or of the other track, come before or after it.
LevelIffAssessed ==
  Evaluated =>
    \A t \in Tracks, n \in {2, 3} :
      (\E m \in n..3 : <<t, m>> \in verified)
        <=> (base[t] = 1 /\ \E v \in AssessmentsOf(1) : Supports(v, 1, t, n))

\* MAKOTO_REPRODUCED: another allowed run made the same final subjects by the
\* same transformations, each as often, both runs are Transform level 2, and no
\* assessor of the one belongs to a group of an assessor of the other.
ReproducedMeansIndependent ==
  Evaluated /\ <<"property", "reproduced">> \in verified =>
    /\ Report.decision = "allow"
    /\ \E n \in {2, 3} : <<"transform", n>> \in verified
    /\ \E k \in Runs \ {1} :
         /\ in.runs[k].report.decision = "allow" /\ in.runs[k].report.policy = Report.policy
         /\ \E v \in AssessmentsOf(k) : Supports(v, k, "transform", 2)
         /\ \A v \in AssessmentsOf(1), w \in AssessmentsOf(k) :
              \A q, r \in Configuration.verifiers :
                SupportsBy(q, v, 1, "transform", 2) /\ SupportsBy(r, w, k, "transform", 2)
                  => q.group # r.group
         /\ FinalSubjects(k) = FinalSubjects(1)
         /\ \E f \in [Track(1, "transform") -> Track(k, "transform")] :
              /\ {f[e] : e \in DOMAIN f} = Track(k, "transform")
              /\ Cardinality(DOMAIN f) = Cardinality(Track(k, "transform"))
              /\ \A e \in DOMAIN f : NodeOf(f[e]) = NodeOf(e) /\ Envelope[e.bytes].tool # {}

\* A summary that says MAKOTO_REPRODUCED refers to another report, not to the
\* run's own once more: create_summary_vsa refuses to list a descriptor twice.
NotItsOwnReproduction ==
  \A s \in summary : <<"property", "reproduced">> \in s.levels =>
    \E k \in Runs \ {1} :
      /\ in.runs[k].report.bytes # Report.bytes
      /\ groups[k]["transform"] # {}
=============================================================================
