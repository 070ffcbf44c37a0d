--------------------------- MODULE AssuranceProofs ---------------------------
(***************************************************************************)
(* Proofs about Assurance, for any files, policies, runs and assessments:  *)
(* which levels a summary may claim, and what MAKOTO_REPRODUCED means.     *)
(*                                                                         *)
(* LoadInv describes what is loaded, and says that what was read twice is  *)
(* the same when nobody changed a file.  JudgedInv relates the best level  *)
(* and the groups of a run to the assessments looked at so far, and        *)
(* OutcomeInv what is verified and summarized to them.                     *)
(***************************************************************************)
EXTENDS Assurance, FiniteSetTheorems, FunctionTheorems, TLAPS

Item == [name : Name, raw : Content, bytes : Content]

JobSet == ({"list"} \X Runs \X {""}) \cup ({"run", "vsa"} \X Runs \X Name)

InputInv ==
  \E s \in Scenarios : in = [policy |-> s.policy, runs |-> s.runs, edits |-> s.edits]

\* What is read and loaded; the queue holds the file that is read twice.
LoadInv ==
  /\ files \in [Name -> Content \cup {Absent}]
  /\ edits \in 0..in.edits
  /\ jobs \in Seq(JobSet)
  /\ raw \in Content \cup {NoBytes}
  /\ raw # NoBytes => /\ jobs # << >> /\ Job[1] # "list"
                      /\ edits = 0 => raw = files[Job[3]]
  /\ loaded \in [Runs -> [attestations : SUBSET Item, assessments : Seq(Item)]]
  /\ \A k \in Runs :
       /\ IsFiniteSet(loaded[k].attestations)
       /\ \A e \in loaded[k].attestations : edits = 0 => e.raw = e.bytes
       /\ \A i \in DOMAIN loaded[k].assessments :
            Envelope[loaded[k].assessments[i].bytes].type = "vsa"

\* The variables that are set after everything is loaded.
ResultInv ==
  /\ pc \in {"load", "assess", "reproduce", "evaluate", "summarize", "issued", "raised"}
  /\ best \in [Runs -> [Tracks -> {0, 2, 3}]]
  /\ groups = [k \in Runs |-> [t \in Tracks |-> groups[k][t]]]
  /\ \A k \in Runs, t \in Tracks : best[k][t] = 0 <=> groups[k][t] = {}
  /\ base \in [Tracks -> 0..1]
  /\ reproduced \in BOOLEAN /\ passed \in BOOLEAN
  /\ \A s \in summary : summary = {s}

-----------------------------------------------------------------------------
(* What the assumptions say of the input of a command. *)

LEMMA Inputs ==
  ASSUME InputInv
  PROVE  /\ Len(in.runs) \in Nat \ {0} /\ Runs = 1..Len(in.runs) /\ 1 \in Runs
         /\ in.edits \in 0..MaxEdits /\ MaxEdits \in Nat
         /\ \A k \in Runs :
              /\ in.runs[k].directory \in Seq(Name) /\ in.runs[k].assessments \in Seq(Name)
              /\ in.runs[k].report.decision = "allow"
                   => TracingChecks \subseteq in.runs[k].report.passed
PROOF
<1> PICK s \in Scenarios : in = [policy |-> s.policy, runs |-> s.runs, edits |-> s.edits]
  BY DEF InputInv
<1>1. in.runs = s.runs /\ in.edits = s.edits
  OBVIOUS
<1>2. Len(in.runs) \in Nat \ {0} /\ Runs = 1..Len(in.runs)
  BY <1>1, RunsAssumption DEF Runs
<1>3. 1 \in Runs
  BY <1>2
<1>4. in.edits \in 0..MaxEdits /\ MaxEdits \in Nat
  BY <1>1, EditsAssumption
<1> QED
  BY <1>1, <1>2, <1>3, <1>4, RunsAssumption, ReportAssumption DEF Runs

LEMMA Policies ==
  ASSUME InputInv, in.policy.summary # {}
  PROVE  /\ in.policy.identities \cap DOMAIN in.policy.keys = {}
         /\ IsFiniteSet(Configuration.verifiers)
         /\ \A r \in Configuration.verifiers :
              /\ IsFiniteSet(r.signers) /\ r.signers \subseteq DOMAIN in.policy.keys
              /\ r.minimum \in Nat /\ r.allowed \subseteq Tracks \X {2, 3}
PROOF
<1> PICK s \in Scenarios : in = [policy |-> s.policy, runs |-> s.runs, edits |-> s.edits]
  BY DEF InputInv
<1>1. in.policy = s.policy
  OBVIOUS
<1>2. Configuration \in in.policy.summary
  BY DEF Configuration
<1> QED
  BY <1>1, <1>2, PolicyAssumption
-----------------------------------------------------------------------------
(* Loading. *)

LEMMA InputStep ==
  ASSUME InputInv, [Next]_vars
  PROVE  InputInv' /\ in' = in /\ Runs' = Runs
PROOF
<1>1. in' = in
  BY DEF Next, vars, Command, ListDirectory, ReadBytes, LoadAttestation, StartEvaluation, Assess,
         PrimaryAssessed, JudgeCandidate, NotReproduced, Evaluate, Summarize, Edit, Over, Raise
<1> QED
  BY <1>1 DEF InputInv, Runs

LEMMA LoadInvInit ==
  ASSUME Init
  PROVE  InputInv /\ LoadInv
PROOF
<1>0. PICK s \in Scenarios :
       /\ in = [policy |-> s.policy, runs |-> s.runs, edits |-> s.edits]
       /\ files = s.files
       /\ jobs = <<<<"list", 1, "">>>>
       /\ loaded = [k \in DOMAIN s.runs |-> [attestations |-> {}, assessments |-> << >>]]
  BY DEF Init
<1>1. InputInv
  BY <1>0 DEF InputInv
<1>2. Runs = DOMAIN s.runs
  BY <1>0 DEF Runs
<1>3. 1 \in Runs /\ in.edits \in 0..MaxEdits /\ MaxEdits \in Nat
  BY <1>1, Inputs
<1>4. edits = 0 /\ raw = NoBytes
  BY DEF Init
<1>5. files \in [Name -> Content \cup {Absent}]
  BY <1>0, RunsAssumption
<1>6. edits \in 0..in.edits
  BY <1>3, <1>4
<1>7. jobs \in Seq(JobSet)
  <2> DEFINE first == <<"list", 1, "">>
  <2>1. first \in JobSet
    BY <1>3 DEF JobSet
  <2>2. jobs = <<first>>
    BY <1>0
  <2> HIDE DEF first
  <2> QED
    BY <2>1, <2>2
<1>8. loaded \in [Runs -> [attestations : SUBSET Item, assessments : Seq(Item)]]
  <2> DEFINE none == << >>
  <2>1. none \in Seq(Item)
    OBVIOUS
  <2>2. loaded = [k \in Runs |-> [attestations |-> {}, assessments |-> none]]
    BY <1>0, <1>2
  <2> HIDE DEF none
  <2> QED
    BY <2>1, <2>2
<1>9. \A k \in Runs : /\ loaded[k].attestations = {}
                     /\ \A i \in DOMAIN loaded[k].assessments : FALSE
  <2>1. \A k \in Runs : loaded[k].attestations = {} /\ loaded[k].assessments = << >>
    BY <1>0, <1>2
  <2>2. \A i \in DOMAIN << >> : FALSE
    OBVIOUS
  <2> QED
    BY <2>1, <2>2, Zenon
<1> QED
  BY <1>1, <1>4, <1>5, <1>6, <1>7, <1>8, <1>9, FS_EmptySet DEF LoadInv

LEMMA Listed ==
  ASSUME InputInv, LoadInv, NEW k \in Runs, NEW listed \in Listings(in.runs[k].directory)
  PROVE  listed \in Seq(Name)
PROOF
<1> DEFINE d == in.runs[k].directory
           there == {i \in DOMAIN d : files[d[i]] # Absent}
<1>1. d \in Seq(Name)
  BY Inputs
<1>2. IsFiniteSet(there)
  BY <1>1, FS_Interval, FS_Subset
<1>3. Cardinality(there) \in Nat
  BY <1>2, FS_CardinalityType
<1>4. PICK h \in [1..Cardinality(there) -> there] : listed = [j \in DOMAIN h |-> d[h[j]]]
  BY DEF Listings
<1>a. there \subseteq DOMAIN d
  OBVIOUS
<1> HIDE DEF there, d
<1>b. \A i \in DOMAIN d : d[i] \in Name
  BY <1>1
<1>5. \A j \in DOMAIN h : d[h[j]] \in Name
  BY <1>a, <1>b, <1>4
<1> QED
  BY <1>3, <1>4, <1>5

\* What the current job is.
LEMMA JobType ==
  ASSUME LoadInv, jobs # << >>
  PROVE  /\ Job \in JobSet /\ Job[2] \in Runs
         /\ Job[1] # "list" => Job[3] \in Name
         /\ Tail(jobs) \in Seq(JobSet)
PROOF
<1>1. jobs \in Seq(JobSet)
  BY DEF LoadInv
<1>2. Job \in JobSet /\ Tail(jobs) \in Seq(JobSet)
  BY <1>1 DEF Job
<1> QED
  BY <1>2 DEF JobSet

LEMMA LoadFrame ==
  ASSUME LoadInv, UNCHANGED <<in, files, edits, jobs, raw, loaded>>
  PROVE  LoadInv'
PROOF
  BY DEF LoadInv, Runs, JobSet, Job

LEMMA LoadRaise ==
  ASSUME LoadInv, Raise
  PROVE  LoadInv'
PROOF
  BY LoadFrame DEF Raise

LEMMA LoadList ==
  ASSUME InputInv, LoadInv, ListDirectory
  PROVE  LoadInv'
PROOF
<1> DEFINE k == Job[2]
           run == in.runs[k]
           Made(kind, names) == [i \in DOMAIN names |-> <<kind, k, names[i]>>]
           next == IF k + 1 \in Runs THEN <<<<"list", k + 1, "">>>> ELSE << >>
<1>1. CASE Raise
  BY <1>1, LoadRaise
<1>2. CASE ~Raise
  <2>1. PICK listed \in Listings(run.directory) :
          jobs' = Made("run", listed) \o Made("vsa", run.assessments) \o next
    BY <1>2 DEF ListDirectory
  <2>2. UNCHANGED <<in, files, edits, pc, raw, loaded>> /\ jobs # << >> /\ Job[1] = "list"
    BY <1>2 DEF ListDirectory
  <2>3. k \in Runs
    BY <2>2, JobType
  <2>4. listed \in Seq(Name) /\ run.assessments \in Seq(Name)
    BY <2>1, <2>3, Listed, Inputs
  <2>5. ASSUME NEW kind \in {"run", "vsa"}, NEW names \in Seq(Name)
        PROVE  Made(kind, names) \in Seq(JobSet)
    <3>1. \A x \in Name : <<kind, k, x>> \in JobSet
      <4> HIDE DEF k
      <4> QED
        BY <2>3 DEF JobSet
    <3> QED
      BY <3>1
  <2>6. next \in Seq(JobSet)
    <3> DEFINE first == <<"list", k + 1, "">>
    <3>1. k + 1 \in Runs => first \in JobSet
      BY DEF JobSet
    <3>2. next = IF k + 1 \in Runs THEN <<first>> ELSE << >>
      OBVIOUS
    <3> HIDE DEF first, next
    <3> QED
      BY <3>1, <3>2
  <2>7. jobs' \in Seq(JobSet)
    <3>1. Made("run", listed) \in Seq(JobSet) /\ Made("vsa", run.assessments) \in Seq(JobSet)
      BY <2>4, <2>5
    <3> HIDE DEF Made, next
    <3> QED
      BY <2>1, <2>6, <3>1
  <2>8. JobSet' = JobSet /\ Runs' = Runs
    BY <2>2 DEF JobSet, Runs
  <2>9. raw = NoBytes
    BY <2>2 DEF LoadInv
  <2> HIDE DEF Made, next, run, k
  <2> QED
    BY <2>2, <2>7, <2>8, <2>9 DEF LoadInv
<1> QED
  BY <1>1, <1>2

LEMMA LoadRead ==
  ASSUME LoadInv, ReadBytes
  PROVE  LoadInv'
PROOF
<1>1. CASE Raise
  BY <1>1, LoadRaise
<1>2. CASE ~Raise
  <2>1. /\ raw' = files[Job[3]] /\ files[Job[3]] # Absent /\ jobs # << >> /\ Job[1] # "list"
        /\ UNCHANGED <<in, files, edits, jobs, loaded>>
    BY <1>2 DEF ReadBytes
  <2>2. raw' \in Content
    BY <2>1, JobType DEF LoadInv
  <2>3. JobSet' = JobSet /\ Runs' = Runs /\ Job' = Job
    BY <2>1 DEF JobSet, Runs, Job
  <2> QED
    BY <2>1, <2>2, <2>3 DEF LoadInv
<1> QED
  BY <1>1, <1>2

LEMMA LoadEdit ==
  ASSUME InputInv, LoadInv, Edit
  PROVE  LoadInv'
PROOF
<1>1. PICK n \in Name, c \in Content \cup {Absent} : files' = [files EXCEPT ![n] = c]
  BY DEF Edit
<1>2. edits' = edits + 1 /\ edits < in.edits /\ UNCHANGED <<in, jobs, raw, loaded>>
  BY DEF Edit
<1>3. edits \in Nat /\ in.edits \in Nat
  <2>1. edits \in 0..in.edits /\ in.edits \in 0..MaxEdits /\ MaxEdits \in Nat
    BY Inputs DEF LoadInv
  <2> QED
    BY <2>1
<1>4. edits' \in 0..in.edits /\ edits' # 0
  BY <1>2, <1>3
<1>5. JobSet' = JobSet /\ Runs' = Runs /\ Job' = Job
  BY <1>2 DEF JobSet, Runs, Job
<1> QED
  BY <1>1, <1>2, <1>4, <1>5 DEF LoadInv

LEMMA LoadLoad ==
  ASSUME InputInv, LoadInv, LoadAttestation
  PROVE  LoadInv'
PROOF
<1> DEFINE c == files[Job[3]]
           k == Job[2]
           item == [name |-> Job[3], raw |-> raw, bytes |-> c]
           one == loaded[k]
<1>1. CASE Raise
  BY <1>1, LoadRaise
<1>2. CASE ~Raise
  <2>1. /\ Loadable(c, Job[1]) /\ raw # NoBytes /\ raw' = NoBytes /\ jobs' = Tail(jobs)
        /\ UNCHANGED <<in, files, edits, pc>>
    BY <1>2 DEF LoadAttestation
  <2>2. jobs # << >> /\ Job[1] # "list" /\ (edits = 0 => raw = c)
    BY <2>1 DEF LoadInv
  <2>3. k \in Runs /\ Job[3] \in Name /\ Tail(jobs) \in Seq(JobSet)
    BY <2>2, JobType
  <2>4. c \in Content /\ raw \in Content
    BY <2>1, <2>3 DEF LoadInv, Loadable
  <2>5. item \in Item
    BY <2>3, <2>4 DEF Item
  <2>6. JobSet' = JobSet /\ Runs' = Runs
    BY <2>1 DEF JobSet, Runs
  <2>7. one \in [attestations : SUBSET Item, assessments : Seq(Item)]
    BY <2>3 DEF LoadInv
  <2>8. /\ item.raw = raw /\ item.bytes = c
        /\ Job[1] = "vsa" => Envelope[c].type = "vsa"
    BY <2>1 DEF Loadable
  <2>9. PICK more \in [attestations : SUBSET Item, assessments : Seq(Item)] :
          /\ loaded' = [loaded EXCEPT ![k] = more]
          /\ more.attestations = one.attestations
               \/ more.attestations = one.attestations \cup {item}
          /\ more.assessments = one.assessments
               \/ /\ more.assessments = Append(one.assessments, item)
                  /\ Envelope[c].type = "vsa"
    <3>1. CASE Job[1] = "vsa"
      <4> DEFINE more == [one EXCEPT !.assessments = Append(one.assessments, item)]
      <4>1. loaded' = [loaded EXCEPT ![k] = more]
        BY <1>2, <3>1 DEF LoadAttestation
      <4>2. Append(one.assessments, item) \in Seq(Item)
        BY <2>5, <2>7
      <4> HIDE DEF item, one, k, c
      <4>3. /\ more \in [attestations : SUBSET Item, assessments : Seq(Item)]
            /\ more.attestations = one.attestations
            /\ more.assessments = Append(one.assessments, item)
        BY <2>7, <4>2
      <4> QED
        BY <4>1, <4>3, <2>8, <3>1
    <3>2. CASE Job[1] # "vsa" /\ Envelope[c].type = "vsa"
      <4>1. loaded' = loaded
        BY <1>2, <3>2 DEF LoadAttestation
      <4>2. loaded = [loaded EXCEPT ![k] = one]
        BY <2>3 DEF LoadInv
      <4> QED
        BY <2>7, <4>1, <4>2
    <3>3. CASE Job[1] # "vsa" /\ Envelope[c].type # "vsa"
      <4> DEFINE more == [one EXCEPT !.attestations = one.attestations \cup {item}]
      <4>1. loaded' = [loaded EXCEPT ![k] = more]
        BY <1>2, <3>3 DEF LoadAttestation
      <4> HIDE DEF item, one, k, c
      <4>3. /\ more \in [attestations : SUBSET Item, assessments : Seq(Item)]
            /\ more.assessments = one.assessments
            /\ more.attestations = one.attestations \cup {item}
        BY <2>5, <2>7
      <4> QED
        BY <4>1, <4>3
    <3> QED
      BY <3>1, <3>2, <3>3
  <2>10. /\ IsFiniteSet(more.attestations)
         /\ \A e \in more.attestations : edits = 0 => e.raw = e.bytes
    <3>1. IsFiniteSet(one.attestations)
      BY <2>3 DEF LoadInv
    <3>2. \A e \in one.attestations : edits = 0 => e.raw = e.bytes
      BY <2>3 DEF LoadInv
    <3>3. edits = 0 => item.raw = item.bytes
      BY <2>2, <2>8
    <3> HIDE DEF item, one, k, c
    <3>4. IsFiniteSet(one.attestations \cup {item})
      BY <3>1, FS_AddElement
    <3> QED
      BY <2>9, <3>1, <3>2, <3>3, <3>4
  <2>11. \A i \in DOMAIN more.assessments : Envelope[more.assessments[i].bytes].type = "vsa"
    <3>1. \A i \in DOMAIN one.assessments : Envelope[one.assessments[i].bytes].type = "vsa"
      BY <2>3 DEF LoadInv
    <3> HIDE DEF item, one, k, c
    <3>2. one.assessments \in Seq(Item)
      BY <2>7
    <3> QED
      BY <2>5, <2>8, <2>9, <3>1, <3>2
  <2> HIDE DEF item, one, k, c
  <2>12. loaded' \in [Runs -> [attestations : SUBSET Item, assessments : Seq(Item)]]
    BY <2>3, <2>9 DEF LoadInv
  <2>13. \A x \in Runs : loaded'[x] = IF x = k THEN more ELSE loaded[x]
    BY <2>3, <2>9 DEF LoadInv
  <2>14. /\ files' \in [Name -> Content \cup {Absent}]
         /\ edits' \in 0..in'.edits /\ jobs' \in Seq(JobSet')
    BY <2>1, <2>3, <2>6 DEF LoadInv
  <2>15. ASSUME NEW x \in Runs'
         PROVE  /\ IsFiniteSet(loaded'[x].attestations)
                /\ \A e \in loaded'[x].attestations : edits' = 0 => e.raw = e.bytes
                /\ \A i \in DOMAIN loaded'[x].assessments :
                     Envelope[loaded'[x].assessments[i].bytes].type = "vsa"
    <3>1. CASE x = k
      BY <2>1, <2>3, <2>6, <2>10, <2>11, <2>13, <3>1
    <3>2. CASE x # k
      BY <2>1, <2>6, <2>13, <3>2 DEF LoadInv
    <3> QED
      BY <3>1, <3>2
  <2> QED
    BY <2>1, <2>6, <2>12, <2>14, <2>15 DEF LoadInv
<1> QED
  BY <1>1, <1>2

LEMMA LoadStep ==
  ASSUME InputInv, LoadInv, [Next]_vars
  PROVE  LoadInv'
PROOF
<1>1. CASE UNCHANGED vars
  BY <1>1, LoadFrame DEF vars
<1>2. CASE ListDirectory
  BY <1>2, LoadList
<1>3. CASE ReadBytes
  BY <1>3, LoadRead
<1>4. CASE LoadAttestation
  BY <1>4, LoadLoad
<1>5. CASE Edit
  BY <1>5, LoadEdit
<1>6. CASE \/ StartEvaluation \/ Assess \/ PrimaryAssessed \/ JudgeCandidate
           \/ NotReproduced \/ Evaluate \/ Summarize \/ Over
  <2>1. UNCHANGED <<in, files, edits, jobs, raw, loaded>>
    BY <1>6 DEF StartEvaluation, Assess, PrimaryAssessed, JudgeCandidate, NotReproduced,
                Evaluate, Summarize, Over, Raise, vars
  <2> QED
    BY <2>1, LoadFrame
<1> QED
  BY <1>1, <1>2, <1>3, <1>4, <1>5, <1>6 DEF Next, Command
-----------------------------------------------------------------------------
(* Assessments: what one is accepted for is what it supports. *)

\* The one rule of a trusted assessment.
LEMMA OneRule ==
  ASSUME InputInv, in.policy.summary # {}, NEW v, NEW r
  PROVE  Cardinality(MatchingRules(v)) = 1 /\ r = RuleOf(v)
           <=> /\ r \in Configuration.verifiers /\ r.terms = v.terms
               /\ \A q \in Configuration.verifiers : q.terms = v.terms => q = r
PROOF
<1>1. IsFiniteSet(MatchingRules(v))
  BY Policies, FS_Subset DEF MatchingRules
<1>2. Cardinality(MatchingRules(v)) = 1 <=> \E x : MatchingRules(v) = {x}
  BY <1>1, FS_Singleton
<1>3. ASSUME NEW x, MatchingRules(v) = {x}
      PROVE  RuleOf(v) = x
  BY <1>3 DEF RuleOf
<1>4. ASSUME Cardinality(MatchingRules(v)) = 1, r = RuleOf(v)
      PROVE  /\ r \in Configuration.verifiers /\ r.terms = v.terms
             /\ \A q \in Configuration.verifiers : q.terms = v.terms => q = r
  <2>1. PICK x : MatchingRules(v) = {x}
    BY <1>2, <1>4
  <2>2. r = x
    BY <1>3, <1>4, <2>1
  <2> QED
    BY <2>1, <2>2 DEF MatchingRules
<1>5. ASSUME r \in Configuration.verifiers, r.terms = v.terms,
             \A q \in Configuration.verifiers : q.terms = v.terms => q = r
      PROVE  Cardinality(MatchingRules(v)) = 1 /\ r = RuleOf(v)
  <2>1. MatchingRules(v) = {r}
    BY <1>5 DEF MatchingRules
  <2> QED
    BY <1>2, <1>3, <2>1
<1> QED
  BY <1>4, <1>5

\* Enough signatures are enough signers.
LEMMA EnoughSigners ==
  ASSUME InputInv, in.policy.summary # {}, NEW v, NEW k, TrustedVSA(v)
  PROVE  SignedVSA(v, k) <=>
           \E K \in SUBSET RuleOf(v).signers :
             /\ Cardinality(K) >= RuleOf(v).minimum
             /\ \A x \in K : \E s \in v.sigs :
                  /\ s.keyid = x /\ s.good /\ ~s.keyless /\ x \in DOMAIN in.policy.keys
                  /\ \A b \in in.policy.keys[x].validFrom : b <= in.runs[k].report.time
                  /\ \A b \in in.policy.keys[x].validUntil : in.runs[k].report.time < b
PROOF
<1> DEFINE r == RuleOf(v)
           time == in.runs[k].report.time
           Good(x) == \E s \in v.sigs :
                  /\ s.keyid = x /\ s.good /\ ~s.keyless /\ x \in DOMAIN in.policy.keys
                  /\ \A b \in in.policy.keys[x].validFrom : b <= time
                  /\ \A b \in in.policy.keys[x].validUntil : time < b
<1>1. r \in Configuration.verifiers
  BY OneRule DEF TrustedVSA
<1>2. /\ IsFiniteSet(r.signers) /\ r.signers \subseteq DOMAIN in.policy.keys /\ r.minimum \in Nat
      /\ in.policy.identities \cap DOMAIN in.policy.keys = {}
  BY <1>1, Policies
<1>3. Assessors(v, k) = {x \in r.signers : Good(x)}
  <2>1. ASSUME NEW x \in Assessors(v, k)
        PROVE  x \in r.signers /\ Good(x)
    <3>1. PICK s \in v.sigs : /\ s.keyid = x /\ Cryptographic(in.policy, s) = "pass"
                              /\ x \in r.signers /\ KeyValidAt(in.policy, x, time)
      BY <2>1 DEF Assessors
    <3>2. KeyKnown(in.policy, s) /\ s.good
      BY <3>1 DEF Cryptographic
    <3>3. x \in DOMAIN in.policy.keys /\ ~s.keyless
      BY <1>2, <3>1, <3>2 DEF KeyKnown
    <3> QED
      BY <3>1, <3>2, <3>3 DEF KeyValidAt
  <2>2. ASSUME NEW x \in r.signers, Good(x)
        PROVE  x \in Assessors(v, k)
    <3>1. PICK s \in v.sigs :
                  /\ s.keyid = x /\ s.good /\ ~s.keyless /\ x \in DOMAIN in.policy.keys
                  /\ \A b \in in.policy.keys[x].validFrom : b <= time
                  /\ \A b \in in.policy.keys[x].validUntil : time < b
      BY <2>2
    <3>2. Cryptographic(in.policy, s) = "pass" /\ KeyValidAt(in.policy, x, time)
      BY <3>1 DEF Cryptographic, KeyKnown, KeyValidAt
    <3> QED
      BY <3>1, <3>2 DEF Assessors
  <2> QED
    BY <2>1, <2>2
<1> HIDE DEF Good, r
<1>4. IsFiniteSet(Assessors(v, k)) /\ Cardinality(Assessors(v, k)) \in Nat
  BY <1>2, <1>3, FS_Subset, FS_CardinalityType
<1>5. ASSUME NEW K \in SUBSET r.signers, Cardinality(K) >= r.minimum, \A x \in K : Good(x)
      PROVE  Cardinality(Assessors(v, k)) >= r.minimum
  <2>1. K \subseteq Assessors(v, k)
    BY <1>3, <1>5
  <2>2. IsFiniteSet(K) /\ Cardinality(K) \in Nat /\ Cardinality(K) <= Cardinality(Assessors(v, k))
    BY <1>4, <2>1, FS_Subset, FS_CardinalityType
  <2> QED
    BY <1>2, <1>4, <1>5, <2>2
<1>6. SignedVSA(v, k) <=> \E K \in SUBSET r.signers :
                            Cardinality(K) >= r.minimum /\ \A x \in K : Good(x)
  <2>1. SignedVSA(v, k) <=> Cardinality(Assessors(v, k)) >= r.minimum
    BY DEF SignedVSA, r
  <2> QED
    BY <1>3, <1>5, <2>1
<1> QED
  BY <1>6 DEF Good, r

\* The best level a trusted assessment claims.
LEMMA ClaimedLevel ==
  ASSUME InputInv, in.policy.summary # {}, NEW v, TrustedVSA(v), NEW t \in Tracks
  PROVE  /\ Claimed(v, t) \in {0, 2, 3}
         /\ Claimed(v, t) = 3 <=> <<t, 3>> \in v.levels \cap RuleOf(v).allowed
         /\ Claimed(v, t) = 2 => <<t, 2>> \in v.levels \cap RuleOf(v).allowed
         /\ (\A x, y \in v.levels : x[1] = y[1] /\ x[1] \in Tracks => x = y)
              => (Claimed(v, t) = 2 <=> <<t, 2>> \in v.levels \cap RuleOf(v).allowed)
PROOF
<1> DEFINE both == v.levels \cap RuleOf(v).allowed
           ns == {0} \cup Claims(v, t)
<1>1. both \subseteq Tracks \X {2, 3}
  BY OneRule, Policies DEF TrustedVSA
<1>2. Claims(v, t) = {n \in {2, 3} : <<t, n>> \in both}
  <2>1. Claims(v, t) = {l[2] : l \in {x \in both : x[1] = t}}
    BY DEF Claims
  <2> HIDE DEF both
  <2>2. ASSUME NEW l \in both, l[1] = t
        PROVE  l[2] \in {2, 3} /\ <<t, l[2]>> \in both
    <3>1. l = <<l[1], l[2]>> /\ l[2] \in {2, 3}
      BY <1>1, <2>2
    <3> QED
      BY <2>2, <3>1
  <2>3. ASSUME NEW n \in {2, 3}, <<t, n>> \in both
        PROVE  \E l \in {x \in both : x[1] = t} : n = l[2]
    BY <2>3
  <2> QED
    BY <2>1, <2>2, <2>3
<1> HIDE DEF both
<1>3. ns \subseteq {0, 2, 3} /\ 0 \in ns
  BY <1>2
<1>4. Claimed(v, t) = CHOOSE n \in ns : \A m \in ns : m <= n
  BY DEF Claimed
<1> HIDE DEF ns
<1>5. \E n \in ns : \A m \in ns : m <= n
  <2>1. CASE 3 \in ns
    <3>1. \A m \in ns : m <= 3
      BY <1>3
    <3> QED
      BY <2>1, <3>1
  <2>2. CASE 3 \notin ns /\ 2 \in ns
    <3>1. \A m \in ns : m <= 2
      BY <1>3, <2>2
    <3> QED
      BY <2>2, <3>1
  <2>3. CASE 3 \notin ns /\ 2 \notin ns
    <3>1. \A m \in ns : m <= 0
      BY <1>3, <2>3
    <3> QED
      BY <1>3, <3>1
  <2> QED
    BY <2>1, <2>2, <2>3
<1>6. Claimed(v, t) \in ns /\ \A m \in ns : m <= Claimed(v, t)
  BY <1>4, <1>5
<1>7. /\ 3 \in ns <=> <<t, 3>> \in both
      /\ 2 \in ns <=> <<t, 2>> \in both
  BY <1>2 DEF ns
<1>8. Claimed(v, t) \in {0, 2, 3}
  BY <1>3, <1>6
<1>9. Claimed(v, t) = 3 <=> 3 \in ns
  BY <1>6, <1>8
<1>10. Claimed(v, t) = 2 => 2 \in ns
  BY <1>6
<1>11. 2 \in ns /\ 3 \notin ns => Claimed(v, t) = 2
  BY <1>6, <1>8
<1>12. ASSUME \A x, y \in v.levels : x[1] = y[1] /\ x[1] \in Tracks => x = y
       PROVE  ~(<<t, 2>> \in both /\ <<t, 3>> \in both)
  <2>1. both \subseteq v.levels
    BY DEF both
  <2>2. <<t, 2>>[1] = t /\ <<t, 3>>[1] = t /\ <<t, 2>> # <<t, 3>>
    OBVIOUS
  <2> QED
    BY <1>12, <2>1, <2>2
<1> QED
  BY <1>7, <1>8, <1>9, <1>10, <1>11, <1>12 DEF both

LEMMA VerdictLevel ==
  ASSUME InputInv, in.policy.summary # {}, NEW v, NEW k, TrustedVSA(v), NEW t \in Tracks
  PROVE  Verdict(v, k, t).level \in {0, 2, 3}
PROOF
<1>1. Claimed(v, t) \in {0, 2, 3}
  BY ClaimedLevel
<1>2. ~(Claimed(v, t) < 2) => Claimed(v, t) \in {2, 3}
  BY <1>1
<1> QED
  BY <1>2 DEF Verdict

\* Without edits the bytes of a file are the same at both reads.
LEMMA EnvelopesRaw ==
  ASSUME LoadInv, NEW k \in Runs, NEW t
  PROVE  Envelopes(k, t) = {e.raw : e \in Track(k, t)}
PROOF
<1>1. edits = 0 => \A e \in Track(k, t) : e.raw = e.bytes
  BY DEF LoadInv, Track
<1> QED
  BY <1>1 DEF Envelopes

LEMMA VouchedFor ==
  ASSUME InputInv, in.policy.summary # {}, NEW v, NEW k, NEW r \in Configuration.verifiers
  PROVE  Vouches(r, v, k) <=> TrustedVSA(v) /\ SignedVSA(v, k) /\ r = RuleOf(v)
PROOF
<1>1. CASE TrustedVSA(v) /\ r = RuleOf(v)
  BY <1>1, OneRule, EnoughSigners DEF Vouches, TrustedVSA
<1>2. CASE ~(TrustedVSA(v) /\ r = RuleOf(v))
  <2>1. ~(/\ r.terms = v.terms /\ v.result = "PASSED"
          /\ \A q \in Configuration.verifiers : q.terms = v.terms => q = r)
    BY <1>2, OneRule DEF TrustedVSA
  <2> QED
    BY <1>2, <2>1 DEF Vouches
<1> QED
  BY <1>1, <1>2

\* What SupportsBy asks besides the signatures.
Grounds(r, v, k, t, n) ==
  /\ v.sorted /\ v.subjects = TrackSubjects(k, t)
  /\ \/ n = 2 /\ <<t, 2>> \in v.levels \cap r.allowed /\ v.evidence = Envelopes(k, t)
     \/ /\ <<t, 3>> \in v.levels \cap r.allowed
        /\ \/ /\ t = "origin" /\ v.evidence = Envelopes(k, t) \cup r.controls
              /\ n = 3 => r.profiles # {} /\ r.profiles \subseteq in.runs[k].report.profiles
           \/ /\ t = "transform" /\ Envelopes(k, t) \subseteq v.evidence
              /\ n = 3 => v.evidence \ Envelopes(k, t) # {}

LEMMA VerdictGrounds ==
  ASSUME InputInv, LoadInv, in.policy.summary # {}, NEW k \in Runs, NEW v \in AssessmentsOf(k),
         TrustedVSA(v), NEW t \in Tracks, NEW n \in {2, 3}
  PROVE  Verdict(v, k, t).level >= n <=> Grounds(RuleOf(v), v, k, t, n)
PROOF
<1> DEFINE r == RuleOf(v)
           both == v.levels \cap r.allowed
           E == Envelopes(k, t)
<1>1. PICK i \in DOMAIN loaded[k].assessments : v = Envelope[loaded[k].assessments[i].bytes]
  BY DEF AssessmentsOf
<1>2. loaded[k].assessments[i].bytes \in Content /\ v.type = "vsa"
  <2>1. loaded[k].assessments \in Seq(Item)
    BY DEF LoadInv
  <2>2. loaded[k].assessments[i] \in Item
    BY <1>1, <2>1
  <2> QED
    BY <1>1, <2>2 DEF LoadInv, Item
<1>3. \A x, y \in v.levels : x[1] = y[1] /\ x[1] \in Tracks => x = y
  BY <1>1, <1>2, LevelsAssumption
<1>4. /\ Claimed(v, t) \in {0, 2, 3}
      /\ Claimed(v, t) = 3 <=> <<t, 3>> \in both
      /\ Claimed(v, t) = 2 <=> <<t, 2>> \in both
  BY <1>3, ClaimedLevel
<1>5. ExpectedInputs(v, k, t) = E \cup (IF t = "origin" /\ Claimed(v, t) >= 3 THEN r.controls ELSE {})
  BY EnvelopesRaw DEF ExpectedInputs
<1>6. Grounds(r, v, k, t, n) <=>
        /\ v.sorted /\ v.subjects = TrackSubjects(k, t)
        /\ \/ n = 2 /\ <<t, 2>> \in both /\ v.evidence = E
           \/ /\ <<t, 3>> \in both
              /\ \/ /\ t = "origin" /\ v.evidence = E \cup r.controls
                    /\ n = 3 => r.profiles # {} /\ r.profiles \subseteq in.runs[k].report.profiles
                 \/ /\ t = "transform" /\ E \subseteq v.evidence
                    /\ n = 3 => v.evidence \ E # {}
  BY DEF Grounds
<1> HIDE DEF r, both, E
<1> USE DEF Tracks
<1>7. CASE Claimed(v, t) = 0
  <2>1. Verdict(v, k, t).level = 0
    BY <1>7 DEF Verdict
  <2>2. <<t, 2>> \notin both /\ <<t, 3>> \notin both
    BY <1>4, <1>7
  <2> QED
    BY <1>6, <2>1, <2>2 DEF r
<1>8. CASE Claimed(v, t) = 2
  <2>1. ExpectedInputs(v, k, t) = E
    BY <1>5, <1>8
  <2>2. InputsMatch(v, k, t) <=> v.evidence = E
    BY <1>8, <2>1 DEF InputsMatch
  <2>3. Verdict(v, k, t).level =
          IF v.sorted /\ v.subjects = TrackSubjects(k, t) /\ v.evidence = E THEN 2 ELSE 0
    BY <1>8, <2>2 DEF Verdict
  <2>4. <<t, 2>> \in both /\ <<t, 3>> \notin both
    BY <1>4, <1>8
  <2> QED
    BY <1>6, <2>3, <2>4 DEF r
<1>9. CASE Claimed(v, t) = 3 /\ t = "origin"
  <2>1. ExpectedInputs(v, k, t) = E \cup r.controls
    BY <1>5, <1>9
  <2>2. InputsMatch(v, k, t) <=> v.evidence = E \cup r.controls
    BY <1>9, <2>1 DEF InputsMatch
  <2>3. HoldsThree(v, k, t) <=>
          r.profiles # {} /\ r.profiles \subseteq in.runs[k].report.profiles
    BY <1>9 DEF HoldsThree, RequiredProfilesPass, r
  <2>4. Verdict(v, k, t).level =
          IF v.sorted /\ v.subjects = TrackSubjects(k, t) /\ v.evidence = E \cup r.controls
          THEN IF HoldsThree(v, k, t) THEN 3 ELSE 2
          ELSE 0
    BY <1>9, <2>2 DEF Verdict
  <2>5. <<t, 2>> \notin both /\ <<t, 3>> \in both
    BY <1>4, <1>9
  <2> QED
    BY <1>6, <1>9, <2>3, <2>4, <2>5 DEF r
<1>10. CASE Claimed(v, t) = 3 /\ t = "transform"
  <2>1. ExpectedInputs(v, k, t) = E
    BY <1>5, <1>10
  <2>2. InputsMatch(v, k, t) <=> E \subseteq v.evidence
    BY <1>10, <2>1 DEF InputsMatch
  <2>3. HoldsThree(v, k, t) <=> v.evidence # E
    BY <1>10, <2>1 DEF HoldsThree
  <2>4. Verdict(v, k, t).level =
          IF v.sorted /\ v.subjects = TrackSubjects(k, t) /\ E \subseteq v.evidence
          THEN IF HoldsThree(v, k, t) THEN 3 ELSE 2
          ELSE 0
    BY <1>10, <2>2 DEF Verdict
  <2>5. <<t, 2>> \notin both /\ <<t, 3>> \in both
    BY <1>4, <1>10
  <2>6. E \subseteq v.evidence => (v.evidence # E <=> v.evidence \ E # {})
    OBVIOUS
  <2> QED
    BY <1>6, <1>10, <2>3, <2>4, <2>5, <2>6 DEF r
<1>11. t = "origin" \/ t = "transform"
  OBVIOUS
<1>12. \/ Claimed(v, t) = 0
       \/ Claimed(v, t) = 2
       \/ Claimed(v, t) = 3 /\ t = "origin"
       \/ Claimed(v, t) = 3 /\ t = "transform"
  BY <1>4, <1>11
<1> QED
  BY <1>7, <1>8, <1>9, <1>10, <1>12 DEF r

\* An assessment is accepted for a level exactly if it supports it, and then by
\* the one rule that matches it.
LEMMA AcceptedIffSupports ==
  ASSUME InputInv, LoadInv, in.policy.summary # {}, NEW k \in Runs, NEW v \in AssessmentsOf(k),
         NEW t \in Tracks, NEW n \in {2, 3}
  PROVE  /\ Supports(v, k, t, n)
              <=> TrustedVSA(v) /\ SignedVSA(v, k) /\ Verdict(v, k, t).level >= n
         /\ \A r \in Configuration.verifiers : SupportsBy(r, v, k, t, n) => r = RuleOf(v)
PROOF
<1>1. \A r \in Configuration.verifiers :
        SupportsBy(r, v, k, t, n) <=> Vouches(r, v, k) /\ Grounds(r, v, k, t, n)
  BY DEF SupportsBy, Grounds
<1>2. \A r \in Configuration.verifiers :
        Vouches(r, v, k) <=> TrustedVSA(v) /\ SignedVSA(v, k) /\ r = RuleOf(v)
  BY VouchedFor
<1>3. TrustedVSA(v) => RuleOf(v) \in Configuration.verifiers
  BY OneRule DEF TrustedVSA
<1>4. TrustedVSA(v) => (Verdict(v, k, t).level >= n <=> Grounds(RuleOf(v), v, k, t, n))
  BY VerdictGrounds
<1> QED
  BY <1>1, <1>2, <1>3, <1>4 DEF Supports
-----------------------------------------------------------------------------
(* The loop over the assessments. *)

VsaAt(k, i) == Envelope[loaded[k].assessments[i].bytes]

\* Assessment i of run k is accepted for level n of track t.
AcceptedAt(k, i, t, n) ==
  /\ TrustedVSA(VsaAt(k, i)) /\ SignedVSA(VsaAt(k, i), k)
  /\ Verdict(VsaAt(k, i), k, t).level >= n

\* The best level and the groups of run k are those of the assessments before m.
JudgedTo(k, m) ==
  \A t \in Tracks :
    /\ \A n \in {2, 3} : best[k][t] >= n <=> \E i \in 1..(m - 1) : AcceptedAt(k, i, t, n)
    /\ groups[k][t] = {RuleOf(VsaAt(k, i)).group : i \in {j \in 1..(m - 1) : AcceptedAt(k, j, t, 2)}}
    /\ best[k][t] >= 2 => Track(k, t) # {}

Judged(k) == JudgedTo(k, Len(loaded[k].assessments) + 1)

Fresh(k) == \A t \in Tracks : best[k][t] = 0 /\ groups[k][t] = {}

\* Run k is what makes the first run reproduced.
Repeats(k) ==
  /\ in.runs[k].report.policy = in.policy.digest /\ Independent(k) /\ Comparable(k)
  /\ Fingerprint(k) = Fingerprint(1) /\ Judged(k)

Begun == {"assess", "reproduce", "evaluate", "summarize", "issued"}

JudgedInv ==
  /\ pc \in Begun => /\ in.policy.summary # {} /\ Report.policy = in.policy.digest
                     /\ base["transform"] = IF TransformTraceable THEN 1 ELSE 0
  /\ pc = "load" => at = <<1, 1>> /\ \A k \in Runs : Fresh(k)
  /\ pc = "assess" => /\ at[1] = 1 /\ at[2] \in 1..(Len(loaded[1].assessments) + 1)
                      /\ JudgedTo(1, at[2])
                      /\ \A k \in Runs : k > 1 => Fresh(k)
  /\ pc = "reproduce" => /\ at[1] \in Nat /\ at[1] > 1 /\ Judged(1) /\ Reproducible
                         /\ at[1] \in Runs =>
                              /\ at[2] \in 1..(Len(loaded[at[1]].assessments) + 1)
                              /\ JudgedTo(at[1], at[2])
                         /\ \A k \in Runs : k > at[1] => Fresh(k)
  /\ pc \in {"evaluate", "summarize", "issued"} => Judged(1)
  /\ reproduced => /\ pc \in {"evaluate", "summarize", "issued", "raised"} /\ Reproducible
                   /\ \E k \in Runs : k > 1 /\ Repeats(k)

OutcomeInv ==
  /\ pc \in {"summarize", "issued"} => verified = Verified
  /\ summary # {} => pc = "issued" /\ Distinct
  /\ \A s \in summary : s.levels = verified \/ s.levels = {<<"FAILED", 0>>}

\* Nothing of what an assessment is accepted for changes while runs are judged.
LEMMA Frozen ==
  ASSUME UNCHANGED <<in, loaded>>, NEW k, NEW i, NEW t, NEW n
  PROVE  /\ AcceptedAt(k, i, t, n)' <=> AcceptedAt(k, i, t, n)
         /\ RuleOf(VsaAt(k, i))' = RuleOf(VsaAt(k, i))
         /\ Track(k, t)' = Track(k, t)
         /\ Report' = Report
         /\ TransformTraceable' <=> TransformTraceable
         /\ Comparable(k)' <=> Comparable(k)
         /\ Fingerprint(k)' = Fingerprint(k)
PROOF
<1> DEFINE v == VsaAt(k, i)
<1>1. Configuration' = Configuration
  BY DEF Configuration
<1>2. v' = v
  BY DEF VsaAt
<1>3. MatchingRules(v)' = MatchingRules(v)
  BY <1>1, <1>2 DEF MatchingRules
<1>4. RuleOf(v)' = RuleOf(v)
  BY <1>3 DEF RuleOf
<1>5. TrustedVSA(v)' <=> TrustedVSA(v)
  BY <1>2, <1>3 DEF TrustedVSA
<1>6. Assessors(v, k)' = Assessors(v, k)
  BY <1>2, <1>4 DEF Assessors, Cryptographic, KeyKnown, KeyValidAt
<1>7. SignedVSA(v, k)' <=> SignedVSA(v, k)
  BY <1>4, <1>6 DEF SignedVSA
<1>8. \A u : Track(k, u)' = Track(k, u)
  BY DEF Track
<1>9. Claims(v, t)' = Claims(v, t)
  BY <1>2, <1>4 DEF Claims
<1>10. Claimed(v, t)' = Claimed(v, t)
  BY <1>9 DEF Claimed
<1>11. TrackSubjects(k, t)' = TrackSubjects(k, t)
  BY <1>8 DEF TrackSubjects
<1>12. ExpectedInputs(v, k, t)' = ExpectedInputs(v, k, t)
  BY <1>4, <1>8, <1>10 DEF ExpectedInputs
<1>13. InputsMatch(v, k, t)' <=> InputsMatch(v, k, t)
  BY <1>2, <1>10, <1>12 DEF InputsMatch
<1>14. HoldsThree(v, k, t)' <=> HoldsThree(v, k, t)
  BY <1>2, <1>4, <1>12 DEF HoldsThree, RequiredProfilesPass
<1>15. Verdict(v, k, t)' = Verdict(v, k, t)
  BY <1>2, <1>10, <1>11, <1>13, <1>14 DEF Verdict
<1>16. AcceptedAt(k, i, t, n)' <=> AcceptedAt(k, i, t, n)
  BY <1>5, <1>7, <1>15 DEF AcceptedAt
<1>17. Report' = Report
  BY DEF Report
<1>18. TransformTraceable' <=> TransformTraceable
  BY <1>17 DEF TransformTraceable, Track
<1>19. Comparable(k)' <=> Comparable(k)
  BY <1>8 DEF Comparable
<1>20. Fingerprint(k)' = Fingerprint(k)
  <2>1. Roots(k)' = Roots(k)
    <3>1. Captured(k)' = Captured(k)
      BY <1>8 DEF Captured
    <3> QED
      BY <3>1 DEF Roots
  <2>2. \A x : Alike(k, x)' = Alike(k, x)
    BY <1>8 DEF Alike, NodeOf
  <2>3. Nodes(k)' = Nodes(k)
    BY <1>8, <2>2 DEF Nodes, NodeOf
  <2>4. FinalSubjects(k)' = FinalSubjects(k)
    BY DEF FinalSubjects
  <2> QED
    BY <2>1, <2>3, <2>4 DEF Fingerprint
<1> QED
  BY <1>4, <1>8, <1>16, <1>17, <1>18, <1>19, <1>20
-----------------------------------------------------------------------------
(* Results. *)

\* What accepting an assessment does.
LEMMA AcceptEffect ==
  ASSUME ResultInv, NEW k \in Runs, NEW v, Accept(v, k)
  PROVE  /\ best' = [x \in Runs |-> [t \in Tracks |->
                      IF x = k /\ Verdict(v, k, t).level > best[x][t]
                      THEN Verdict(v, k, t).level ELSE best[x][t]]]
         /\ groups' = [x \in Runs |-> [t \in Tracks |->
                      IF x = k /\ Verdict(v, k, t).level >= 2
                      THEN groups[x][t] \cup {RuleOf(v).group} ELSE groups[x][t]]]
PROOF
<1> DEFINE L(t) == Verdict(v, k, t).level
           g == RuleOf(v).group
           b == [t \in Tracks |-> IF L(t) > best[k][t] THEN L(t) ELSE best[k][t]]
           G == [t \in Tracks |-> IF L(t) >= 2 THEN groups[k][t] \cup {g} ELSE groups[k][t]]
<1>1. best' = [best EXCEPT ![k] = b] /\ groups' = [groups EXCEPT ![k] = G]
  BY DEF Accept
<1>2. best \in [Runs -> [Tracks -> {0, 2, 3}]]
  BY DEF ResultInv
<1>3. groups = [x \in Runs |-> [t \in Tracks |-> groups[x][t]]]
  BY DEF ResultInv
<1> HIDE DEF L, g
<1>4. best' = [x \in Runs |-> [t \in Tracks |->
                 IF x = k /\ L(t) > best[x][t] THEN L(t) ELSE best[x][t]]]
  <2>1. ASSUME NEW x \in Runs
        PROVE  best'[x] = [t \in Tracks |->
                 IF x = k /\ L(t) > best[x][t] THEN L(t) ELSE best[x][t]]
    <3>1. CASE x = k
      BY <1>1, <1>2, <3>1
    <3>2. CASE x # k
      BY <1>1, <1>2, <3>2
    <3> QED
      BY <3>1, <3>2
  <2> HIDE DEF b
  <2>2. best' = [x \in Runs |-> best'[x]]
    BY <1>1, <1>2
  <2> QED
    BY <2>1, <2>2
<1>5. groups' = [x \in Runs |-> [t \in Tracks |->
                   IF x = k /\ L(t) >= 2 THEN groups[x][t] \cup {g} ELSE groups[x][t]]]
  <2> HIDE DEF b
  <2>0. \A x \in Runs : groups[x] = [t \in Tracks |-> groups[x][t]]
    BY <1>3
  <2>1. ASSUME NEW x \in Runs
        PROVE  groups'[x] = [t \in Tracks |->
                   IF x = k /\ L(t) >= 2 THEN groups[x][t] \cup {g} ELSE groups[x][t]]
    <3>1. CASE x = k
      <4>1. groups'[x] = G
        BY <1>1, <1>3, <3>1
      <4> QED
        BY <4>1, <3>1
    <3>2. CASE x # k
      <4>1. groups'[x] = groups[x]
        BY <1>1, <1>3, <3>2
      <4> QED
        BY <4>1, <3>2, <2>0
    <3> QED
      BY <3>1, <3>2
  <2> HIDE DEF G
  <2>2. groups' = [x \in Runs |-> groups'[x]]
    BY <1>1, <1>3
  <2> QED
    BY <2>1, <2>2
<1> QED
  BY <1>4, <1>5 DEF L, g

LEMMA ResultAccept ==
  ASSUME InputInv, ResultInv, in.policy.summary # {}, NEW k \in Runs, NEW v, TrustedVSA(v),
         Accept(v, k)
  PROVE  /\ best' \in [Runs -> [Tracks -> {0, 2, 3}]]
         /\ groups' = [x \in Runs |-> [t \in Tracks |-> groups'[x][t]]]
         /\ \A x \in Runs, t \in Tracks : best'[x][t] = 0 <=> groups'[x][t] = {}
PROOF
<1> DEFINE L(t) == Verdict(v, k, t).level
           g == RuleOf(v).group
<1>1. \A t \in Tracks : L(t) \in {0, 2, 3}
  BY VerdictLevel
<1>2. /\ best' = [x \in Runs |-> [t \in Tracks |->
                    IF x = k /\ L(t) > best[x][t] THEN L(t) ELSE best[x][t]]]
      /\ groups' = [x \in Runs |-> [t \in Tracks |->
                      IF x = k /\ L(t) >= 2 THEN groups[x][t] \cup {g} ELSE groups[x][t]]]
  BY AcceptEffect
<1> HIDE DEF L, g
<1>3. \A x \in Runs, t \in Tracks :
        best[x][t] \in {0, 2, 3} /\ (best[x][t] = 0 <=> groups[x][t] = {})
  BY DEF ResultInv
<1>4. \A x \in Runs, t \in Tracks :
        /\ best'[x][t] = IF x = k /\ L(t) > best[x][t] THEN L(t) ELSE best[x][t]
        /\ groups'[x][t] = IF x = k /\ L(t) >= 2 THEN groups[x][t] \cup {g} ELSE groups[x][t]
  BY <1>2
<1>a. ASSUME NEW x \in Runs, NEW t \in Tracks
      PROVE  /\ best'[x][t] \in {0, 2, 3}
             /\ x = k /\ L(t) >= 2 => best'[x][t] # 0
             /\ ~(x = k /\ L(t) >= 2) => best'[x][t] = best[x][t]
  <2> DEFINE l == L(t)
             b == best[x][t]
             c == best'[x][t]
  <2>1. l \in {0, 2, 3} /\ b \in {0, 2, 3}
    BY <1>1, <1>3
  <2>2. c = IF x = k /\ l > b THEN l ELSE b
    BY <1>4
  <2> HIDE DEF l, b, c
  <2>3. /\ c \in {0, 2, 3}
        /\ x = k /\ l >= 2 => c # 0
        /\ ~(x = k /\ l >= 2) => c = b
    BY <2>1, <2>2
  <2> QED
    BY <2>3 DEF l, b, c
<1>5. \A x \in Runs, t \in Tracks : best'[x][t] \in {0, 2, 3}
  BY <1>a
<1>6. best' \in [Runs -> [Tracks -> {0, 2, 3}]]
  BY <1>2, <1>5
<1>7. groups' = [x \in Runs |-> [t \in Tracks |-> groups'[x][t]]]
  BY <1>2, <1>4
<1>8. ASSUME NEW x \in Runs, NEW t \in Tracks
      PROVE  best'[x][t] = 0 <=> groups'[x][t] = {}
  <2>1. CASE x = k /\ L(t) >= 2
    <3>1. best'[x][t] # 0
      BY <1>a, <2>1
    <3>2. groups'[x][t] # {}
      BY <1>4, <2>1
    <3> QED
      BY <3>1, <3>2
  <2>2. CASE ~(x = k /\ L(t) >= 2)
    <3>1. best'[x][t] = best[x][t]
      BY <1>a, <2>2
    <3>2. groups'[x][t] = groups[x][t]
      BY <1>4, <2>2
    <3> QED
      BY <1>3, <3>1, <3>2
  <2> QED
    BY <2>1, <2>2
<1> QED
  BY <1>6, <1>7, <1>8

LEMMA JudgedFrame ==
  ASSUME UNCHANGED <<in, loaded>>, NEW k, best'[k] = best[k], groups'[k] = groups[k]
  PROVE  /\ \A m : JudgedTo(k, m)' <=> JudgedTo(k, m)
         /\ Judged(k)' <=> Judged(k)
         /\ Fresh(k)' <=> Fresh(k)
PROOF
<1>1. \A i, t, n : /\ AcceptedAt(k, i, t, n)' <=> AcceptedAt(k, i, t, n)
                   /\ RuleOf(VsaAt(k, i))' = RuleOf(VsaAt(k, i))
                   /\ Track(k, t)' = Track(k, t)
  BY Frozen
<1>2. \A m : JudgedTo(k, m)' <=> JudgedTo(k, m)
  BY <1>1 DEF JudgedTo
<1> QED
  BY <1>2 DEF Judged, Fresh

LEMMA RepeatsFrame ==
  ASSUME UNCHANGED <<in, loaded>>, NEW k, best'[k] = best[k], groups'[k] = groups[k],
         best'[1] = best[1], groups'[1] = groups[1]
  PROVE  (Repeats(k)' <=> Repeats(k)) /\ (Reproducible' <=> Reproducible)
PROOF
<1>1. Judged(k)' <=> Judged(k)
  BY JudgedFrame
<1>2. /\ Comparable(k)' <=> Comparable(k)
      /\ Fingerprint(k)' = Fingerprint(k)
      /\ Comparable(1)' <=> Comparable(1)
      /\ Fingerprint(1)' = Fingerprint(1)
      /\ Report' = Report
  BY Frozen
<1>3. Independent(k)' <=> Independent(k)
  BY DEF Independent
<1> QED
  BY <1>1, <1>2, <1>3 DEF Repeats, Reproducible

\* A step that takes assessment m of run k into account.
Takes(k, m) ==
  \A t \in Tracks :
    /\ \A n \in {2, 3} : best'[k][t] >= n <=> best[k][t] >= n \/ AcceptedAt(k, m, t, n)
    /\ groups'[k][t] = IF AcceptedAt(k, m, t, 2)
                       THEN groups[k][t] \cup {RuleOf(VsaAt(k, m)).group}
                       ELSE groups[k][t]
    /\ AcceptedAt(k, m, t, 2) => Track(k, t) # {}

LEMMA JudgeOne ==
  ASSUME UNCHANGED <<in, loaded>>, NEW k, NEW m \in Nat \ {0}, JudgedTo(k, m),
         Takes(k, m)
  PROVE  JudgedTo(k, m + 1)'
PROOF
<1>1. \A i, t, n : /\ AcceptedAt(k, i, t, n)' <=> AcceptedAt(k, i, t, n)
                   /\ RuleOf(VsaAt(k, i))' = RuleOf(VsaAt(k, i))
                   /\ Track(k, t)' = Track(k, t)
  BY Frozen
<1>2. 1..(m + 1 - 1) = 1..(m - 1) \cup {m}
  OBVIOUS
<1>3. ASSUME NEW t \in Tracks
      PROVE  /\ \A n \in {2, 3} :
                  best'[k][t] >= n <=> \E i \in 1..(m + 1 - 1) : AcceptedAt(k, i, t, n)
             /\ best'[k][t] >= 2 => Track(k, t) # {}
             /\ groups'[k][t] =
                  {RuleOf(VsaAt(k, i)).group : i \in {j \in 1..(m + 1 - 1) : AcceptedAt(k, j, t, 2)}}
  <2>1. \A n \in {2, 3} : best[k][t] >= n <=> \E i \in 1..(m - 1) : AcceptedAt(k, i, t, n)
    BY DEF JudgedTo
  <2>2. \A n \in {2, 3} :
          best'[k][t] >= n <=> \E i \in 1..(m + 1 - 1) : AcceptedAt(k, i, t, n)
    BY <1>2, <2>1 DEF Takes
  <2>3. best'[k][t] >= 2 => Track(k, t) # {}
    BY DEF JudgedTo, Takes
  <2>4. groups[k][t] =
          {RuleOf(VsaAt(k, i)).group : i \in {j \in 1..(m - 1) : AcceptedAt(k, j, t, 2)}}
    BY DEF JudgedTo
  <2>5. groups'[k][t] =
          {RuleOf(VsaAt(k, i)).group : i \in {j \in 1..(m + 1 - 1) : AcceptedAt(k, j, t, 2)}}
    <3>1. CASE AcceptedAt(k, m, t, 2)
      <4>1. groups'[k][t] = groups[k][t] \cup {RuleOf(VsaAt(k, m)).group}
        BY <3>1 DEF Takes
      <4>2. {j \in 1..(m + 1 - 1) : AcceptedAt(k, j, t, 2)}
              = {j \in 1..(m - 1) : AcceptedAt(k, j, t, 2)} \cup {m}
        BY <1>2, <3>1
      <4> QED
        BY <2>4, <4>1, <4>2
    <3>2. CASE ~AcceptedAt(k, m, t, 2)
      <4>1. groups'[k][t] = groups[k][t]
        BY <3>2 DEF Takes
      <4>2. {j \in 1..(m + 1 - 1) : AcceptedAt(k, j, t, 2)}
              = {j \in 1..(m - 1) : AcceptedAt(k, j, t, 2)}
        BY <1>2, <3>2
      <4> QED
        BY <2>4, <4>1, <4>2
    <3> QED
      BY <3>1, <3>2
  <2> QED
    BY <2>2, <2>3, <2>5
<1>4. \A t \in Tracks :
        /\ \A n \in {2, 3} :
             best'[k][t] >= n <=> \E i \in 1..(m + 1 - 1) : AcceptedAt(k, i, t, n)'
        /\ best'[k][t] >= 2 => Track(k, t)' # {}
        /\ groups'[k][t] =
             {RuleOf(VsaAt(k, i))'.group : i \in {j \in 1..(m + 1 - 1) : AcceptedAt(k, j, t, 2)'}}
  BY <1>1, <1>3
<1> QED
  BY <1>4 DEF JudgedTo

LEMMA AssessEffect ==
  ASSUME InputInv, LoadInv, ResultInv, in.policy.summary # {}, Assess, ~Raise,
         NEW k, k = at[1], NEW m \in Nat \ {0}, m = at[2], JudgedTo(k, m)
  PROVE  /\ k \in Runs /\ m \in DOMAIN loaded[k].assessments
         /\ at' = <<k, m + 1>> /\ JudgedTo(k, m + 1)'
         /\ \A x \in Runs : x # k => best'[x] = best[x] /\ groups'[x] = groups[x]
         /\ UNCHANGED <<in, files, edits, pc, jobs, raw, loaded, base, reproduced, verified, passed,
                        summary>>
         /\ ResultInv'
PROOF
<1> DEFINE v == VsaAt(k, m)
<1>1. /\ k \in Runs /\ m \in DOMAIN loaded[k].assessments /\ at' = <<k, m + 1>>
      /\ UNCHANGED <<in, files, edits, pc, jobs, raw, loaded, base, reproduced, verified, passed,
                     summary>>
  BY DEF Assess
<1>2. \/ ~(TrustedVSA(v) /\ SignedVSA(v, k)) /\ UNCHANGED <<best, groups>>
      \/ TrustedVSA(v) /\ SignedVSA(v, k) /\ ~Unanswerable(v, k) /\ Accept(v, k)
  BY DEF Assess, VsaAt
<1>3. Runs' = Runs
  BY <1>1 DEF Runs
<1>4. CASE ~(TrustedVSA(v) /\ SignedVSA(v, k)) /\ UNCHANGED <<best, groups>>
  <2>1. \A t, n : ~AcceptedAt(k, m, t, n)
    BY <1>4 DEF AcceptedAt
  <2>2. JudgedTo(k, m + 1)'
    <3>1. Takes(k, m)
      BY <1>4, <2>1 DEF Takes
    <3> QED
      BY <1>1, <3>1, JudgeOne
  <2>3. ResultInv'
    BY <1>1, <1>3, <1>4 DEF ResultInv
  <2> QED
    BY <1>1, <1>4, <2>2, <2>3
<1>5. CASE TrustedVSA(v) /\ SignedVSA(v, k) /\ ~Unanswerable(v, k) /\ Accept(v, k)
  <2> DEFINE L(t) == Verdict(v, k, t).level
             g == RuleOf(v).group
  <2>1. \A t \in Tracks : L(t) \in {0, 2, 3}
    BY <1>5, VerdictLevel
  <2>2. \A t, n : AcceptedAt(k, m, t, n) <=> L(t) >= n
    BY <1>5 DEF AcceptedAt
  <2>3. \A x \in Runs, t \in Tracks :
          /\ best'[x][t] = IF x = k /\ L(t) > best[x][t] THEN L(t) ELSE best[x][t]
          /\ groups'[x][t] = IF x = k /\ L(t) >= 2 THEN groups[x][t] \cup {g} ELSE groups[x][t]
    <3>1. /\ best' = [x \in Runs |-> [t \in Tracks |->
                        IF x = k /\ L(t) > best[x][t] THEN L(t) ELSE best[x][t]]]
          /\ groups' = [x \in Runs |-> [t \in Tracks |->
                          IF x = k /\ L(t) >= 2 THEN groups[x][t] \cup {g} ELSE groups[x][t]]]
      BY <1>1, <1>5, AcceptEffect
    <3> HIDE DEF L, g
    <3> QED
      BY <3>1
  <2>4. \A t \in Tracks : L(t) >= 2 => Track(k, t) # {}
    <3> SUFFICES ASSUME NEW t \in Tracks, L(t) >= 2
                 PROVE  Track(k, t) # {}
      OBVIOUS
    <3>1. Claimed(v, t) >= 2
      <4>1. Claimed(v, t) \in {0, 2, 3}
        BY <1>5, ClaimedLevel
      <4>2. Claimed(v, t) # 0
        BY DEF Verdict
      <4> QED
        BY <4>1, <4>2
    <3> QED
      BY <1>5, <3>1 DEF Unanswerable
  <2>5. /\ best' \in [Runs -> [Tracks -> {0, 2, 3}]]
        /\ groups' = [x \in Runs |-> [t \in Tracks |-> groups'[x][t]]]
        /\ \A x \in Runs, t \in Tracks : best'[x][t] = 0 <=> groups'[x][t] = {}
    BY <1>1, <1>5, ResultAccept
  <2>6. ResultInv'
    BY <1>1, <1>3, <2>5 DEF ResultInv
  <2>7. \A x \in Runs : x # k => best'[x] = best[x] /\ groups'[x] = groups[x]
    BY <1>5 DEF Accept, ResultInv
  <2> HIDE DEF L, g
  <2>8. JudgedTo(k, m + 1)'
    <3>1. ASSUME NEW t \in Tracks
          PROVE  /\ \A n \in {2, 3} :
                      best'[k][t] >= n <=> best[k][t] >= n \/ AcceptedAt(k, m, t, n)
                 /\ groups'[k][t] = IF AcceptedAt(k, m, t, 2)
                                    THEN groups[k][t] \cup {RuleOf(VsaAt(k, m)).group}
                                    ELSE groups[k][t]
                 /\ AcceptedAt(k, m, t, 2) => Track(k, t) # {}
      <4> DEFINE l == L(t)
                 b == best[k][t]
                 c == best'[k][t]
      <4>1. l \in {0, 2, 3} /\ b \in {0, 2, 3}
        BY <1>1, <2>1 DEF ResultInv
      <4>2. c = IF l > b THEN l ELSE b
        BY <1>1, <2>3
      <4>3. \A n \in {2, 3} : AcceptedAt(k, m, t, n) <=> l >= n
        BY <2>2
      <4> HIDE DEF l, b, c
      <4>4. \A n \in {2, 3} : c >= n <=> b >= n \/ l >= n
        BY <4>1, <4>2
      <4>5. \A n \in {2, 3} : c >= n <=> b >= n \/ AcceptedAt(k, m, t, n)
        BY <4>3, <4>4
      <4>6. groups'[k][t] = IF AcceptedAt(k, m, t, 2)
                            THEN groups[k][t] \cup {RuleOf(VsaAt(k, m)).group} ELSE groups[k][t]
        BY <1>1, <2>2, <2>3 DEF g
      <4>7. AcceptedAt(k, m, t, 2) => Track(k, t) # {}
        BY <2>2, <2>4
      <4> QED
        BY <4>5, <4>6, <4>7 DEF b, c
    <3>2. UNCHANGED <<in, loaded>>
      BY <1>1
    <3>3. Takes(k, m)
      BY <3>1 DEF Takes
    <3> QED
      BY <3>2, <3>3, JudgeOne
  <2> QED
    BY <1>1, <2>6, <2>7, <2>8
<1> QED
  BY <1>2, <1>4, <1>5

LEMMA LoadedLength ==
  ASSUME LoadInv, NEW k \in Runs
  PROVE  /\ Len(loaded[k].assessments) \in Nat
         /\ DOMAIN loaded[k].assessments = 1..Len(loaded[k].assessments)
PROOF
<1>1. loaded[k].assessments \in Seq(Item)
  BY DEF LoadInv
<1> QED
  BY <1>1

LEMMA AllFrozen ==
  ASSUME UNCHANGED <<in, loaded, best, groups>>
  PROVE  /\ \A k : /\ \A m : JudgedTo(k, m)' <=> JudgedTo(k, m)
                   /\ Judged(k)' <=> Judged(k)
                   /\ Fresh(k)' <=> Fresh(k)
                   /\ Repeats(k)' <=> Repeats(k)
         /\ Reproducible' <=> Reproducible
         /\ TransformTraceable' <=> TransformTraceable
         /\ Report' = Report /\ Runs' = Runs
PROOF
<1>1. \A k : best'[k] = best[k] /\ groups'[k] = groups[k]
  OBVIOUS
<1>2. ASSUME NEW k
      PROVE  /\ \A m : JudgedTo(k, m)' <=> JudgedTo(k, m)
             /\ Judged(k)' <=> Judged(k)
             /\ Fresh(k)' <=> Fresh(k)
             /\ Repeats(k)' <=> Repeats(k)
             /\ Reproducible' <=> Reproducible
             /\ TransformTraceable' <=> TransformTraceable
             /\ Report' = Report
  BY <1>1, JudgedFrame, RepeatsFrame, Frozen
<1> QED
  BY <1>2 DEF Runs

LEMMA FreshIsJudged ==
  ASSUME NEW k, Fresh(k)
  PROVE  JudgedTo(k, 1)
PROOF
<1>1. \A i \in 1..(1 - 1) : FALSE
  OBVIOUS
<1>2. \A t \in Tracks : best[k][t] = 0 /\ groups[k][t] = {}
  BY DEF Fresh
<1> QED
  BY <1>1, <1>2 DEF JudgedTo

LEMMA JudgedRaise ==
  ASSUME ResultInv, JudgedInv, Raise
  PROVE  ResultInv' /\ JudgedInv'
PROOF
<1>1. /\ pc' = "raised"
      /\ UNCHANGED <<in, loaded, best, groups, base, reproduced, passed, summary>>
  BY DEF Raise, outcome
<1>2. /\ Reproducible' <=> Reproducible
      /\ \A k : Repeats(k)' <=> Repeats(k)
      /\ Runs' = Runs
  BY <1>1, AllFrozen
<1>3. ResultInv'
  BY <1>1, <1>2 DEF ResultInv
<1>4. JudgedInv'
  BY <1>1, <1>2 DEF JudgedInv, Begun
<1> QED
  BY <1>3, <1>4

LEMMA JudgedLoad ==
  ASSUME ResultInv, JudgedInv, pc = "load",
         UNCHANGED <<in, pc, outcome>>
  PROVE  ResultInv' /\ JudgedInv'
PROOF
<1>1. UNCHANGED <<in, pc, at, best, groups, base, reproduced, passed, summary>>
  BY DEF outcome
<1>2. Runs' = Runs /\ \A k : Fresh(k)' <=> Fresh(k)
  BY <1>1 DEF Runs, Fresh
<1>3. ResultInv'
  BY <1>1, <1>2 DEF ResultInv
<1>4. ~reproduced
  BY DEF JudgedInv
<1>5. JudgedInv'
  BY <1>1, <1>2, <1>4 DEF JudgedInv, Begun
<1> QED
  BY <1>3, <1>5

LEMMA JudgedStart ==
  ASSUME InputInv, LoadInv, ResultInv, JudgedInv, StartEvaluation, ~Raise
  PROVE  ResultInv' /\ JudgedInv'
PROOF
<1>1. /\ pc = "load" /\ pc' = "assess"
      /\ in.policy.summary # {} /\ Report.policy = in.policy.digest
      /\ UNCHANGED <<in, loaded, at, best, groups, reproduced, passed, summary>>
      /\ base' = [t \in Tracks |->
                    IF t = "origin" THEN (IF OriginTraceable THEN 1 ELSE 0)
                    ELSE IF TransformTraceable THEN 1 ELSE 0]
  BY DEF StartEvaluation
<1>2. /\ \A k : Fresh(k)' <=> Fresh(k)
      /\ \A k, m : JudgedTo(k, m)' <=> JudgedTo(k, m)
      /\ TransformTraceable' <=> TransformTraceable
      /\ Report' = Report /\ Runs' = Runs
  BY <1>1, AllFrozen
<1>3. base' \in [Tracks -> 0..1] /\ base'["transform"] = IF TransformTraceable THEN 1 ELSE 0
  BY <1>1 DEF Tracks
<1>4. ResultInv'
  BY <1>1, <1>2, <1>3 DEF ResultInv
<1>5. /\ \A k \in Runs : Fresh(k)
      /\ at = <<1, 1>> /\ ~reproduced
  BY <1>1 DEF JudgedInv
<1>6. JudgedTo(1, 1)
  BY <1>5, Inputs, FreshIsJudged
<1>7. Len(loaded[1].assessments) \in Nat
  BY LoadedLength, Inputs
<1>8. JudgedInv'
  BY <1>1, <1>2, <1>3, <1>5, <1>6, <1>7 DEF JudgedInv, Begun
<1> QED
  BY <1>4, <1>8

LEMMA JudgedAssess ==
  ASSUME InputInv, LoadInv, ResultInv, JudgedInv, Assess, ~Raise
  PROVE  ResultInv' /\ JudgedInv'
PROOF
<1>1. pc \in {"assess", "reproduce"} /\ at[1] \in Runs
  BY DEF Assess
<1>2. /\ in.policy.summary # {} /\ JudgedTo(at[1], at[2]) /\ at[1] \in Nat /\ ~reproduced
      /\ at[2] \in 1..(Len(loaded[at[1]].assessments) + 1)
  BY <1>1, Inputs DEF JudgedInv, Begun
<1>3. PICK k \in Nat, m \in Nat \ {0} : k = at[1] /\ m = at[2]
  <2>1. at[2] \in Nat \ {0}
    BY <1>1, <1>2, LoadedLength
  <2> QED
    BY <1>2, <2>1
<1>4. /\ k \in Runs /\ m \in DOMAIN loaded[k].assessments
      /\ at' = <<k, m + 1>> /\ JudgedTo(k, m + 1)'
      /\ \A x \in Runs : x # k => best'[x] = best[x] /\ groups'[x] = groups[x]
      /\ UNCHANGED <<in, files, edits, pc, jobs, raw, loaded, base, reproduced, verified, passed,
                     summary>>
      /\ ResultInv'
  BY <1>2, <1>3, AssessEffect
<1>5. m + 1 \in 1..(Len(loaded[k].assessments) + 1)
  BY <1>4, LoadedLength
<1>6. Runs' = Runs /\ Report' = Report /\ (TransformTraceable' <=> TransformTraceable)
  BY <1>4, Frozen DEF Runs
<1>7. /\ at'[1] = k /\ at'[2] = m + 1 /\ JudgedTo(at[1], at[2])'
      /\ at'[2] \in 1..(Len(loaded'[at'[1]].assessments) + 1)
  <2>1. at'[1] = k /\ at'[2] = m + 1
    BY <1>4
  <2>2. at'[2] \in 1..(Len(loaded'[at'[1]].assessments) + 1)
    BY <1>4, <1>5, <2>1
  <2>3. JudgedTo(at[1], at[2])'
    BY <1>4, <2>1 DEF JudgedTo, AcceptedAt, VsaAt
  <2> QED
    BY <2>1, <2>2, <2>3
<1>8. \A x \in Runs : x # k => /\ Fresh(x)' <=> Fresh(x)
                               /\ Judged(x)' <=> Judged(x)
  BY <1>4, JudgedFrame
<1>9. 1 \in Runs /\ \A x \in Runs : x \in Nat
  BY Inputs
<1>10. CASE pc = "assess"
  <2>1. k = 1 /\ \A x \in Runs : x > 1 => Fresh(x)
    BY <1>3, <1>10 DEF JudgedInv
  <2>2. \A x \in Runs : x > 1 => Fresh(x)'
    BY <1>8, <1>9, <2>1
  <2>3. pc' = "assess" /\ ~reproduced'
    BY <1>2, <1>4, <1>10
  <2>4. at'[1] = 1 /\ at'[2] \in 1..(Len(loaded'[1].assessments) + 1) /\ JudgedTo(1, at[2])'
    BY <1>7, <2>1
  <2>5. /\ in'.policy.summary # {} /\ Report'.policy = in'.policy.digest
        /\ base'["transform"] = IF TransformTraceable' THEN 1 ELSE 0
    BY <1>1, <1>4, <1>6 DEF JudgedInv, Begun
  <2>6. JudgedInv'
    BY <1>6, <2>2, <2>3, <2>4, <2>5 DEF JudgedInv
  <2> QED
    BY <1>4, <2>6
<1>11. CASE pc = "reproduce"
  <2>1. k > 1 /\ Judged(1) /\ Reproducible /\ \A x \in Runs : x > k => Fresh(x)
    BY <1>3, <1>11 DEF JudgedInv
  <2>2. \A x \in Runs : x > k => Fresh(x)'
    BY <1>8, <1>9, <2>1
  <2>3. Judged(1)'
    BY <1>8, <1>9, <2>1
  <2>4. Reproducible'
    <3>1. groups'[1] = groups[1] /\ best'[1] = best[1]
      BY <1>4, <1>9, <2>1
    <3> QED
      BY <1>4, <2>1, <3>1, RepeatsFrame
  <2>5. pc' = "reproduce" /\ ~reproduced'
    BY <1>2, <1>4, <1>11
  <2>6. at'[1] \in Nat /\ at'[1] > 1
    BY <1>3, <1>7, <2>1
  <2>7. /\ in'.policy.summary # {} /\ Report'.policy = in'.policy.digest
        /\ base'["transform"] = IF TransformTraceable' THEN 1 ELSE 0
    BY <1>1, <1>4, <1>6 DEF JudgedInv, Begun
  <2>8. \A x \in Runs' : x > at'[1] => Fresh(x)'
    BY <1>6, <1>7, <2>2
  <2>9. JudgedInv'
    BY <1>7, <2>3, <2>4, <2>5, <2>6, <2>7, <2>8 DEF JudgedInv
  <2> QED
    BY <1>4, <2>9
<1> QED
  BY <1>1, <1>10, <1>11

LEMMA JudgedPrimary ==
  ASSUME InputInv, LoadInv, ResultInv, JudgedInv, PrimaryAssessed
  PROVE  ResultInv' /\ JudgedInv'
PROOF
<1>1. /\ pc = "assess" /\ at[2] > Len(loaded[1].assessments) /\ at' = <<2, 1>>
      /\ pc' = IF Reproducible THEN "reproduce" ELSE "evaluate"
      /\ UNCHANGED <<in, loaded, best, groups, base, reproduced, passed, summary>>
  BY DEF PrimaryAssessed
<1>2. /\ \A k : /\ \A m : JudgedTo(k, m)' <=> JudgedTo(k, m)
                /\ Judged(k)' <=> Judged(k)
                /\ Fresh(k)' <=> Fresh(k)
      /\ Reproducible' <=> Reproducible
      /\ TransformTraceable' <=> TransformTraceable
      /\ Report' = Report /\ Runs' = Runs
  BY <1>1, AllFrozen
<1>3. ResultInv'
  BY <1>1, <1>2 DEF ResultInv
<1>4. /\ JudgedTo(1, at[2]) /\ at[2] \in 1..(Len(loaded[1].assessments) + 1) /\ ~reproduced
      /\ \A x \in Runs : x > 1 => Fresh(x)
  BY <1>1 DEF JudgedInv
<1>5. 1 \in Runs /\ \A x \in Runs : x \in Nat
  BY Inputs
<1>6. at[2] = Len(loaded[1].assessments) + 1
  BY <1>1, <1>4, <1>5, LoadedLength
<1>7. Judged(1)'
  BY <1>2, <1>4, <1>6 DEF Judged
<1>8. 2 \in Runs => JudgedTo(2, 1)' /\ 1 \in 1..(Len(loaded'[2].assessments) + 1)
  <2>1. 2 \in Runs => Fresh(2)
    BY <1>4
  <2>2. 2 \in Runs => JudgedTo(2, 1)
    BY <2>1, FreshIsJudged
  <2>3. 2 \in Runs => 1 \in 1..(Len(loaded[2].assessments) + 1)
    <3>1. 2 \in Runs => Len(loaded[2].assessments) \in Nat
      BY LoadedLength
    <3> QED
      BY <3>1
  <2> QED
    BY <1>1, <1>2, <2>2, <2>3
<1>9. \A x \in Runs : x > 2 => Fresh(x)'
  BY <1>2, <1>4, <1>5
<1>10. /\ in'.policy.summary # {} /\ Report'.policy = in'.policy.digest
       /\ base'["transform"] = IF TransformTraceable' THEN 1 ELSE 0
  BY <1>1, <1>2 DEF JudgedInv, Begun
<1>11. at'[1] = 2 /\ at'[2] = 1 /\ ~reproduced'
  BY <1>1, <1>4
<1>12. at'[1] \in Runs' => /\ at'[2] \in 1..(Len(loaded'[at'[1]].assessments) + 1)
                           /\ JudgedTo(at[1], at[2])'
  BY <1>2, <1>8, <1>11 DEF JudgedTo, AcceptedAt, VsaAt
<1>13. JudgedInv'
  <2>1. CASE Reproducible
    BY <1>1, <1>2, <1>7, <1>9, <1>10, <1>11, <1>12, <2>1 DEF JudgedInv
  <2>2. CASE ~Reproducible
    BY <1>1, <1>7, <1>10, <1>11, <2>2 DEF JudgedInv
  <2> QED
    BY <2>1, <2>2
<1> QED
  BY <1>3, <1>13

LEMMA JudgedCandidate ==
  ASSUME InputInv, LoadInv, ResultInv, JudgedInv, JudgeCandidate, ~Raise
  PROVE  ResultInv' /\ JudgedInv'
PROOF
<1>1. pc = "reproduce" /\ at[1] \in Runs
  BY DEF JudgeCandidate
<1>2. /\ JudgedTo(at[1], at[2]) /\ at[1] \in Nat /\ at[1] > 1 /\ ~reproduced
      /\ Judged(1) /\ Reproducible
      /\ at[2] \in 1..(Len(loaded[at[1]].assessments) + 1)
      /\ \A x \in Runs : x > at[1] => Fresh(x)
  BY <1>1, Inputs DEF JudgedInv
<1>3. PICK k \in Nat : k = at[1]
  BY <1>2
<1> DEFINE samePolicy == in.runs[k].report.policy = in.policy.digest
           same == /\ samePolicy /\ Independent(k) /\ Comparable(k)
                   /\ Fingerprint(k) = Fingerprint(1)
<1>4. /\ samePolicy => at[2] > Len(loaded[k].assessments)
      /\ reproduced' = same /\ pc' = IF same THEN "evaluate" ELSE pc
      /\ at' = <<k + 1, 1>>
      /\ UNCHANGED <<in, loaded, best, groups, base, passed, summary>>
  BY <1>3 DEF JudgeCandidate
<1>5. /\ \A x : /\ \A m : JudgedTo(x, m)' <=> JudgedTo(x, m)
                /\ Judged(x)' <=> Judged(x)
                /\ Fresh(x)' <=> Fresh(x)
                /\ Repeats(x)' <=> Repeats(x)
      /\ Reproducible' <=> Reproducible
      /\ TransformTraceable' <=> TransformTraceable
      /\ Report' = Report /\ Runs' = Runs
  BY <1>4, AllFrozen
<1>6. \A x \in Runs : x \in Nat
  BY Inputs
<1>7. same => Repeats(k)
  <2> SUFFICES ASSUME same
               PROVE  Judged(k)
    BY DEF Repeats
  <2>1. at[2] = Len(loaded[k].assessments) + 1
    BY <1>1, <1>2, <1>3, <1>4, LoadedLength
  <2> QED
    BY <1>2, <1>3, <2>1 DEF Judged
<1>8. /\ in'.policy.summary # {} /\ Report'.policy = in'.policy.digest
      /\ base'["transform"] = IF TransformTraceable' THEN 1 ELSE 0
  BY <1>1, <1>4, <1>5 DEF JudgedInv, Begun
<1> HIDE DEF samePolicy
<1>9. reproduced' \in BOOLEAN
  BY <1>4, Zenon
<1>a. pc' \in {"evaluate", "reproduce"}
  BY <1>1, <1>4
<1>10. ResultInv'
  BY <1>4, <1>5, <1>9, <1>a DEF ResultInv
<1>11. CASE same
  <2>1. pc' = "evaluate" /\ Repeats(k)' /\ Judged(1)' /\ Reproducible' /\ k \in Runs' /\ k > 1
    BY <1>1, <1>2, <1>3, <1>4, <1>5, <1>7, <1>11
  <2>2. JudgedInv'
    BY <1>8, <2>1 DEF JudgedInv
  <2> QED
    BY <1>10, <2>2
<1>12. CASE ~same
  <2>1. pc' = "reproduce" /\ ~reproduced'
    BY <1>1, <1>4, <1>12
  <2>2. k + 1 \in Nat /\ k + 1 > 1 /\ at'[1] = k + 1 /\ at'[2] = 1
    BY <1>2, <1>3, <1>4
  <2>3. \A x \in Runs : x > k + 1 => Fresh(x)'
    BY <1>2, <1>3, <1>5, <1>6
  <2>4. k + 1 \in Runs => JudgedTo(k + 1, 1)' /\ 1 \in 1..(Len(loaded'[k + 1].assessments) + 1)
    <3> SUFFICES ASSUME k + 1 \in Runs
                 PROVE  JudgedTo(k + 1, 1) /\ 1 \in 1..(Len(loaded[k + 1].assessments) + 1)
      BY <1>4, <1>5
    <3>1. Fresh(k + 1)
      BY <1>2, <1>3
    <3>2. Len(loaded[k + 1].assessments) \in Nat
      BY LoadedLength
    <3> QED
      BY <3>1, <3>2, FreshIsJudged
  <2>5. at'[1] \in Runs' => /\ at'[2] \in 1..(Len(loaded'[at'[1]].assessments) + 1)
                            /\ JudgedTo(at[1], at[2])'
    BY <1>5, <2>2, <2>4 DEF JudgedTo, AcceptedAt, VsaAt
  <2>6. Judged(1)' /\ Reproducible'
    BY <1>2, <1>5
  <2>7. /\ at'[1] \in Nat /\ at'[1] > 1
        /\ \A x \in Runs' : x > at'[1] => Fresh(x)'
    BY <1>5, <2>2, <2>3
  <2>8. JudgedInv'
    BY <1>8, <2>1, <2>5, <2>6, <2>7 DEF JudgedInv
  <2> QED
    BY <1>10, <2>8
<1> QED
  BY <1>11, <1>12

LEMMA JudgedLate ==
  ASSUME ResultInv, JudgedInv,
         \/ NotReproduced
         \/ Evaluate /\ ~Raise
         \/ Summarize /\ ~Raise
  PROVE  ResultInv' /\ JudgedInv'
PROOF
<1>1. /\ pc \in {"reproduce", "evaluate", "summarize"} /\ pc' \in {"evaluate", "summarize", "issued"}
      /\ UNCHANGED <<in, loaded, best, groups, base, reproduced>>
      /\ passed \in BOOLEAN => passed' \in BOOLEAN
      /\ (\A s \in summary : summary = {s}) => \A s \in summary' : summary' = {s}
  <2>1. CASE NotReproduced
    BY <2>1 DEF NotReproduced, outcome
  <2>2. CASE Evaluate /\ ~Raise
    BY <2>2 DEF Evaluate
  <2>3. CASE Summarize /\ ~Raise
    <3>1. PICK s : summary' = {s}
      BY <2>3 DEF Summarize
    <3>2. \A x \in summary' : summary' = {x}
      BY <3>1
    <3> QED
      BY <2>3, <3>2 DEF Summarize
  <2> QED
    BY <2>1, <2>2, <2>3
<1>2. /\ \A x : Judged(x)' <=> Judged(x)
      /\ \A x : Repeats(x)' <=> Repeats(x)
      /\ Reproducible' <=> Reproducible
      /\ TransformTraceable' <=> TransformTraceable
      /\ Report' = Report /\ Runs' = Runs
  BY <1>1, AllFrozen
<1>3. ResultInv'
  BY <1>1, <1>2 DEF ResultInv
<1>4. JudgedInv'
  <2>1. Judged(1)
    BY <1>1 DEF JudgedInv
  <2>2. /\ in'.policy.summary # {} /\ Report'.policy = in'.policy.digest
        /\ base'["transform"] = IF TransformTraceable' THEN 1 ELSE 0
    BY <1>1, <1>2 DEF JudgedInv, Begun
  <2>3. reproduced' => Reproducible' /\ \E k \in Runs' : k > 1 /\ Repeats(k)'
    BY <1>1, <1>2 DEF JudgedInv
  <2> QED
    BY <1>1, <1>2, <2>1, <2>2, <2>3 DEF JudgedInv
<1> QED
  BY <1>3, <1>4

LEMMA JudgedStep ==
  ASSUME InputInv, LoadInv, ResultInv, JudgedInv, [Next]_vars
  PROVE  ResultInv' /\ JudgedInv'
PROOF
<1>1. CASE Raise
  BY <1>1, JudgedRaise
<1>2. CASE UNCHANGED vars \/ Over
  <2>1. UNCHANGED <<in, loaded, pc, at, best, groups, base, reproduced, passed, summary>>
    BY <1>2 DEF vars, Over
  <2>2. /\ \A k : /\ \A m : JudgedTo(k, m)' <=> JudgedTo(k, m)
                  /\ Judged(k)' <=> Judged(k)
                  /\ Fresh(k)' <=> Fresh(k)
                  /\ Repeats(k)' <=> Repeats(k)
        /\ Reproducible' <=> Reproducible
        /\ TransformTraceable' <=> TransformTraceable
        /\ Report' = Report /\ Runs' = Runs
    BY <2>1, AllFrozen
  <2>3. ResultInv'
    BY <2>1, <2>2 DEF ResultInv
  <2>4. JudgedTo(at[1], at[2])' <=> JudgedTo(at[1], at[2])
    <3>1. PICK a, b : a = at[1] /\ b = at[2]
      OBVIOUS
    <3>2. JudgedTo(at[1], at[2])' <=> JudgedTo(a, b)'
      BY <2>1, <3>1 DEF JudgedTo, AcceptedAt, VsaAt
    <3> QED
      BY <2>2, <3>1, <3>2
  <2>5. JudgedTo(1, at[2])' <=> JudgedTo(1, at[2])
    <3>1. PICK b : b = at[2]
      OBVIOUS
    <3>2. JudgedTo(1, at[2])' <=> JudgedTo(1, b)'
      BY <2>1, <3>1 DEF JudgedTo, AcceptedAt, VsaAt
    <3> QED
      BY <2>2, <3>1, <3>2
  <2>6. JudgedInv'
    BY <2>1, <2>2, <2>4, <2>5 DEF JudgedInv
  <2> QED
    BY <2>3, <2>6
<1>3. CASE (ListDirectory \/ ReadBytes \/ LoadAttestation \/ Edit) /\ ~Raise
  <2>1. pc = "load" /\ UNCHANGED <<in, pc, outcome>>
    BY <1>3 DEF ListDirectory, ReadBytes, LoadAttestation, Edit
  <2> QED
    BY <2>1, JudgedLoad
<1>4. CASE StartEvaluation /\ ~Raise
  BY <1>4, JudgedStart
<1>5. CASE Assess /\ ~Raise
  BY <1>5, JudgedAssess
<1>6. CASE PrimaryAssessed
  BY <1>6, JudgedPrimary
<1>7. CASE JudgeCandidate /\ ~Raise
  BY <1>7, JudgedCandidate
<1>8. CASE NotReproduced \/ (Evaluate /\ ~Raise) \/ (Summarize /\ ~Raise)
  BY <1>8, JudgedLate
<1> QED
  BY <1>1, <1>2, <1>3, <1>4, <1>5, <1>6, <1>7, <1>8 DEF Next, Command

LEMMA JudgedInit ==
  ASSUME Init
  PROVE  ResultInv /\ JudgedInv /\ OutcomeInv
PROOF
<1>1. PICK s \in Scenarios :
       /\ in = [policy |-> s.policy, runs |-> s.runs, edits |-> s.edits]
       /\ best = [k \in DOMAIN s.runs |-> [t \in Tracks |-> 0]]
       /\ groups = [k \in DOMAIN s.runs |-> [t \in Tracks |-> {}]]
  BY DEF Init
<1>2. Runs = DOMAIN s.runs
  BY <1>1 DEF Runs
<1>3. /\ pc = "load" /\ at = <<1, 1>> /\ base = [t \in Tracks |-> 0] /\ reproduced = FALSE
      /\ passed = FALSE /\ summary = {}
  BY DEF Init
<1>4. \A k \in Runs, t \in Tracks : best[k][t] = 0 /\ groups[k][t] = {}
  BY <1>1, <1>2
<1>5. best \in [Runs -> [Tracks -> {0, 2, 3}]] /\ base \in [Tracks -> 0..1]
  BY <1>1, <1>2, <1>3
<1>6. groups = [k \in Runs |-> [t \in Tracks |-> groups[k][t]]]
  BY <1>1, <1>2, <1>4
<1>7. ResultInv
  BY <1>3, <1>4, <1>5, <1>6 DEF ResultInv
<1>8. JudgedInv
  BY <1>3, <1>4 DEF JudgedInv, Fresh, Begun
<1> QED
  BY <1>3, <1>7, <1>8 DEF OutcomeInv
-----------------------------------------------------------------------------
(* The evaluation. *)

LEMMA VerifiedFrame ==
  ASSUME UNCHANGED <<in, loaded, best, base, reproduced>>
  PROVE  Verified' = Verified /\ (Distinct' <=> Distinct)
PROOF
<1>1. \A t : Level(t)' = Level(t)
  BY DEF Level
<1>2. Report' = Report
  BY DEF Report
<1>3. \A p \in Properties : Property(p)' <=> Property(p)
  BY <1>2 DEF Property, RequiredProfilesPass, Properties
<1>4. {<<t, Level(t)>> : t \in {x \in Tracks : Level(x) > 0}}'
        = {<<t, Level(t)>> : t \in {x \in Tracks : Level(x) > 0}}
  BY <1>1
<1>5. {x \in Properties : Property(x)}' = {x \in Properties : Property(x)}
  BY <1>3
<1>6. Verified' = Verified
  BY <1>4, <1>5 DEF Verified
<1>7. References' = References
  BY DEF References, Runs
<1>8. \A x : DescriptorOf(x)' = DescriptorOf(x)
  BY DEF DescriptorOf
<1> QED
  BY <1>6, <1>7, <1>8 DEF Distinct

\* Whatever raises has issued nothing.
LEMMA RaiseIssuesNothing ==
  ASSUME [Next]_vars, Raise
  PROVE  pc # "issued"
PROOF
<1>1. CASE Command
  BY <1>1 DEF Command, ListDirectory, ReadBytes, LoadAttestation, StartEvaluation, Assess,
              PrimaryAssessed, JudgeCandidate, NotReproduced, Evaluate, Summarize
<1>2. CASE Edit
  BY <1>2 DEF Edit
<1>3. CASE Over \/ UNCHANGED vars
  BY <1>3 DEF Over, Raise, vars
<1> QED
  BY <1>1, <1>2, <1>3 DEF Next

LEMMA OutcomeStep ==
  ASSUME OutcomeInv, [Next]_vars
  PROVE  OutcomeInv'
PROOF
<1>1. CASE Raise
  <2>1. summary' = {} /\ pc' = "raised"
    BY <1>1, RaiseIssuesNothing DEF Raise, outcome, OutcomeInv
  <2> QED
    BY <2>1 DEF OutcomeInv
<1>2. CASE UNCHANGED vars \/ Over
  <2>1. UNCHANGED vars
    BY <1>2 DEF Over
  <2>2. Verified' = Verified /\ (Distinct' <=> Distinct)
    BY <2>1, VerifiedFrame DEF vars
  <2> QED
    BY <2>1, <2>2 DEF OutcomeInv, vars
<1>3. CASE Evaluate /\ ~Raise
  <2>1. /\ pc = "evaluate" /\ pc' = "summarize" /\ verified' = Verified
        /\ UNCHANGED <<in, loaded, best, base, reproduced, summary>>
    BY <1>3 DEF Evaluate
  <2>2. Verified' = Verified
    BY <2>1, VerifiedFrame
  <2> QED
    BY <2>1, <2>2 DEF OutcomeInv
<1>4. CASE Summarize /\ ~Raise
  <2>1. /\ pc = "summarize" /\ pc' = "issued" /\ Distinct
        /\ UNCHANGED <<in, loaded, best, base, reproduced, verified>>
        /\ \A s \in summary' : s.levels = verified \/ s.levels = {<<"FAILED", 0>>}
    BY <1>4 DEF Summarize
  <2>2. Verified' = Verified /\ (Distinct' <=> Distinct)
    BY <2>1, VerifiedFrame
  <2> QED
    BY <2>1, <2>2 DEF OutcomeInv
<1>5. CASE /\ ~Raise
           /\ \/ ListDirectory \/ ReadBytes \/ LoadAttestation \/ Edit \/ StartEvaluation \/ Assess
              \/ PrimaryAssessed \/ JudgeCandidate \/ NotReproduced
  <2>1. /\ pc \in {"load", "assess", "reproduce"} /\ pc' \notin {"summarize", "issued"}
        /\ summary' = summary
    BY <1>5 DEF ListDirectory, ReadBytes, LoadAttestation, Edit, StartEvaluation, Assess,
                PrimaryAssessed, JudgeCandidate, NotReproduced, outcome
  <2> QED
    BY <2>1 DEF OutcomeInv
<1> QED
  BY <1>1, <1>2, <1>3, <1>4, <1>5 DEF Next, Command
-----------------------------------------------------------------------------
(* The theorems. *)

AssuranceInv == InputInv /\ LoadInv /\ ResultInv /\ JudgedInv /\ OutcomeInv

\* What is loaded, and what is concluded from it, are related as the parts of
\* AssuranceInv say, at every step of "makoto vsa summarize".
THEOREM AssuranceInvHolds == Spec => []AssuranceInv
PROOF
<1>1. Init => AssuranceInv
  BY LoadInvInit, JudgedInit DEF AssuranceInv
<1>2. AssuranceInv /\ [Next]_vars => AssuranceInv'
  BY InputStep, LoadStep, JudgedStep, OutcomeStep DEF AssuranceInv
<1> QED
  BY <1>1, <1>2, PTL DEF Spec

\* The variables of "makoto vsa summarize" keep their types; a file that was
\* read once is in the queue until it was read again, and a run has a group of
\* assessors for a track exactly if it has a level.
THEOREM TypeCorrect == Spec => []TypeOK
PROOF
<1>1. AssuranceInv => TypeOK
  <2> SUFFICES ASSUME AssuranceInv
               PROVE  TypeOK
    OBVIOUS
  <2>1. InputInv /\ LoadInv /\ ResultInv
    BY DEF AssuranceInv
  <2>2. edits \in 0..MaxEdits
    <3>1. edits \in 0..in.edits /\ in.edits \in 0..MaxEdits /\ MaxEdits \in Nat
      BY <2>1, Inputs DEF LoadInv
    <3> QED
      BY <3>1
  <2>3. \A k \in Runs : \A e \in loaded[k].attestations : e.raw \in Content /\ e.bytes \in Content
    <3>1. \A k \in Runs : loaded[k].attestations \subseteq Item
      BY <2>1 DEF LoadInv
    <3> QED
      BY <3>1 DEF Item
  <2>4. Cardinality(summary) <= 1
    <3>1. CASE summary = {}
      <4>1. Cardinality(summary) = 0
        BY <3>1, FS_EmptySet
      <4> QED
        BY <4>1
    <3>2. CASE summary # {}
      <4>1. PICK s : summary = {s}
        BY <2>1, <3>2 DEF ResultInv
      <4>2. Cardinality(summary) = 1
        BY <4>1, FS_Singleton
      <4> QED
        BY <4>2
    <3> QED
      BY <3>1, <3>2
  <2>5. raw \in Content \cup {NoBytes} /\ (raw # NoBytes => jobs # << >>)
    BY <2>1 DEF LoadInv
  <2>6. files \in [Name -> Content \cup {Absent}]
    BY <2>1 DEF LoadInv
  <2> QED
    BY <2>1, <2>2, <2>3, <2>4, <2>5, <2>6 DEF TypeOK, ResultInv
<1> QED
  BY <1>1, AssuranceInvHolds, PTL

\* The levels of a run that was judged are what its assessments support.
LEMMA BestIsSupported ==
  ASSUME InputInv, LoadInv, in.policy.summary # {}, NEW k \in Runs, Judged(k),
         NEW t \in Tracks, NEW n \in {2, 3}
  PROVE  best[k][t] >= n <=> \E v \in AssessmentsOf(k) : Supports(v, k, t, n)
PROOF
<1> DEFINE len == Len(loaded[k].assessments)
<1>1. len \in Nat /\ DOMAIN loaded[k].assessments = 1..len
  BY LoadedLength
<1>2. 1..(len + 1 - 1) = DOMAIN loaded[k].assessments
  BY <1>1
<1>3. best[k][t] >= n <=> \E i \in DOMAIN loaded[k].assessments : AcceptedAt(k, i, t, n)
  BY <1>2 DEF Judged, JudgedTo
<1>4. \A i \in DOMAIN loaded[k].assessments :
        VsaAt(k, i) \in AssessmentsOf(k) /\ (AcceptedAt(k, i, t, n) <=> Supports(VsaAt(k, i), k, t, n))
  <2>1. \A i \in DOMAIN loaded[k].assessments : VsaAt(k, i) \in AssessmentsOf(k)
    BY DEF AssessmentsOf, VsaAt
  <2> QED
    BY <2>1, AcceptedIffSupports DEF AcceptedAt
<1>5. \A v \in AssessmentsOf(k) : \E i \in DOMAIN loaded[k].assessments : v = VsaAt(k, i)
  BY DEF AssessmentsOf, VsaAt
<1> QED
  BY <1>3, <1>4, <1>5

\* What Verified says of a track.
LEMMA VerifiedLevel ==
  ASSUME InputInv, ResultInv, NEW t \in Tracks, NEW m
  PROVE  <<t, m>> \in Verified <=> m = Level(t) /\ Level(t) > 0
PROOF
<1>1. t # "property"
  BY DEF Tracks
<1>2. <<t, m>> \notin {<<"property", p>> : p \in {x \in Properties : Property(x)}}
  BY <1>1
<1>3. <<t, m>> \in {<<u, Level(u)>> : u \in {x \in Tracks : Level(x) > 0}}
        <=> m = Level(t) /\ Level(t) > 0
  OBVIOUS
<1> QED
  BY <1>2, <1>3 DEF Verified

\* A track is claimed at level 2 or 3 exactly when the run is traceable by
\* itself and one of its assessments supports the level, in whatever order
\* _accepted_assessments meets them: for any number of assessments, rules and
\* statements.
THEOREM LevelIffAssessedHolds == Spec => []LevelIffAssessed
PROOF
<1>1. AssuranceInv => LevelIffAssessed
  <2> SUFFICES ASSUME AssuranceInv, Evaluated, NEW t \in Tracks, NEW n \in {2, 3}
               PROVE  (\E m \in n..3 : <<t, m>> \in verified)
                        <=> (base[t] = 1 /\ \E v \in AssessmentsOf(1) : Supports(v, 1, t, n))
    BY DEF LevelIffAssessed
  <2>1. /\ InputInv /\ LoadInv /\ ResultInv /\ 1 \in Runs
        /\ in.policy.summary # {} /\ Judged(1) /\ verified = Verified
    BY Inputs DEF AssuranceInv, Evaluated, JudgedInv, Begun, OutcomeInv
  <2>2. best[1][t] >= n <=> \E v \in AssessmentsOf(1) : Supports(v, 1, t, n)
    BY <2>1, BestIsSupported
  <2> DEFINE b == best[1][t]
             l == Level(t)
             a == base[t]
  <2>3. b \in {0, 2, 3} /\ a \in 0..1
    BY <2>1 DEF ResultInv
  <2>4. l = IF a >= 1 /\ b > a THEN b ELSE a
    BY DEF Level
  <2>5. \A m \in n..3 : <<t, m>> \in verified <=> m = l /\ l > 0
    BY <2>1, VerifiedLevel
  <2> HIDE DEF a, b, l
  <2>6. l \in 0..3 /\ (l >= n <=> a = 1 /\ b >= n)
    BY <2>3, <2>4
  <2>7. (\E m \in n..3 : m = l /\ l > 0) <=> l >= n
    BY <2>6
  <2> QED
    BY <2>2, <2>5, <2>6, <2>7 DEF a, b
<1> QED
  BY <1>1, AssuranceInvHolds, PTL
-----------------------------------------------------------------------------
(* Reproduction. *)

\* Runs with as many transformations of each kind have matching ones.
LEMMA SameNodes ==
  ASSUME LoadInv, 1 \in Runs, NEW k \in Runs, Nodes(k) = Nodes(1)
  PROVE  \E f \in [Track(1, "transform") -> Track(k, "transform")] :
           /\ {f[e] : e \in DOMAIN f} = Track(k, "transform")
           /\ Cardinality(DOMAIN f) = Cardinality(Track(k, "transform"))
           /\ \A e \in DOMAIN f : NodeOf(f[e]) = NodeOf(e)
PROOF
<1> DEFINE A == Track(1, "transform")
           B == Track(k, "transform")
           D == {NodeOf(e) : e \in A}
<1>1. IsFiniteSet(A) /\ IsFiniteSet(B)
  <2>1. /\ IsFiniteSet(loaded[1].attestations) /\ A \subseteq loaded[1].attestations
        /\ IsFiniteSet(loaded[k].attestations) /\ B \subseteq loaded[k].attestations
    BY DEF LoadInv, Track
  <2> HIDE DEF A, B
  <2> QED
    BY <2>1, FS_Subset
<1>2. D = {NodeOf(e) : e \in B}
  <2>1. DOMAIN Nodes(1) = D /\ DOMAIN Nodes(k) = {NodeOf(e) : e \in B}
    BY DEF Nodes
  <2> QED
    BY <2>1
<1>3. /\ \A n : Alike(1, n) = {e \in A : NodeOf(e) = n}
      /\ \A n : Alike(k, n) = {e \in B : NodeOf(e) = n}
  BY DEF Alike
<1>4. \A n \in D : Cardinality(Alike(1, n)) = Cardinality(Alike(k, n))
  <2>1. \A n \in D : Nodes(1)[n] = Cardinality(Alike(1, n))
    BY DEF Nodes
  <2>2. \A n \in D : Nodes(k)[n] = Cardinality(Alike(k, n))
    BY <1>2 DEF Nodes
  <2> QED
    BY <2>1, <2>2
<1> HIDE DEF A, B
<1>5. \A n \in D : ExistsBijection(Alike(1, n), Alike(k, n))
  <2> SUFFICES ASSUME NEW n \in D
               PROVE  ExistsBijection(Alike(1, n), Alike(k, n))
    OBVIOUS
  <2>1. Alike(1, n) \subseteq A /\ Alike(k, n) \subseteq B
    BY <1>3
  <2>2. IsFiniteSet(Alike(1, n)) /\ IsFiniteSet(Alike(k, n))
    BY <1>1, <2>1, FS_Subset
  <2> QED
    BY <1>4, <2>2, FS_SameCardinalityBij
<1> DEFINE G(n) == CHOOSE h : h \in Bijection(Alike(1, n), Alike(k, n))
           f == [e \in A |-> G(NodeOf(e))[e]]
<1>6. \A n \in D : G(n) \in Bijection(Alike(1, n), Alike(k, n))
  BY <1>5 DEF ExistsBijection
<1>7. \A n \in D : /\ G(n) \in [Alike(1, n) -> Alike(k, n)]
                   /\ \A x, y \in Alike(1, n) : G(n)[x] = G(n)[y] => x = y
                   /\ \A z \in Alike(k, n) : \E x \in Alike(1, n) : G(n)[x] = z
  <2> SUFFICES ASSUME NEW n \in D
               PROVE  /\ G(n) \in [Alike(1, n) -> Alike(k, n)]
                      /\ \A x, y \in Alike(1, n) : G(n)[x] = G(n)[y] => x = y
                      /\ \A z \in Alike(k, n) : \E x \in Alike(1, n) : G(n)[x] = z
    OBVIOUS
  <2>1. G(n) \in Bijection(Alike(1, n), Alike(k, n))
    BY <1>6
  <2> HIDE DEF G
  <2> QED
    BY <2>1, Fun_BijectionProperties
<1> HIDE DEF G
<1>8. \A e \in A : NodeOf(e) \in D /\ e \in Alike(1, NodeOf(e))
  BY <1>3
<1>9. \A e \in A : f[e] \in B /\ NodeOf(f[e]) = NodeOf(e)
  <2> SUFFICES ASSUME NEW e \in A
               PROVE  f[e] \in B /\ NodeOf(f[e]) = NodeOf(e)
    OBVIOUS
  <2>1. f[e] = G(NodeOf(e))[e]
    OBVIOUS
  <2>2. f[e] \in Alike(k, NodeOf(e))
    BY <1>7, <1>8, <2>1
  <2> QED
    BY <1>3, <2>2
<1>10. \A x, y \in A : f[x] = f[y] => x = y
  <2> SUFFICES ASSUME NEW x \in A, NEW y \in A, f[x] = f[y]
               PROVE  x = y
    OBVIOUS
  <2>1. NodeOf(x) = NodeOf(y)
    BY <1>9
  <2>2. f[x] = G(NodeOf(x))[x] /\ f[y] = G(NodeOf(x))[y]
    BY <2>1
  <2>3. x \in Alike(1, NodeOf(x)) /\ y \in Alike(1, NodeOf(x)) /\ NodeOf(x) \in D
    BY <1>8, <2>1
  <2> QED
    BY <1>7, <2>2, <2>3
<1>11. \A z \in B : \E x \in A : f[x] = z
  <2> SUFFICES ASSUME NEW z \in B
               PROVE  \E x \in A : f[x] = z
    OBVIOUS
  <2>1. NodeOf(z) \in D /\ z \in Alike(k, NodeOf(z))
    BY <1>2, <1>3
  <2>2. PICK x \in Alike(1, NodeOf(z)) : G(NodeOf(z))[x] = z
    BY <1>7, <2>1
  <2>3. x \in A /\ NodeOf(x) = NodeOf(z)
    BY <1>3, <2>2
  <2>4. f[x] = z
    BY <2>2, <2>3
  <2> QED
    BY <2>3, <2>4
<1>12. f \in [A -> B] /\ DOMAIN f = A
  BY <1>9
<1> HIDE DEF f, D
<1>13. ExistsBijection(A, B)
  <2>1. f \in Bijection(A, B)
    BY <1>10, <1>11, <1>12, Fun_IsBij
  <2> QED
    BY <2>1, Fun_ExistsBij
<1>14. Cardinality(DOMAIN f) = Cardinality(B)
  BY <1>1, <1>12, <1>13, FS_Bijection
<1>15. {f[e] : e \in DOMAIN f} = B
  BY <1>11, <1>12
<1> QED
  BY <1>9, <1>12, <1>14, <1>15 DEF A, B

\* The groups of a run that was judged are those of the rules by which its
\* assessments support level 2.
LEMMA GroupsAreOfRules ==
  ASSUME InputInv, LoadInv, in.policy.summary # {}, NEW k \in Runs, Judged(k),
         NEW t \in Tracks, NEW v \in AssessmentsOf(k), NEW r \in Configuration.verifiers,
         SupportsBy(r, v, k, t, 2)
  PROVE  r.group \in groups[k][t]
PROOF
<1> DEFINE len == Len(loaded[k].assessments)
<1>1. len \in Nat /\ DOMAIN loaded[k].assessments = 1..len
  BY LoadedLength
<1>2. 1..(len + 1 - 1) = DOMAIN loaded[k].assessments
  BY <1>1
<1>3. PICK i \in DOMAIN loaded[k].assessments : v = VsaAt(k, i)
  BY DEF AssessmentsOf, VsaAt
<1>4. r = RuleOf(VsaAt(k, i)) /\ AcceptedAt(k, i, t, 2)
  <2>1. 2 \in {2, 3} /\ Supports(v, k, t, 2)
    BY DEF Supports
  <2> QED
    BY <1>3, <2>1, AcceptedIffSupports DEF AcceptedAt
<1>5. groups[k][t] = {RuleOf(VsaAt(k, j)).group :
                        j \in {x \in 1..(len + 1 - 1) : AcceptedAt(k, x, t, 2)}}
  BY DEF Judged, JudgedTo
<1> QED
  BY <1>2, <1>3, <1>4, <1>5

\* What Verified says of reproduction.
LEMMA VerifiedReproduced ==
  <<"property", "reproduced">> \in Verified <=> reproduced
PROOF
<1>1. <<"property", "reproduced">> \notin {<<t, Level(t)>> : t \in {x \in Tracks : Level(x) > 0}}
  BY DEF Tracks
<1>2. Property("reproduced") <=> reproduced
  BY DEF Property
<1>3. <<"property", "reproduced">> \in {<<"property", p>> : p \in {x \in Properties : Property(x)}}
        <=> "reproduced" \in Properties /\ Property("reproduced")
  OBVIOUS
<1> QED
  BY <1>1, <1>2, <1>3 DEF Verified, Properties

\* A summary's MAKOTO_REPRODUCED says that another allowed run under the same
\* policy made the same final subjects by the same transformations, that both
\* runs are Transform level 2, and that no assessor of the one is of a group of
\* an assessor of the other, whatever _reproduced was given to choose from.
THEOREM ReproducedMeansIndependentHolds == Spec => []ReproducedMeansIndependent
PROOF
<1>1. AssuranceInv => ReproducedMeansIndependent
  <2> SUFFICES
        ASSUME AssuranceInv, Evaluated, <<"property", "reproduced">> \in verified
        PROVE
          /\ Report.decision = "allow"
          /\ \E n \in {2, 3} : <<"transform", n>> \in verified
          /\ \E k \in Runs \ {1} :
               /\ in.runs[k].report.decision = "allow" /\ in.runs[k].report.policy = Report.policy
               /\ \E v \in AssessmentsOf(k) : Supports(v, k, "transform", 2)
               /\ \A v \in AssessmentsOf(1), w \in AssessmentsOf(k) :
                    \A q, r \in Configuration.verifiers :
                      SupportsBy(q, v, 1, "transform", 2) /\ SupportsBy(r, w, k, "transform", 2)
                        => q.group # r.group
               /\ FinalSubjects(k) = FinalSubjects(1)
               /\ \E f \in [Track(1, "transform") -> Track(k, "transform")] :
                    /\ {f[e] : e \in DOMAIN f} = Track(k, "transform")
                    /\ Cardinality(DOMAIN f) = Cardinality(Track(k, "transform"))
                    /\ \A e \in DOMAIN f : NodeOf(f[e]) = NodeOf(e) /\ Envelope[e.bytes].tool # {}
    BY DEF ReproducedMeansIndependent
  <2>1. /\ InputInv /\ LoadInv /\ ResultInv /\ 1 \in Runs
        /\ in.policy.summary # {} /\ Report.policy = in.policy.digest
        /\ base["transform"] = IF TransformTraceable THEN 1 ELSE 0
        /\ Judged(1) /\ verified = Verified
    BY Inputs DEF AssuranceInv, Evaluated, JudgedInv, Begun, OutcomeInv
  <2>2. reproduced
    BY <2>1, VerifiedReproduced
  <2>3. Reproducible /\ \E k \in Runs : k > 1 /\ Repeats(k)
    BY <2>2 DEF AssuranceInv, JudgedInv
  <2>4. PICK k \in Runs \ {1} : Repeats(k)
    BY <2>3
  <2>5. "transform" \in Tracks
    BY DEF Tracks
  <2>6. Report.decision = "allow" /\ groups[1]["transform"] # {} /\ Comparable(1)
    BY <2>3 DEF Reproducible
  <2>7. \E n \in {2, 3} : <<"transform", n>> \in verified
    <3>1. best[1]["transform"] \in {2, 3}
      BY <2>1, <2>5, <2>6 DEF ResultInv
    <3>2. Track(1, "transform") # {}
      <4>1. best[1]["transform"] >= 2
        BY <3>1
      <4> QED
        BY <2>1, <2>5, <4>1 DEF Judged, JudgedTo
    <3>3. TracingChecks \subseteq Report.passed
      BY <2>1, <2>6, Inputs DEF Report
    <3>4. base["transform"] = 1
      BY <2>1, <3>2, <3>3 DEF TransformTraceable
    <3>5. Level("transform") = best[1]["transform"] /\ Level("transform") > 0
      BY <3>1, <3>4 DEF Level
    <3> QED
      BY <2>1, <2>5, <3>1, <3>5, VerifiedLevel
  <2>8. /\ in.runs[k].report.policy = Report.policy /\ in.runs[k].report.decision = "allow"
        /\ groups[k]["transform"] # {}
        /\ groups[1]["transform"] \cap groups[k]["transform"] = {}
        /\ Fingerprint(k) = Fingerprint(1) /\ Judged(k)
    BY <2>1, <2>4 DEF Repeats, Independent
  <2>9. \E v \in AssessmentsOf(k) : Supports(v, k, "transform", 2)
    <3>1. best[k]["transform"] \in {2, 3}
      BY <2>1, <2>5, <2>8 DEF ResultInv
    <3>2. best[k]["transform"] >= 2
      BY <3>1
    <3> QED
      BY <2>1, <2>5, <2>8, <3>2, BestIsSupported
  <2>10. \A v \in AssessmentsOf(1), w \in AssessmentsOf(k) :
           \A q, r \in Configuration.verifiers :
             SupportsBy(q, v, 1, "transform", 2) /\ SupportsBy(r, w, k, "transform", 2)
               => q.group # r.group
    <3> SUFFICES ASSUME NEW v \in AssessmentsOf(1), NEW w \in AssessmentsOf(k),
                        NEW q \in Configuration.verifiers, NEW r \in Configuration.verifiers,
                        SupportsBy(q, v, 1, "transform", 2), SupportsBy(r, w, k, "transform", 2)
                 PROVE  q.group # r.group
      OBVIOUS
    <3>1. q.group \in groups[1]["transform"]
      BY <2>1, <2>5, GroupsAreOfRules
    <3>2. r.group \in groups[k]["transform"]
      BY <2>1, <2>4, <2>5, <2>8, GroupsAreOfRules
    <3> QED
      BY <2>8, <3>1, <3>2
  <2>11. Nodes(k) = Nodes(1) /\ FinalSubjects(k) = FinalSubjects(1)
    BY <2>8 DEF Fingerprint
  <2>12. PICK f \in [Track(1, "transform") -> Track(k, "transform")] :
           /\ {f[e] : e \in DOMAIN f} = Track(k, "transform")
           /\ Cardinality(DOMAIN f) = Cardinality(Track(k, "transform"))
           /\ \A e \in DOMAIN f : NodeOf(f[e]) = NodeOf(e)
    BY <2>1, <2>4, <2>11, SameNodes
  <2>13. \A e \in DOMAIN f : Envelope[e.bytes].tool # {}
    BY <2>6, <2>12 DEF Comparable
  <2> QED
    BY <2>4, <2>6, <2>7, <2>8, <2>9, <2>10, <2>11, <2>12, <2>13
<1> QED
  BY <1>1, AssuranceInvHolds, PTL

\* A summary with MAKOTO_REPRODUCED refers to a report other than the run's
\* own, of a run that independent assessors accepted: create_summary_vsa lists
\* every report and refuses to list one twice.
THEOREM NotItsOwnReproductionHolds == Spec => []NotItsOwnReproduction
PROOF
<1>1. AssuranceInv => NotItsOwnReproduction
  <2> SUFFICES ASSUME AssuranceInv, NEW s \in summary, <<"property", "reproduced">> \in s.levels
               PROVE  \E k \in Runs \ {1} : /\ in.runs[k].report.bytes # Report.bytes
                                            /\ groups[k]["transform"] # {}
    BY DEF NotItsOwnReproduction
  <2>1. InputInv /\ LoadInv /\ 1 \in Runs
    BY Inputs DEF AssuranceInv
  <2>2. /\ pc = "issued" /\ Distinct
        /\ s.levels = verified \/ s.levels = {<<"FAILED", 0>>}
    BY DEF AssuranceInv, OutcomeInv
  <2>3. <<"property", "reproduced">> # <<"FAILED", 0>>
    <3>1. "property" # "FAILED"
      OBVIOUS
    <3> QED
      BY <3>1
  <2>4. <<"property", "reproduced">> \in Verified
    BY <2>2, <2>3 DEF AssuranceInv, OutcomeInv
  <2>5. reproduced
    BY <2>4, VerifiedReproduced
  <2>6. PICK k \in Runs : k > 1 /\ Repeats(k)
    BY <2>5 DEF AssuranceInv, JudgedInv
  <2>7. k # 1
    BY <2>6
  <2>8. <<k, 0>> \in References /\ <<1, 0>> \in References
    <3>1. ASSUME NEW x \in Runs
          PROVE  <<x, 0>> \in References
      <4>1. Len(loaded[x].assessments) \in Nat
        BY <2>1, LoadedLength
      <4>2. 0 \in 0..Len(loaded[x].assessments)
        BY <4>1
      <4>3. <<x, 0>> \in {x} \X (0..Len(loaded[x].assessments))
        BY <4>2
      <4> QED
        BY <4>3 DEF References
    <3> QED
      BY <2>1, <3>1
  <2>9. DescriptorOf(<<k, 0>>) # DescriptorOf(<<1, 0>>)
    <3>1. <<k, 0>> # <<1, 0>>
      BY <2>7
    <3> QED
      BY <2>2, <2>8, <3>1 DEF Distinct
  <2>10. /\ DescriptorOf(<<k, 0>>) = <<"report", in.runs[k].report.bytes>>
         /\ DescriptorOf(<<1, 0>>) = <<"report", Report.bytes>>
    BY DEF DescriptorOf, Report
  <2>11. in.runs[k].report.bytes # Report.bytes
    BY <2>9, <2>10
  <2>12. groups[k]["transform"] # {}
    BY <2>6 DEF Repeats, Independent
  <2> QED
    BY <2>7, <2>11, <2>12
<1> QED
  BY <1>1, AssuranceInvHolds, PTL
=============================================================================
