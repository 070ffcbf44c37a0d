------------------------- MODULE VerifyBundleProofs -------------------------
(***************************************************************************)
(* Proofs about one verification, for every bundle, policy and request and *)
(* any number of changes by other processes.                               *)
(*                                                                         *)
(* The first part is about evidence: captured bytes are never replaced, an *)
(* unauthorized handoff has nothing of the bundle opened, the variables    *)
(* keep their types, and loaded evidence stays what it was when it was     *)
(* checked (EvidenceInv).                                                  *)
(*                                                                         *)
(* The second part is about the decision.  Errors are never taken back,    *)
(* and only the final rescan ends a verification without one.  So the      *)
(* invariant says what each step leaves behind as long as there is no      *)
(* error (CleanInv), in terms of evidence that no later step changes; an   *)
(* allowed report has all of it.                                           *)
(*                                                                         *)
(* The third part is about the report: its checks tell the same story as   *)
(* its decision, and they name prerequisites as the report schema asks.    *)
(*                                                                         *)
(* The last part is about creation and verification: they agree on what a  *)
(* lineage is, for every accepted job, every consumer that trusts its      *)
(* signers and every order of the verifier's steps, while nobody touches   *)
(* the directory.                                                          *)
(***************************************************************************)
EXTENDS HandoffAgreement, FiniteSetTheorems, SequenceTheorems, WellFoundedInduction, TLAPS

\* Capturing more keys keeps what is captured already.
LEMMA CapturedKeeps ==
  ASSUME NEW keys, NEW k \in DOMAIN have
  PROVE  k \in DOMAIN Captured(keys) /\ Captured(keys)[k] = have[k]
BY DEF Captured

\* artifact_bytes only grows, whatever happens to the files: Step 12 and Step
\* 13 see the very bytes that were hashed.
THEOREM CapturedOnceHolds == Spec => CapturedOnce
<1>1. [Next]_vars => [\A k \in DOMAIN have : k \in DOMAIN have' /\ have'[k] = have[k]]_vars
  <2> SUFFICES ASSUME Next, NEW k \in DOMAIN have
               PROVE  k \in DOMAIN have' /\ have'[k] = have[k]
    OBVIOUS
  <2>1. CASE PrevalidateDatasets
    <3>1. have' = have \/ \E keys : have' = Captured(keys)
      BY <2>1 DEF PrevalidateDatasets, Abort, evidence
    <3> QED BY <3>1, CapturedKeeps
  <2>2. CASE VerifyFinalArtifacts
    <3>1. \E keys : have' = Captured(keys)
      BY <2>2 DEF VerifyFinalArtifacts
    <3> QED BY <3>1, CapturedKeeps
  <2>3. CASE VerifyHistorical
    <3>1. \E keys : have' = Captured(keys)
      BY <2>3 DEF VerifyHistorical
    <3> QED BY <3>1, CapturedKeeps
  <2>4. CASE \/ ScanBundle \/ SnapshotConsumer \/ IndexUnavailable \/ ReadIndex
             \/ ManifestAbsent \/ ManifestRejected \/ LoadManifest \/ AuthorizeHandoff
    <3>1. have' = have
      BY <2>4 DEF ScanBundle, SnapshotConsumer, IndexUnavailable, ReadIndex, ManifestAbsent,
                  ManifestRejected, LoadManifest, AuthorizeHandoff, Terminate, Abort, evidence
    <3> QED BY <3>1
  <2>5. CASE \/ LoadAttestations \/ AuthorizeStatements \/ ValidateMetadataProfiles
             \/ BuildGraph \/ CheckCompleteness \/ HashConsumerOnly
    <3>1. have' = have
      BY <2>5 DEF LoadAttestations, AuthorizeStatements, ValidateMetadataProfiles, BuildGraph,
                  CheckCompleteness, HashConsumerOnly, Abort, evidence
    <3> QED BY <3>1
  <2>6. CASE \/ VerifyDatasetEntries \/ ValidateArtifactProfiles \/ EvaluateFreshness \/ Rescan
    <3>1. have' = have
      BY <2>6 DEF VerifyDatasetEntries, ValidateArtifactProfiles, EvaluateFreshness, Rescan,
                  Abort, evidence
    <3> QED BY <3>1
  <2>7. CASE Environment
    <3>1. have' = have
      BY <2>7 DEF Environment, Rewrite, Replace, ReplaceByLink, Remove, Edit, evidence
    <3> QED BY <3>1
  <2>8. CASE Reported
    <3>1. have' = have
      BY <2>8 DEF Reported, vars
    <3> QED BY <3>1
  <2> QED BY <2>1, <2>2, <2>3, <2>4, <2>5, <2>6, <2>7, <2>8 DEF Next, Verifier
<1> QED BY <1>1, PTL DEF Spec, CapturedOnce

\* With an unauthorized handoff no candidate of Step 8 gets as far as its
\* bytes, so _safe_read is not called.
LEMMA NoBytesUnauthorized ==
  ASSUME ~handoffOK, NEW k
  PROVE  DatasetStage(k) \in {"profile", "no-bytes"}
BY DEF DatasetStage, MaterialStatus

LEMMA NothingOpened ==
  ASSUME NEW keys, keys = {}
  PROVE  OpenedFor(keys) = {}
BY DEF OpenedFor

\* No artifact or dataset entry of the bundle is opened unless the policy
\* authorizes the handoff that maps it.
THEOREM UnauthorizedOpensNothingHolds == Spec => []UnauthorizedOpensNothing
<1>1. Init => OpeningInv
  BY DEF Init, OpeningInv, UnauthorizedOpensNothing
<1>2. OpeningInv /\ [Next]_vars => OpeningInv'
  <2> SUFFICES ASSUME OpeningInv, [Next]_vars
               PROVE  OpeningInv'
    OBVIOUS
  <2> USE DEF OpeningInv, UnauthorizedOpensNothing
  <2>1. CASE ScanBundle \/ SnapshotConsumer \/ IndexUnavailable \/ ReadIndex
    BY <2>1 DEF ScanBundle, SnapshotConsumer, IndexUnavailable, ReadIndex, Terminate, Finalize,
                evidence
  <2>2. CASE ManifestAbsent \/ ManifestRejected \/ LoadManifest
    BY <2>2 DEF ManifestAbsent, ManifestRejected, LoadManifest, Terminate, Finalize, Abort, evidence
  <2>3. CASE AuthorizeHandoff
    BY <2>3 DEF AuthorizeHandoff
  <2>4. CASE LoadAttestations \/ AuthorizeStatements \/ ValidateMetadataProfiles
    BY <2>4 DEF LoadAttestations, AuthorizeStatements, ValidateMetadataProfiles, Abort, evidence
  <2>5. CASE PrevalidateDatasets
    <3>1. CASE Abort
      BY <2>5, <3>1 DEF Abort, evidence
    <3>2. CASE ~Abort
      <4>1. PICK keys :
              /\ keys = {k \in DatasetCandidates : DatasetStage(k) \notin {"profile", "no-bytes"}}
                        \ DOMAIN in.request.materials
              /\ opened' = opened \cup OpenedFor(keys)
        BY <2>5, <3>2 DEF PrevalidateDatasets
      <4>2. ~handoffOK => keys = {}
        BY <4>1, NoBytesUnauthorized
      <4>3. ~handoffOK => opened' = {}
        BY <4>1, <4>2, NothingOpened
      <4>4. handoffOK' = handoffOK /\ pc' = "graph"
        BY <2>5, <3>2 DEF PrevalidateDatasets
      <4> QED BY <4>3, <4>4
    <3> QED BY <3>1, <3>2
  <2>6. CASE BuildGraph \/ CheckCompleteness \/ HashConsumerOnly
    BY <2>6 DEF BuildGraph, CheckCompleteness, HashConsumerOnly, evidence
  <2>7. CASE VerifyFinalArtifacts
    BY <2>7 DEF VerifyFinalArtifacts
  <2>8. CASE VerifyHistorical
    BY <2>8 DEF VerifyHistorical
  <2>9. CASE VerifyDatasetEntries
    BY <2>9 DEF VerifyDatasetEntries
  <2>10. CASE ValidateArtifactProfiles
    BY <2>10 DEF ValidateArtifactProfiles, Abort, evidence
  <2>11. CASE EvaluateFreshness
    BY <2>11 DEF EvaluateFreshness, evidence
  <2>12. CASE Rescan
    <3>1. UNCHANGED evidence /\ pc' = "done"
      BY <2>12 DEF Rescan, Finalize
    <3> QED BY <3>1 DEF evidence
  <2>13. CASE Environment
    <3>1. \E p, node : Edit(p, node)
      BY <2>13 DEF Environment, Rewrite, Replace, ReplaceByLink, Remove
    <3>2. UNCHANGED <<evidence, pc>>
      BY <3>1 DEF Edit
    <3> QED BY <3>2 DEF evidence
  <2>14. CASE UNCHANGED vars
    BY <2>14 DEF vars
  <2> QED BY <2>1, <2>2, <2>3, <2>4, <2>5, <2>6, <2>7, <2>8, <2>9, <2>10, <2>11,
             <2>12, <2>13, <2>14
          DEF Next, Verifier, Reported
<1>3. OpeningInv => UnauthorizedOpensNothing
  BY DEF OpeningInv
<1> QED BY <1>1, <1>2, <1>3, PTL DEF Spec
-----------------------------------------------------------------------------
(* The steps of a verification that has not been cut short: FromX holds X   *)
(* and what comes after it, up to the final rescan.                         *)

FromRescan == {"rescan"}
FromFreshness == {"freshness"} \cup FromRescan
FromProfiles == {"profiles"} \cup FromFreshness
FromEntries == {"entries"} \cup FromProfiles
FromHistorical == {"historical"} \cup FromEntries
FromFinal == {"final"} \cup FromHistorical
FromCompleteness == {"completeness"} \cup FromFinal
FromGraph == {"graph"} \cup FromCompleteness
FromDatasets == {"datasets"} \cup FromGraph
FromMetadata == {"metadata"} \cup FromDatasets
FromAuthorize == {"authorize"} \cup FromMetadata
FromAttestations == {"attestations"} \cup FromAuthorize
FromHandoff == {"handoff"} \cup FromAttestations
FromManifest == {"manifest"} \cup FromHandoff

Ended == {"done", "aborted"}

\* What the loaders leave behind: an index without collisions, a well-formed
\* handoff envelope, statements filed under their own digests.
LoadedInv ==
  /\ \E s \in Scenarios : in = [policy |-> s.policy, request |-> s.request, others |-> s.others]
  /\ disk = [p \in Path |-> disk[p]] /\ \A p \in Path : IsNode(disk[p])
  /\ index # NoBytes => ~Collision(Index)
  /\ manifest # NoBytes => EnvelopeOf(manifest).fault = "none" /\ EnvelopeOf(manifest).type = "handoff"
  /\ \A d \in DOMAIN records : d \in DOMAIN Stmt /\ EnvelopeOf(records[d]).digest = d
  /\ pc \in FromManifest => index # NoBytes
  /\ pc \in FromHandoff => manifest # NoBytes
  /\ pc \notin FromDatasets \cup Ended => authorized = {}
  /\ pc \notin FromGraph \cup Ended => indexed = {}

\* Captured bytes have the digest of their key.  The key of a parsed dataset
\* manifest is an exact subject of an authorized statement.
CapturedInv ==
  /\ \A k \in DOMAIN have : have[k] = k[3]
  /\ \A k \in indexed :
       /\ k \in DOMAIN have /\ k = <<k[1], k[2], k[3]>>
       /\ IsExactSubject(k, authorized)
       /\ DatasetOf[k[3]].fault = "none"

EvidenceInv == TypeOK /\ LoadedInv /\ CapturedInv
-----------------------------------------------------------------------------
(* The report keeps its type. *)

LEMMA CheckNames ==
  Checks = {"load-safely", "parse-strictly", "index-payloads", "core-schemas", "signatures",
            "authorization-thresholds", "metadata-profiles", "authorization",
            "graph-dependency-artifacts", "graph", "roots-and-heads", "completeness-anchor",
            "freshness-anchors", "artifact-bytes", "artifact-profiles", "decision"}
BY DEF Checks, CheckIds

LEMMA DiagnosticType ==
  ASSUME NEW s \in 1..13, NEW c \in Codes, NEW o \in Checks
  PROVE  Diagnostic(s, c, o) \in Diagnostics
BY DEF Diagnostic, Diagnostics

LEMMA CheckRecords ==
  ASSUME NEW st \in Status, NEW pre \in SUBSET Checks
  PROVE  [status |-> st, pre |-> pre] \in CheckRecord
BY DEF CheckRecord

LEMMA SetCheckType ==
  ASSUME NEW chks \in [Checks -> CheckRecord], NEW c \in Checks, NEW st \in Status,
         NEW pre \in SUBSET Checks
  PROVE  SetCheck(chks, c, st, pre) \in [Checks -> CheckRecord]
BY CheckRecords DEF SetCheck

LEMMA FailOwnersType ==
  ASSUME NEW chks \in [Checks -> CheckRecord], NEW errs
  PROVE  FailOwners(chks, errs) \in [Checks -> CheckRecord]
<1>1. [status |-> "fail", pre |-> {}] \in CheckRecord
  BY CheckRecords DEF Status
<1> QED BY <1>1 DEF FailOwners

LEMMA BlockUnreachedType ==
  ASSUME NEW chks \in [Checks -> CheckRecord], NEW retained, NEW prerequisite \in Checks,
         NEW notChecked
  PROVE  BlockUnreached(chks, retained, prerequisite, notChecked) \in [Checks -> CheckRecord]
<1>1. /\ [status |-> "not_checked", pre |-> {}] \in CheckRecord
      /\ [status |-> "skipped", pre |-> {prerequisite}] \in CheckRecord
  BY CheckRecords DEF Status
<1> QED BY <1>1 DEF BlockUnreached

ReportType == errors \subseteq Diagnostics /\ checks \in [Checks -> CheckRecord]

LEMMA RecordType ==
  ASSUME ReportType, NEW errs \in SUBSET Diagnostics, Record(errs)
  PROVE  ReportType'
BY FailOwnersType DEF ReportType, Record

LEMMA FinalizeType ==
  ASSUME NEW errs \in SUBSET Diagnostics, NEW chks \in [Checks -> CheckRecord],
         Finalize(errs, chks)
  PROVE  ReportType' /\ decision' \in {"allow", "deny"} /\ pc' = "done"
<1>1. SetCheck(chks, "decision", "pass", {}) \in [Checks -> CheckRecord]
  BY SetCheckType, CheckNames DEF Status
<1> QED BY <1>1 DEF Finalize, ReportType, Decision

LEMMA TerminateType ==
  ASSUME ReportType, NEW errs \in SUBSET Diagnostics, NEW retained,
         NEW prerequisite \in Checks, NEW notChecked,
         Terminate(errs, retained, prerequisite, notChecked)
  PROVE  /\ ReportType' /\ decision' \in {"allow", "deny"} /\ pc' = "done"
         /\ UNCHANGED <<evidence, disk, edits>>
<1>1. FailOwners(checks, errs) \in [Checks -> CheckRecord]
  BY FailOwnersType DEF ReportType
<1>2. BlockUnreached(FailOwners(checks, errs), retained, prerequisite, notChecked)
        \in [Checks -> CheckRecord]
  BY <1>1, BlockUnreachedType
<1>3. errors \cup errs \in SUBSET Diagnostics
  BY DEF ReportType
<1>4. Finalize(errors \cup errs, BlockUnreached(FailOwners(checks, errs), retained, prerequisite, notChecked))
  BY DEF Terminate
<1>5. UNCHANGED <<evidence, disk, edits>>
  BY DEF Terminate
<1> HIDE DEF Terminate
<1> QED BY <1>2, <1>3, <1>4, <1>5, FinalizeType

LEMMA LoadFaultType ==
  ASSUME NEW p, NEW type, NEW f \in LoadFault(p, type)
  PROVE  f[1] \in 2..4 /\ f[2] \in Codes /\ LoadOwner[f[1]] \in Checks
<1>1. f \in {<<2, "E_BUNDLE_UNSAFE_PATH">>, <<2, "E_JSON_INVALID">>, <<2, "E_ENVELOPE_MALFORMED">>,
             <<2, "E_PAYLOAD_TYPE">>, <<3, "E_JSON_INVALID">>, <<4, "E_CORE_SCHEMA">>}
  BY DEF LoadFault
<1>2. f[1] \in 2..4 /\ f[2] \in Codes
  BY <1>1 DEF Codes
<1> QED BY <1>2, CheckNames DEF LoadOwner

LEMMA ReadCodes == ASSUME NEW k, NEW p PROVE BytesCode(k, p) \subseteq Codes
BY DEF BytesCode, ReadCode, Codes

\* Whatever a dataset manifest's bytes are, Step 8 has a code for it, unless it
\* raises.
LEMMA DatasetCodes ==
  ASSUME NEW k, DatasetOf[k[3]].fault \in {"none", "parse", "version", "schema", "semantic"},
         ~DatasetRaises(k)
  PROVE  /\ DatasetStage(k) \in {"profile", "no-bytes", "absent", "changed", "oserror",
                                 "digest", "media", "none", "parse", "schema", "semantic"}
         /\ DatasetCode(k) \subseteq Codes
<1>1. MaterialStatus(k) \in {"no-bytes", "ok", "absent", "changed", "oserror"}
  BY DEF MaterialStatus, ReadStatus
<1>2. DatasetStage(k) \in {"profile", "no-bytes", "absent", "changed", "oserror",
                           "digest", "media", "none", "parse", "schema", "semantic"}
  <2>1. CASE DatasetProfile(k[2]) \notin ArtifactProfiles(k[1], k[2])
    BY <2>1 DEF DatasetStage
  <2>2. CASE DatasetProfile(k[2]) \in ArtifactProfiles(k[1], k[2]) /\ MaterialStatus(k) # "ok"
    BY <1>1, <2>2 DEF DatasetStage
  <2>3. CASE /\ DatasetProfile(k[2]) \in ArtifactProfiles(k[1], k[2]) /\ MaterialStatus(k) = "ok"
             /\ Material(k) # k[3]
    BY <2>3 DEF DatasetStage
  <2>4. CASE /\ DatasetProfile(k[2]) \in ArtifactProfiles(k[1], k[2]) /\ MaterialStatus(k) = "ok"
             /\ Material(k) = k[3]
    BY <2>4 DEF DatasetStage, DatasetRaises
  <2> QED BY <2>1, <2>2, <2>3, <2>4
<1>3. DatasetCode(k) \subseteq {"E_DATASET_MANIFEST_INVALID", "E_DATASET_MANIFEST_REQUIRED",
                                "E_BUNDLE_UNSAFE_PATH", "E_ARTIFACT_DIGEST", "E_PROFILE_INVALID"}
  BY <1>2 DEF DatasetCode
<1> QED BY <1>2, <1>3 DEF Codes

\* A candidate of Step 8 is the exact key of a subject of an authorized
\* statement.
LEMMA CandidateFacts ==
  ASSUME NEW k \in DatasetCandidates
  PROVE  /\ k = <<k[1], k[2], k[3]>> /\ IsExactSubject(k, authorized)
         /\ k[1] \in authorized
<1>1. \E d, name : k \in SubjectKey(d, name)
  BY DEF DatasetCandidates, RequiredDatasets
<1> QED BY <1>1 DEF SubjectKey, IsExactSubject

LEMMA CandidateFault ==
  ASSUME LoadedInv, TypeOK, NEW k \in DatasetCandidates
  PROVE  DatasetOf[k[3]].fault \in {"none", "parse", "version", "schema", "semantic"}
<1>1. k[1] \in DOMAIN Stmt
  BY CandidateFacts DEF LoadedInv, TypeOK
<1> QED BY <1>1, CandidateFacts, StatementAssumption DEF IsExactSubject

LEMMA ProblemTypes ==
  ASSUME NEW c \in GraphProblems
  PROVE  c \in Codes /\ ProblemOwner(c)[1] \in 1..13 /\ ProblemOwner(c)[2] \in Checks
<1>1. c \in {"E_PREDECESSOR_MISSING", "E_PREDECESSOR_SUBJECT", "E_INPUT_DIGEST",
             "E_DATASET_MANIFEST_REQUIRED", "E_EVENT_ID_DUPLICATE",
             "E_PREDICATE_SEMANTICS_UNSUPPORTED", "E_GRAPH_CYCLE", "E_ROOT_INVALID"}
  <2>1. \A S, m, v, i : EdgeProblem(S, m, v, i) \subseteq
           {"E_PREDECESSOR_MISSING", "E_PREDECESSOR_SUBJECT", "E_INPUT_DIGEST",
            "E_DATASET_MANIFEST_REQUIRED"}
    BY DEF EdgeProblem
  <2>2. \A S, m, v : ProblemCodes(S, m, v) \subseteq
           {"E_PREDECESSOR_MISSING", "E_PREDECESSOR_SUBJECT", "E_INPUT_DIGEST",
            "E_DATASET_MANIFEST_REQUIRED", "E_EVENT_ID_DUPLICATE",
            "E_PREDICATE_SEMANTICS_UNSUPPORTED", "E_GRAPH_CYCLE", "E_ROOT_INVALID"}
    BY <2>1 DEF ProblemCodes
  <2> QED BY <2>2 DEF GraphProblems
<1>2. c \in Codes
  BY <1>1 DEF Codes
<1>3. ProblemOwner(c) \in {<<4, "core-schemas">>, <<8, "graph-dependency-artifacts">>,
                           <<10, "roots-and-heads">>, <<9, "graph">>}
  BY DEF ProblemOwner
<1> QED BY <1>2, <1>3, CheckNames

\* Step 1 and the handoff envelope end the verification or leave the report as
\* it is.
LEMMA ReportTypeEarly ==
  ASSUME EvidenceInv,
         \/ ScanBundle \/ SnapshotConsumer \/ IndexUnavailable \/ ReadIndex
         \/ ManifestAbsent \/ ManifestRejected \/ LoadManifest
  PROVE  /\ ReportType'
         /\ \/ decision' \in {"allow", "deny"} /\ pc' = "done" /\ UNCHANGED <<evidence, disk, edits>>
            \/ UNCHANGED <<errors, checks, decision>>
<1> DEFINE Ends == \E errs \in SUBSET Diagnostics : \E retained, notChecked : \E prerequisite \in Checks :
                     Terminate(errs, retained, prerequisite, notChecked)
<1>1. ReportType
  BY DEF EvidenceInv, TypeOK, ReportType
<1>2. ASSUME Ends
      PROVE  ReportType' /\ decision' \in {"allow", "deny"} /\ pc' = "done" /\ UNCHANGED <<evidence, disk, edits>>
  BY <1>1, <1>2, TerminateType
<1>3. ASSUME UNCHANGED <<errors, checks, decision>> PROVE ReportType'
  BY <1>1, <1>3 DEF ReportType
<1> HIDE DEF Ends
<1>0. /\ 1 \in 1..13 /\ 2 \in 1..13
      /\ {"E_BUNDLE_UNSAFE_PATH", "E_HANDOFF_REQUIRED", "E_JSON_INVALID", "E_CORE_SCHEMA"} \subseteq Codes
      /\ {"load-safely", "parse-strictly", "core-schemas"} \subseteq Checks
  BY CheckNames DEF Codes
<1>4. ASSUME NEW s \in 1..13, NEW c \in Codes, NEW o \in Checks, NEW r, NEW q \in Checks, NEW n,
             Terminate({Diagnostic(s, c, o)}, r, q, n)
      PROVE  Ends
  <2>1. {Diagnostic(s, c, o)} \in SUBSET Diagnostics
    BY DiagnosticType
  <2> QED BY <1>4, <2>1 DEF Ends
<1>5. CASE ScanBundle
  <2>1. Ends \/ UNCHANGED <<errors, checks, decision>>
    BY <1>4, <1>5, <1>0 DEF ScanBundle
  <2> QED BY <1>2, <1>3, <2>1
<1>6. CASE SnapshotConsumer
  <2>1. Ends \/ UNCHANGED <<errors, checks, decision>>
    BY <1>4, <1>6, <1>0 DEF SnapshotConsumer
  <2> QED BY <1>2, <1>3, <2>1
<1>7. CASE IndexUnavailable
  <2>1. \E c \in {"E_BUNDLE_UNSAFE_PATH", "E_HANDOFF_REQUIRED"} :
          Terminate({Diagnostic(1, c, "load-safely")}, {"load-safely"}, "load-safely", {})
    BY <1>7 DEF IndexUnavailable
  <2>2. Ends
    BY <1>4, <2>1, <1>0
  <2> QED BY <1>2, <2>2
<1>8. CASE ReadIndex
  <2>1. Ends \/ UNCHANGED <<errors, checks, decision>>
    BY <1>4, <1>8, <1>0 DEF ReadIndex
  <2> QED BY <1>2, <1>3, <2>1
<1>9. CASE ManifestAbsent
  <2>1. Ends \/ UNCHANGED <<errors, checks, decision>>
    BY <1>4, <1>9, <1>0 DEF ManifestAbsent
  <2> QED BY <1>2, <1>3, <2>1
<1>10. CASE ManifestRejected
  <2>1. PICK f \in LoadFault(Index.manifest, "handoff") :
          Terminate({Diagnostic(f[1], f[2], LoadOwner[f[1]])},
                    {"load-safely", "parse-strictly"} \cup {LoadOwner[s] : s \in 3..f[1]},
                    LoadOwner[f[1]], {})
    BY <1>10 DEF ManifestRejected
  <2>2. f[1] \in 1..13 /\ f[2] \in Codes /\ LoadOwner[f[1]] \in Checks
    BY LoadFaultType
  <2>3. Ends
    BY <1>4, <2>1, <2>2
  <2> QED BY <1>2, <2>3
<1>11. CASE LoadManifest
  BY <1>3, <1>11 DEF LoadManifest, Abort
<1> QED BY <1>5, <1>6, <1>7, <1>8, <1>9, <1>10, <1>11

LEMMA ReportTypeMiddle ==
  ASSUME EvidenceInv,
         \/ AuthorizeHandoff \/ LoadAttestations \/ AuthorizeStatements \/ ValidateMetadataProfiles
         \/ PrevalidateDatasets \/ BuildGraph \/ CheckCompleteness \/ HashConsumerOnly
  PROVE  ReportType' /\ UNCHANGED decision
<1>1. ReportType
  BY DEF EvidenceInv, TypeOK, ReportType
<1>2. ASSUME NEW errs \in SUBSET Diagnostics, Record(errs)
      PROVE  ReportType'
  BY <1>1, <1>2, RecordType
<1>3. ASSUME Abort PROVE ReportType'
  BY <1>1, <1>3 DEF Abort, ReportType
<1>4. \A sigs : SignatureDiagnostics(sigs) \subseteq Diagnostics
  BY DiagnosticType, CheckNames DEF SignatureDiagnostics, Codes
<1>5. CASE AuthorizeHandoff
  <2>1. PICK sigs, errs :
          /\ errs \in SUBSET {Diagnostic(6, "E_SIGNER_UNAUTHORIZED", "authorization-thresholds")}
          /\ Record(SignatureDiagnostics(sigs) \cup errs)
    BY <1>5 DEF AuthorizeHandoff
  <2>2. errs \in SUBSET Diagnostics
    BY <2>1, DiagnosticType, CheckNames DEF Codes
  <2>3. ReportType'
    BY <1>2, <1>4, <2>1, <2>2
  <2> QED BY <1>5, <2>3 DEF AuthorizeHandoff
<1>6. CASE LoadAttestations
  <2>1. AttestationDiagnostics \subseteq Diagnostics
    <3>1. \A p : LoadDiagnostics(p, "statement") \subseteq Diagnostics
      BY LoadFaultType, DiagnosticType DEF LoadDiagnostics
    <3>2. Diagnostic(3, "E_STATEMENT_DIGEST", "index-payloads") \in Diagnostics
      BY DiagnosticType, CheckNames DEF Codes
    <3> QED BY <3>1, <3>2 DEF AttestationDiagnostics
  <2> QED BY <1>2, <1>3, <1>6, <2>1 DEF LoadAttestations, Abort
<1>7. CASE AuthorizeStatements
  <2>1. PICK errs, none :
          /\ none = {d \in DOMAIN records : Candidates(d) = {}}
          /\ errs = (UNION {SignatureDiagnostics(Sigs(d)) : d \in DOMAIN records}) \cup
                    {Diagnostic(6, "E_SIGNER_UNAUTHORIZED", "authorization-thresholds") : d \in none}
          /\ errors' = errors \cup errs
          /\ checks' = IF none = {} THEN FailOwners(checks, errs)
                       ELSE SetCheck(FailOwners(checks, errs), "authorization", "fail", {})
          /\ decision' = decision
    BY <1>7 DEF AuthorizeStatements
  <2>2. errs \subseteq Diagnostics
    BY <1>4, <2>1, DiagnosticType, CheckNames DEF Codes
  <2>3. FailOwners(checks, errs) \in [Checks -> CheckRecord]
    BY <1>1, FailOwnersType DEF ReportType
  <2>4. SetCheck(FailOwners(checks, errs), "authorization", "fail", {}) \in [Checks -> CheckRecord]
    BY <2>3, SetCheckType, CheckNames DEF Status
  <2> QED BY <1>1, <2>1, <2>2, <2>3, <2>4 DEF ReportType
<1>8. CASE ValidateMetadataProfiles
  <2>1. MetadataDiagnostics \subseteq Diagnostics
    <3>1. /\ Diagnostic(7, "E_PROFILE_INVALID", "metadata-profiles") \in Diagnostics
          /\ Diagnostic(7, "E_PROFILE_UNRESOLVED", "metadata-profiles") \in Diagnostics
      BY DiagnosticType, CheckNames DEF Codes
    <3> QED BY <3>1 DEF MetadataDiagnostics
  <2>2. \A S : {Diagnostic(7, "E_PROFILE_UNRESOLVED", "authorization") : d \in S} \subseteq Diagnostics
    BY DiagnosticType, CheckNames DEF Codes
  <2>3. CASE Abort
    BY <1>3, <2>3 DEF Abort
  <2>4. CASE ~Abort
    <3>1. decision' = decision /\ \E S : Record(MetadataDiagnostics \cup {Diagnostic(7, "E_PROFILE_UNRESOLVED", "authorization") : d \in S})
      BY <1>8, <2>4 DEF ValidateMetadataProfiles
    <3> QED BY <1>2, <2>1, <2>2, <3>1
  <2> QED BY <2>3, <2>4
<1>9. CASE PrevalidateDatasets
  <2>1. CASE DatasetUnreadable
    BY <1>3, <1>9, <2>1 DEF PrevalidateDatasets, Abort
  <2>2. CASE ~DatasetUnreadable
    <3>1. UNION {DatasetCode(k) : k \in DatasetCandidates} \subseteq Codes
      BY <2>2, CandidateFault, DatasetCodes DEF EvidenceInv, DatasetUnreadable
    <3>2. {Diagnostic(8, c, "graph-dependency-artifacts") :
             c \in UNION {DatasetCode(k) : k \in DatasetCandidates}} \subseteq Diagnostics
      BY <3>1, DiagnosticType, CheckNames
    <3> QED BY <1>2, <1>9, <2>2, <3>2 DEF PrevalidateDatasets
  <2> QED BY <2>1, <2>2
<1>10. CASE BuildGraph
  <2> DEFINE effective == GraphProblems \ {"E_DATASET_MANIFEST_REQUIRED"}
             errs == {Diagnostic(ProblemOwner(c)[1], c, ProblemOwner(c)[2]) : c \in effective}
             pre == {IF d \in DOMAIN records THEN "authorization" ELSE "index-payloads" :
                       d \in UnavailableHeads}
  <2>1. /\ errors' = errors \cup errs
        /\ checks' = IF effective # {} THEN SetCheck(FailOwners(checks, errs), "graph", "fail", {})
                     ELSE IF UnavailableHeads # {}
                     THEN SetCheck(SetCheck(checks, "graph", "skipped", pre),
                                   "roots-and-heads", "skipped", {"graph"})
                     ELSE checks
        /\ decision' = decision
    BY <1>10 DEF BuildGraph
  <2>2. errs \subseteq Diagnostics
    BY ProblemTypes, DiagnosticType
  <2>3. pre \in SUBSET Checks
    BY CheckNames
  <2> HIDE DEF effective, errs, pre
  <2>4. SetCheck(FailOwners(checks, errs), "graph", "fail", {}) \in [Checks -> CheckRecord]
    BY <1>1, FailOwnersType, SetCheckType, CheckNames DEF Status, ReportType
  <2>5. SetCheck(checks, "graph", "skipped", pre) \in [Checks -> CheckRecord]
    BY <1>1, <2>3, SetCheckType, CheckNames DEF Status, ReportType
  <2>6. SetCheck(SetCheck(checks, "graph", "skipped", pre), "roots-and-heads", "skipped", {"graph"})
          \in [Checks -> CheckRecord]
    BY <2>5, SetCheckType, CheckNames DEF Status
  <2> QED BY <1>1, <2>1, <2>2, <2>4, <2>6 DEF ReportType
<1>11. CASE CheckCompleteness
  <2>1. {Diagnostic(11, "E_MANIFEST_SET", "completeness-anchor")} \in SUBSET Diagnostics
    BY DiagnosticType, CheckNames DEF Codes
  <2> QED BY <1>2, <1>11, <2>1 DEF CheckCompleteness
<1>12. CASE HashConsumerOnly
  <2>1. ConsumerDiagnostics \subseteq Diagnostics
    BY DiagnosticType, CheckNames DEF ConsumerDiagnostics, Codes
  <2> DEFINE skipped == SetCheck(SetCheck(checks, "completeness-anchor", "skipped",
                                          {"authorization-thresholds"}),
                                 "freshness-anchors", "skipped", {"authorization-thresholds"})
             hashed == FailOwners(skipped, ConsumerDiagnostics)
             bytes == IF ConsumerChecked # {} THEN hashed
                      ELSE SetCheck(hashed, "artifact-bytes", "not_checked", {})
  <2>2. /\ errors' = errors \cup ConsumerDiagnostics
        /\ checks' = SetCheck(bytes, "artifact-profiles", "not_checked", {})
        /\ decision' = decision
    BY <1>12 DEF HashConsumerOnly
  <2>3. skipped \in [Checks -> CheckRecord]
    BY <1>1, SetCheckType, CheckNames DEF Status, ReportType
  <2> HIDE DEF skipped
  <2>4. hashed \in [Checks -> CheckRecord]
    BY <2>3, FailOwnersType
  <2> HIDE DEF hashed
  <2>5. bytes \in [Checks -> CheckRecord]
    BY <2>4, SetCheckType, CheckNames DEF Status
  <2> HIDE DEF bytes
  <2>6. SetCheck(bytes, "artifact-profiles", "not_checked", {}) \in [Checks -> CheckRecord]
    BY <2>5, SetCheckType, CheckNames DEF Status
  <2> QED BY <1>1, <2>1, <2>2, <2>6 DEF ReportType
<1> QED BY <1>5, <1>6, <1>7, <1>8, <1>9, <1>10, <1>11, <1>12

LEMMA ReportTypeLate ==
  ASSUME EvidenceInv,
         \/ VerifyFinalArtifacts \/ VerifyHistorical \/ VerifyDatasetEntries
         \/ ValidateArtifactProfiles \/ EvaluateFreshness \/ Rescan
  PROVE  /\ ReportType'
         /\ UNCHANGED decision \/ (Rescan /\ decision' \in {"allow", "deny"} /\ pc' = "done")
<1>1. ReportType
  BY DEF EvidenceInv, TypeOK, ReportType
<1>2. ASSUME NEW errs \in SUBSET Diagnostics, Record(errs)
      PROVE  ReportType'
  BY <1>1, <1>2, RecordType
<1>3. ASSUME Abort PROVE ReportType'
  BY <1>1, <1>3 DEF Abort, ReportType
<1>4. /\ \A S : {Diagnostic(11, "E_MANIFEST_SET", "completeness-anchor") : x \in S} \subseteq Diagnostics
      /\ \A S : S \subseteq Codes =>
           /\ {Diagnostic(12, c, "artifact-bytes") : c \in S} \subseteq Diagnostics
           /\ {Diagnostic(13, c, "artifact-profiles") : c \in S} \subseteq Diagnostics
           /\ {Diagnostic(11, c, "freshness-anchors") : c \in S} \subseteq Diagnostics
  BY DiagnosticType, CheckNames DEF Codes
<1>5. CASE VerifyFinalArtifacts
  <2>1. PICK unmapped, read, chks, bytes, all :
          /\ errors' = errors
               \cup {Diagnostic(11, "E_MANIFEST_SET", "completeness-anchor") : i \in unmapped}
               \cup {Diagnostic(12, c, "artifact-bytes") :
                       c \in UNION {BytesCode(FinalKey(Manifest.artifacts[i]),
                                              Index.artifacts[FinalKey(Manifest.artifacts[i])]) : i \in read}}
          /\ chks \in {checks, SetCheck(checks, "completeness-anchor", "fail", {})}
          /\ bytes \in {chks, SetCheck(chks, "artifact-bytes", "fail", {}),
                        SetCheck(chks, "artifact-bytes", "skipped", {"completeness-anchor"})}
          /\ checks' \in {bytes, SetCheck(bytes, "artifact-profiles", "skipped", {"completeness-anchor"})}
          /\ decision' = decision
    <3> DEFINE n == Len(Manifest.artifacts)
               A(i) == Manifest.artifacts[i]
               eligible == {i \in 1..n : Eligible(A(i))}
               unmapped == {i \in eligible : ~FinalMapped(FinalKey(A(i)))}
               toRead == {i \in eligible \ unmapped : FinalKey(A(i)) \notin DOMAIN have}
               failing == {i \in eligible : ~FinalPasses(FinalKey(A(i)))}
               marks == failing \cup (1..n \ eligible)
               last == CHOOSE i \in marks : \A j \in marks : j <= i
               mapped == IF unmapped = {} THEN checks
                         ELSE SetCheck(checks, "completeness-anchor", "fail", {})
               bytes == IF marks = {} THEN mapped
                        ELSE IF last \in eligible THEN SetCheck(mapped, "artifact-bytes", "fail", {})
                        ELSE SetCheck(mapped, "artifact-bytes", "skipped", {"completeness-anchor"})
    <3>1. /\ errors' = errors
               \cup {Diagnostic(11, "E_MANIFEST_SET", "completeness-anchor") : i \in unmapped}
               \cup {Diagnostic(12, c, "artifact-bytes") :
                       c \in UNION {BytesCode(FinalKey(A(i)), Index.artifacts[FinalKey(A(i))]) :
                                    i \in toRead}}
          /\ checks' = IF eligible = 1..n THEN bytes
                       ELSE SetCheck(bytes, "artifact-profiles", "skipped", {"completeness-anchor"})
          /\ decision' = decision
      BY <1>5 DEF VerifyFinalArtifacts
    <3> HIDE DEF eligible, unmapped, toRead, failing, last
    <3>2. /\ mapped \in {checks, SetCheck(checks, "completeness-anchor", "fail", {})}
          /\ bytes \in {mapped, SetCheck(mapped, "artifact-bytes", "fail", {}),
                        SetCheck(mapped, "artifact-bytes", "skipped", {"completeness-anchor"})}
          /\ checks' \in {bytes, SetCheck(bytes, "artifact-profiles", "skipped", {"completeness-anchor"})}
      BY <3>1
    <3> HIDE DEF mapped, bytes
    <3> QED BY <3>1, <3>2
  <2>2. UNION {BytesCode(FinalKey(Manifest.artifacts[i]),
                         Index.artifacts[FinalKey(Manifest.artifacts[i])]) : i \in read} \subseteq Codes
    BY ReadCodes
  <2>3. errors' \subseteq Diagnostics
    BY <1>1, <1>4, <2>1, <2>2 DEF ReportType
  <2>4. chks \in [Checks -> CheckRecord]
    BY <1>1, <2>1, SetCheckType, CheckNames DEF Status, ReportType
  <2>5. bytes \in [Checks -> CheckRecord]
    BY <2>1, <2>4, SetCheckType, CheckNames DEF Status
  <2>6. checks' \in [Checks -> CheckRecord]
    BY <2>1, <2>5, SetCheckType, CheckNames DEF Status
  <2> QED BY <2>1, <2>3, <2>6 DEF ReportType
<1>6. CASE VerifyHistorical
  <2>1. UNION {HistoricalCode(k) : k \in HistoricalKeys} \subseteq Codes
    <3>1. \A k : HistoricalCode(k) \subseteq Codes
      BY ReadCodes DEF HistoricalCode, Codes
    <3> QED BY <3>1
  <2>2. \E S : Record({Diagnostic(11, "E_MANIFEST_SET", "completeness-anchor") : k \in S}
                      \cup {Diagnostic(12, c, "artifact-bytes") :
                              c \in UNION {HistoricalCode(k) : k \in HistoricalKeys}})
    BY <1>6 DEF VerifyHistorical
  <2>3. ReportType'
    BY <1>2, <1>4, <2>1, <2>2
  <2> QED BY <1>6, <2>3 DEF VerifyHistorical
<1>7. CASE VerifyDatasetEntries
  <2>1. \A S : UNION {EntryCode(m) : m \in S} \subseteq Codes
    BY DEF EntryCode, Codes
  <2>2. \A S : {Diagnostic(8, "E_DATASET_MANIFEST_REQUIRED", "graph-dependency-artifacts") : m \in S}
               \subseteq Diagnostics
    BY DiagnosticType, CheckNames DEF Codes
  <2>3. \E S, T : Record({Diagnostic(8, "E_DATASET_MANIFEST_REQUIRED", "graph-dependency-artifacts") : m \in S}
                         \cup {Diagnostic(12, c, "artifact-bytes") : c \in UNION {EntryCode(m) : m \in T}})
    BY <1>7 DEF VerifyDatasetEntries
  <2>4. ReportType'
    BY <1>2, <1>4, <2>1, <2>2, <2>3
  <2> QED BY <1>7, <2>4 DEF VerifyDatasetEntries
<1>8. CASE ValidateArtifactProfiles
  <2>1. CASE Abort
    BY <1>3, <2>1 DEF Abort
  <2>2. CASE ~Abort
    <3> DEFINE codes == (UNION {UNION {ProfileCode(k, p) : p \in Evaluated(k)} : k \in Profiled})
                        \cup {"E_PROFILE_INVALID" : k \in {j \in Profiled : Conflicting(j)}}
               errs == {Diagnostic(13, c, "artifact-profiles") : c \in codes}
    <3>1. /\ errors' = errors \cup errs
          /\ checks' \in {SetCheck(checks, "artifact-profiles", "fail", {}), FailOwners(checks, errs)}
          /\ decision' = decision
      BY <1>8, <2>2 DEF ValidateArtifactProfiles
    <3>2. codes \subseteq Codes
      <4>1. \A k, p : ProfileCode(k, p) \subseteq Codes
        BY DEF ProfileCode, Codes
      <4> QED BY <4>1 DEF Codes
    <3>3. errs \subseteq Diagnostics
      BY <1>4, <3>2
    <3>4. checks' \in [Checks -> CheckRecord]
      BY <1>1, <3>1, SetCheckType, FailOwnersType, CheckNames DEF Status, ReportType
    <3> QED BY <1>1, <3>1, <3>3, <3>4 DEF ReportType
  <2> QED BY <2>1, <2>2
<1>9. CASE EvaluateFreshness
  <2>1. FreshnessCodes \subseteq Codes
    <3>1. \A m \in FreshnessMethods : AnchorCode(m) \in Codes
      BY DEF FreshnessMethods, AnchorCode, Codes
    <3> QED BY <3>1 DEF FreshnessCodes, Codes
  <2>2. RequirementDiagnostics \subseteq Diagnostics
    BY DiagnosticType, CheckNames DEF RequirementDiagnostics, Codes
  <2> QED BY <1>2, <1>4, <1>9, <2>1, <2>2 DEF EvaluateFreshness
<1>10. CASE Rescan
  <2>1. \E errs \in SUBSET {Diagnostic(12, "E_BUNDLE_UNSAFE_PATH", "artifact-bytes")} :
          Finalize(errors \cup errs, FailOwners(checks, errs))
    BY <1>10 DEF Rescan
  <2>2. {Diagnostic(12, "E_BUNDLE_UNSAFE_PATH", "artifact-bytes")} \subseteq Diagnostics
    BY DiagnosticType, CheckNames DEF Codes
  <2> QED BY <1>1, <1>10, <2>1, <2>2, FinalizeType, FailOwnersType DEF ReportType
<1> QED BY <1>5, <1>6, <1>7, <1>8, <1>9, <1>10
-----------------------------------------------------------------------------
(* The evidence keeps its type and what was checked of it. *)

Places == {"scan", "snapshot", "index"} \cup FromManifest \cup Ended

LEMMA PlaceNames ==
  Places = {"scan", "snapshot", "index", "manifest", "handoff", "attestations", "authorize",
            "metadata", "datasets", "graph", "completeness", "final", "historical", "entries",
            "profiles", "freshness", "rescan", "done", "aborted"}
BY DEF Places, FromManifest, FromHandoff, FromAttestations, FromAuthorize, FromMetadata,
       FromDatasets, FromGraph, FromCompleteness, FromFinal, FromHistorical, FromEntries,
       FromProfiles, FromFreshness, FromRescan, Ended

\* A step from p to q neither skips a loader nor forgets what it has loaded.
Forward(p, q) ==
  /\ q \in Places
  /\ q \in FromManifest => p \in FromManifest
  /\ q \in FromHandoff => p \in FromHandoff
  /\ q \notin FromDatasets \cup Ended => p \notin FromDatasets \cup Ended
  /\ q \notin FromGraph \cup Ended => p \notin FromGraph \cup Ended

LEMMA EvidenceKept ==
  ASSUME EvidenceInv, UNCHANGED <<evidence, disk, edits>>, ReportType',
         decision' \in {"none", "allow", "deny"}, Forward(pc, pc')
  PROVE  EvidenceInv'
<1> USE DEF evidence
<1>1. TypeOK'
  BY PlaceNames DEF EvidenceInv, TypeOK, ReportType, Forward
<1>2. LoadedInv'
  BY DEF EvidenceInv, LoadedInv, Forward, Index, Collision
<1>3. CapturedInv'
  BY DEF EvidenceInv, CapturedInv, IsExactSubject
<1> QED BY <1>1, <1>2, <1>3 DEF EvidenceInv

LEMMA ReadFacts ==
  ASSUME EvidenceInv, NEW p, ReadStatus(p) = "ok"
  PROVE  p \in Path /\ Bytes(p) \in Content
<1>1. p \in Path
  BY DEF ReadStatus, IsInventoriedFile, EvidenceInv, TypeOK
<1> QED BY <1>1 DEF EvidenceInv, LoadedInv, IsNode, Bytes

LEMMA LoadFacts ==
  ASSUME EvidenceInv, NEW p, NEW type, LoadFault(p, type) = {}, ~EnvelopeRaises(p)
  PROVE  /\ Bytes(p) \in Content /\ EnvelopeOf(Bytes(p)).fault = "none"
         /\ EnvelopeOf(Bytes(p)).type = type
<1>1. ReadStatus(p) = "ok"
  BY DEF LoadFault
<1>2. Bytes(p) \in Content
  BY <1>1, ReadFacts
<1> QED BY <1>1, <1>2, EnvelopeAssumption DEF LoadFault, EnvelopeRaises

\* No key has two sources of bytes.
LEMMA MappedMaterial ==
  ASSUME EvidenceInv, pc \in FromManifest, NEW k \in DOMAIN Index.artifacts
  PROVE  Material(k) = Bytes(Index.artifacts[k])
<1>1. k \notin DOMAIN in.request.materials
  BY DEF EvidenceInv, LoadedInv, Collision
<1> QED BY <1>1 DEF Material

LEMMA CapturedExact ==
  ASSUME CapturedInv, NEW keys, have' = Captured(keys),
         \A k \in keys : k \in DOMAIN have \/ Material(k) = k[3]
  PROVE  /\ \A k \in DOMAIN have' : have'[k] = k[3]
         /\ DOMAIN have' = DOMAIN have \cup keys
BY DEF Captured, CapturedInv

LEMMA OpenedPaths ==
  ASSUME EvidenceInv, NEW keys
  PROVE  OpenedFor(keys) \subseteq Path
BY DEF OpenedFor, IsInventoriedFile, EvidenceInv, TypeOK

LEMMA InitEvidence == Init => EvidenceInv
<1> SUFFICES ASSUME Init PROVE EvidenceInv
  OBVIOUS
<1>1. PICK s \in Scenarios :
        /\ in = [policy |-> s.policy, request |-> s.request, others |-> s.others]
        /\ disk = s.disk
  BY DEF Init
<1>2. disk = [p \in Path |-> disk[p]] /\ \A p \in Path : IsNode(disk[p])
  BY <1>1, ScenarioAssumption
<1>3. DOMAIN EmptyMap = {}
  BY DEF EmptyMap
<1>4. InitialChecks \in [Checks -> CheckRecord]
  BY CheckRecords DEF InitialChecks, Status
<1>5. TypeOK
  <2>1. DOMAIN disk = Path /\ edits \in 0..MaxEdits
    BY <1>2, MaxEditsAssumption DEF Init
  <2>2. /\ DOMAIN inventory \subseteq Path /\ DOMAIN records \subseteq Digest
        /\ authorized \subseteq DOMAIN records /\ indexed \subseteq DOMAIN have
    BY <1>3 DEF Init
  <2>3. errors \subseteq Diagnostics /\ checks \in [Checks -> CheckRecord]
    BY <1>4 DEF Init
  <2> QED BY <2>1, <2>2, <2>3 DEF Init, TypeOK
<1>6. LoadedInv
  BY <1>1, <1>2, <1>3 DEF Init, LoadedInv, FromManifest, FromHandoff, FromAttestations, FromAuthorize,
     FromMetadata, FromDatasets, FromGraph, FromCompleteness, FromFinal, FromHistorical, FromEntries,
     FromProfiles, FromFreshness, FromRescan, Ended
<1>7. CapturedInv
  BY <1>3 DEF Init, CapturedInv
<1> QED BY <1>5, <1>6, <1>7 DEF EvidenceInv

LEMMA EvidenceEarly ==
  ASSUME EvidenceInv,
         \/ ScanBundle \/ SnapshotConsumer \/ IndexUnavailable \/ ReadIndex
         \/ ManifestAbsent \/ ManifestRejected \/ LoadManifest
  PROVE  EvidenceInv'
<1> USE DEF evidence, FromManifest, FromHandoff, FromAttestations, FromAuthorize, FromMetadata,
        FromDatasets, FromGraph, FromCompleteness, FromFinal, FromHistorical, FromEntries,
        FromProfiles, FromFreshness, FromRescan, Ended
<1>1. ReportType'
  BY ReportTypeEarly
<1>2. CASE pc' = "done" /\ UNCHANGED <<evidence, disk, edits>> /\ decision' \in {"allow", "deny"}
  BY <1>1, <1>2, EvidenceKept DEF Forward, Places
<1>3. CASE UNCHANGED <<errors, checks, decision>>
  <2>0. decision' \in {"none", "allow", "deny"}
    BY <1>3 DEF EvidenceInv, TypeOK
  <2>1. CASE SnapshotConsumer /\ pc' = "index" /\ UNCHANGED <<evidence, disk, edits>>
    BY <1>1, <2>0, <2>1, EvidenceKept DEF Forward, Places, SnapshotConsumer
  <2>2. CASE ScanBundle /\ pc' = "snapshot"
    <3>1. /\ inventory' = Inventory /\ pc = "scan"
          /\ UNCHANGED <<in, index, manifest, handoffOK, records, authorized, indexed, states,
                         have, arts, opened, disk, edits, errors, checks, decision>>
      BY <2>2 DEF ScanBundle, Terminate, Finalize
    <3>2. DOMAIN inventory' \subseteq Path
      BY <3>1 DEF Inventory, Present
    <3>3. TypeOK'
      BY <2>2, <3>1, <3>2 DEF TypeOK, EvidenceInv
    <3>4. LoadedInv'
      BY <2>2, <3>1 DEF EvidenceInv, LoadedInv, Index, Collision
    <3>5. CapturedInv'
      BY <3>1 DEF EvidenceInv, CapturedInv, IsExactSubject
    <3> QED BY <3>3, <3>4, <3>5 DEF EvidenceInv
  <2>3. CASE ReadIndex /\ pc' = "manifest"
    <3>1. /\ pc = "index" /\ ReadStatus(IndexPath) = "ok"
          /\ index' = Bytes(IndexPath) /\ ~Collision(IndexOf(Bytes(IndexPath)))
          /\ UNCHANGED <<in, inventory, manifest, handoffOK, records, authorized, indexed,
                         states, have, arts, opened, disk, edits, errors, checks, decision>>
      BY <2>3 DEF ReadIndex, Terminate, Finalize
    <3>2. index' \in Content
      BY <3>1, ReadFacts
    <3>3. TypeOK'
      BY <2>3, <3>1, <3>2 DEF TypeOK, EvidenceInv
    <3>4. LoadedInv'
      BY <2>3, <3>1, <3>2, NoBytesAssumption DEF EvidenceInv, LoadedInv, Index, Collision
    <3>5. CapturedInv'
      BY <3>1 DEF EvidenceInv, CapturedInv, IsExactSubject
    <3> QED BY <3>3, <3>4, <3>5 DEF EvidenceInv
  <2>4. CASE LoadManifest /\ pc' # "aborted"
    <3>1. /\ pc = "manifest" /\ LoadFault(Index.manifest, "handoff") = {} /\ ~EnvelopeRaises(Index.manifest)
          /\ manifest' = Bytes(Index.manifest) /\ pc' = "handoff"
          /\ UNCHANGED <<in, inventory, index, handoffOK, records, authorized, indexed, states,
                         have, arts, opened, disk, edits, errors, checks, decision>>
      BY <2>4 DEF LoadManifest, Abort
    <3>2. manifest' \in Content /\ EnvelopeOf(manifest').fault = "none"
          /\ EnvelopeOf(manifest').type = "handoff"
      BY <3>1, LoadFacts
    <3>3. TypeOK'
      BY <3>1, <3>2 DEF TypeOK, EvidenceInv
    <3>4. LoadedInv'
      BY <3>1, <3>2, NoBytesAssumption DEF EvidenceInv, LoadedInv, Index, Collision
    <3>5. CapturedInv'
      BY <3>1 DEF EvidenceInv, CapturedInv, IsExactSubject
    <3> QED BY <3>3, <3>4, <3>5 DEF EvidenceInv
  <2>5. \/ pc' = "done" /\ decision' \in {"allow", "deny"} /\ UNCHANGED <<evidence, disk, edits>>
        \/ SnapshotConsumer /\ pc' = "index" /\ UNCHANGED <<evidence, disk, edits>>
        \/ ScanBundle /\ pc' = "snapshot"
        \/ ReadIndex /\ pc' = "manifest"
        \/ LoadManifest /\ pc' # "aborted"
        \/ pc = "manifest" /\ pc' = "aborted" /\ UNCHANGED <<evidence, disk, edits>>
    <3>1. ASSUME NEW e, NEW r, NEW q, NEW n, Terminate(e, r, q, n)
          PROVE  pc' = "done" /\ decision' \in {"allow", "deny"} /\ UNCHANGED <<evidence, disk, edits>>
      BY <3>1 DEF Terminate, Finalize, Decision
    <3>2. CASE ScanBundle
      BY <3>1, <3>2 DEF ScanBundle
    <3>3. CASE SnapshotConsumer
      BY <3>1, <3>3 DEF SnapshotConsumer
    <3>4. CASE IndexUnavailable
      BY <3>1, <3>4 DEF IndexUnavailable
    <3>5. CASE ReadIndex
      BY <3>1, <3>5 DEF ReadIndex
    <3>6. CASE ManifestAbsent
      BY <3>1, <3>6 DEF ManifestAbsent
    <3>7. CASE ManifestRejected
      BY <3>1, <3>7 DEF ManifestRejected
    <3>8. CASE LoadManifest
      BY <3>8 DEF LoadManifest, Abort
    <3> QED BY <3>2, <3>3, <3>4, <3>5, <3>6, <3>7, <3>8
  <2>6. CASE pc = "manifest" /\ pc' = "aborted" /\ UNCHANGED <<evidence, disk, edits>>
    BY <1>1, <2>0, <2>6, EvidenceKept DEF Forward, Places
  <2> QED BY <1>2, <2>1, <2>2, <2>3, <2>4, <2>5, <2>6
<1> QED BY <1>2, <1>3, ReportTypeEarly

LEMMA EvidenceMiddle ==
  ASSUME EvidenceInv,
         \/ AuthorizeHandoff \/ LoadAttestations \/ AuthorizeStatements \/ ValidateMetadataProfiles
         \/ PrevalidateDatasets \/ BuildGraph \/ CheckCompleteness \/ HashConsumerOnly
  PROVE  EvidenceInv'
<1> USE DEF evidence, FromManifest, FromHandoff, FromAttestations, FromAuthorize, FromMetadata,
        FromDatasets, FromGraph, FromCompleteness, FromFinal, FromHistorical, FromEntries,
        FromProfiles, FromFreshness, FromRescan, Ended
<1>1. ReportType' /\ decision' = decision /\ decision' \in {"none", "allow", "deny"}
  BY ReportTypeMiddle DEF EvidenceInv, TypeOK
<1>2. CASE UNCHANGED <<evidence, disk, edits>> /\ Forward(pc, pc')
  BY <1>1, <1>2, EvidenceKept
<1>3. CASE AuthorizeHandoff
  <2>1. /\ pc = "handoff" /\ pc' = "attestations"
        /\ handoffOK' = HandoffAuthorized(in.policy, EnvelopeOf(manifest).sigs, in.request.time)
        /\ UNCHANGED <<in, inventory, index, manifest, records, authorized, indexed, states,
                       have, arts, opened, disk, edits, decision>>
    BY <1>3 DEF AuthorizeHandoff
  <2>2. handoffOK' \in BOOLEAN
    BY <2>1 DEF HandoffAuthorized, MeetsThreshold
  <2>3. TypeOK'
    BY <1>1, <2>1, <2>2 DEF EvidenceInv, TypeOK, ReportType
  <2>4. LoadedInv'
    BY <2>1 DEF EvidenceInv, LoadedInv, Index, Collision
  <2>5. CapturedInv'
    BY <2>1 DEF EvidenceInv, CapturedInv, IsExactSubject
  <2> QED BY <2>3, <2>4, <2>5 DEF EvidenceInv
<1>4. CASE LoadAttestations
  <2>1. CASE Abort
    BY <1>2, <1>4, <2>1 DEF LoadAttestations, Abort, Forward, Places
  <2>2. CASE ~Abort
    <3>1. /\ pc = "attestations" /\ pc' = "authorize" /\ ~AttestationRaises
          /\ records' = [d \in Loaded |-> Bytes(Index.attestations[d])]
          /\ UNCHANGED <<in, inventory, index, manifest, handoffOK, authorized, indexed, states,
                         have, arts, opened, disk, edits, decision>>
      BY <1>4, <2>2 DEF LoadAttestations
    <3>2. ASSUME NEW d \in Loaded
          PROVE  d \in Digest /\ d \in DOMAIN Stmt /\ EnvelopeOf(Bytes(Index.attestations[d])).digest = d
      <4>1. LoadFault(Index.attestations[d], "statement") = {}
            /\ EnvelopeOf(Bytes(Index.attestations[d])).digest = d
            /\ ~EnvelopeRaises(Index.attestations[d])
        BY <3>1 DEF Loaded, AttestationRaises
      <4>2. /\ Bytes(Index.attestations[d]) \in Content
            /\ EnvelopeOf(Bytes(Index.attestations[d])).fault = "none"
            /\ EnvelopeOf(Bytes(Index.attestations[d])).type = "statement"
        BY <4>1, LoadFacts
      <4> QED BY <4>1, <4>2, EnvelopeAssumption
    <3>3. DOMAIN records' = Loaded /\ authorized = {} /\ indexed = {}
      BY <3>1 DEF EvidenceInv, LoadedInv
    <3>4. TypeOK'
      BY <1>1, <3>1, <3>2, <3>3 DEF EvidenceInv, TypeOK, ReportType
    <3>5. LoadedInv'
      <4>1. \A d \in DOMAIN records' : d \in DOMAIN Stmt /\ EnvelopeOf(records'[d]).digest = d
        BY <3>1, <3>2, <3>3
      <4> QED BY <3>1, <4>1 DEF EvidenceInv, LoadedInv, Index, Collision
    <3>6. CapturedInv'
      BY <3>1 DEF EvidenceInv, CapturedInv, IsExactSubject
    <3> QED BY <3>4, <3>5, <3>6 DEF EvidenceInv
  <2> QED BY <2>1, <2>2
<1>5. CASE AuthorizeStatements
  BY <1>2, <1>5 DEF AuthorizeStatements, Forward, Places
<1>6. CASE ValidateMetadataProfiles
  <2>1. CASE Abort
    BY <1>2, <1>6, <2>1 DEF ValidateMetadataProfiles, Abort, Forward, Places
  <2>2. CASE ~Abort
    <3>1. /\ pc = "metadata" /\ pc' = "datasets"
          /\ authorized' = {d \in DOMAIN records : Authorizing(d) # {}}
          /\ UNCHANGED <<in, inventory, index, manifest, handoffOK, records, indexed, states,
                         have, arts, opened, disk, edits, decision>>
      BY <1>6, <2>2 DEF ValidateMetadataProfiles
    <3>2. TypeOK'
      BY <1>1, <3>1 DEF EvidenceInv, TypeOK, ReportType
    <3>3. LoadedInv'
      BY <3>1 DEF EvidenceInv, LoadedInv, Index, Collision
    <3>4. CapturedInv'
      <4>1. indexed = {}
        BY <3>1 DEF EvidenceInv, LoadedInv
      <4> QED BY <3>1, <4>1 DEF EvidenceInv, CapturedInv
    <3> QED BY <3>2, <3>3, <3>4 DEF EvidenceInv
  <2> QED BY <2>1, <2>2
<1>7. CASE PrevalidateDatasets
  <2>1. CASE Abort
    BY <1>2, <1>7, <2>1 DEF PrevalidateDatasets, Abort, Forward, Places
  <2>2. CASE ~Abort
    <3> DEFINE read == {k \in DatasetCandidates : DatasetStage(k) \in {"parse", "schema", "semantic", "none"}}
    <3>1. /\ pc = "datasets" /\ pc' = "graph"
          /\ indexed' = {k \in DatasetCandidates : DatasetStage(k) = "none"}
          /\ have' = Captured(read)
          /\ \E keys : opened' = opened \cup OpenedFor(keys)
          /\ UNCHANGED <<in, inventory, index, manifest, handoffOK, records, authorized,
                         arts, disk, edits, decision>>
      BY <1>7, <2>2 DEF PrevalidateDatasets
    <3>2. ASSUME NEW k \in read
          PROVE  Material(k) = k[3] /\ (DatasetStage(k) = "none" => DatasetOf[k[3]].fault = "none")
      <4>1. MaterialStatus(k) \in {"no-bytes", "ok", "absent", "changed", "oserror"}
        BY DEF MaterialStatus, ReadStatus
      <4> QED BY <4>1 DEF DatasetStage
    <3> HIDE DEF read
    <3>3. /\ \A k \in DOMAIN have' : have'[k] = k[3]
          /\ DOMAIN have' = DOMAIN have \cup read
      BY <3>1, <3>2, CapturedExact DEF EvidenceInv
    <3>4. indexed' \subseteq read
      BY <3>1 DEF read
    <3>5. opened' \subseteq Path
      BY <3>1, OpenedPaths DEF EvidenceInv, TypeOK
    <3>6. TypeOK'
      BY <1>1, <3>1, <3>3, <3>4, <3>5 DEF EvidenceInv, TypeOK, ReportType
    <3>7. LoadedInv'
      BY <3>1 DEF EvidenceInv, LoadedInv, Index, Collision
    <3>8. CapturedInv'
      <4>1. \A k \in indexed' : k = <<k[1], k[2], k[3]>> /\ IsExactSubject(k, authorized)
        BY <3>1, CandidateFacts
      <4>2. \A k \in indexed' : k \in DOMAIN have' /\ DatasetOf[k[3]].fault = "none"
        BY <3>1, <3>2, <3>3, <3>4
      <4> QED BY <3>1, <3>3, <4>1, <4>2 DEF CapturedInv
    <3> QED BY <3>6, <3>7, <3>8 DEF EvidenceInv
  <2> QED BY <2>1, <2>2
<1>8. CASE BuildGraph
  BY <1>2, <1>8 DEF BuildGraph, Forward, Places
<1>9. CASE CheckCompleteness
  BY <1>2, <1>9 DEF CheckCompleteness, Forward, Places
<1>10. CASE HashConsumerOnly
  BY <1>2, <1>10 DEF HashConsumerOnly, Forward, Places
<1> QED BY <1>3, <1>4, <1>5, <1>6, <1>7, <1>8, <1>9, <1>10

\* Step 12 captures bytes only after it has compared their digest.
LEMMA EvidenceLate ==
  ASSUME EvidenceInv,
         \/ VerifyFinalArtifacts \/ VerifyHistorical \/ VerifyDatasetEntries
         \/ ValidateArtifactProfiles \/ EvaluateFreshness \/ Rescan
  PROVE  EvidenceInv'
<1> USE DEF evidence, FromManifest, FromHandoff, FromAttestations, FromAuthorize, FromMetadata,
        FromDatasets, FromGraph, FromCompleteness, FromFinal, FromHistorical, FromEntries,
        FromProfiles, FromFreshness, FromRescan, Ended
<1>1. ReportType' /\ decision' \in {"none", "allow", "deny"}
  BY ReportTypeLate DEF EvidenceInv, TypeOK
<1>2. CASE UNCHANGED <<evidence, disk, edits>> /\ Forward(pc, pc')
  BY <1>1, <1>2, EvidenceKept
<1>3. ASSUME NEW keys, have' = Captured(keys), NEW more, opened' = opened \cup more, more \subseteq Path,
             \A k \in keys : k \in DOMAIN have \/ Material(k) = k[3],
             UNCHANGED <<in, inventory, index, manifest, handoffOK, records, authorized, indexed,
                         states, disk, edits, decision>>,
             pc \in FromFinal, pc' \in FromFinal
      PROVE  EvidenceInv'
  <2>1. /\ \A k \in DOMAIN have' : have'[k] = k[3]
        /\ DOMAIN have' = DOMAIN have \cup keys
    BY <1>3, CapturedExact DEF EvidenceInv
  <2>2. TypeOK'
    BY <1>1, <1>3, <2>1 DEF EvidenceInv, TypeOK, ReportType
  <2>3. LoadedInv'
    BY <1>3 DEF EvidenceInv, LoadedInv, Index, Collision
  <2>4. CapturedInv'
    BY <1>3, <2>1 DEF EvidenceInv, CapturedInv, IsExactSubject
  <2> QED BY <2>2, <2>3, <2>4 DEF EvidenceInv
<1>4. ASSUME NEW k, NEW p, BytesCode(k, p) = {} PROVE Bytes(p) = k[3]
  BY <1>4 DEF BytesCode, ReadCode
<1>5. CASE VerifyFinalArtifacts
  <2>1. PICK keys, read :
          /\ have' = Captured(keys) /\ opened' = opened \cup OpenedFor(read)
          /\ \A k \in keys : FinalPasses(k)
          /\ UNCHANGED <<in, inventory, index, manifest, handoffOK, records, authorized, indexed,
                         states, disk, edits, decision>>
          /\ pc = "final" /\ pc' = "historical"
    <3> DEFINE A(i) == Manifest.artifacts[i]
               eligible == {i \in 1..Len(Manifest.artifacts) : Eligible(A(i))}
               unmapped == {i \in eligible : ~FinalMapped(FinalKey(A(i)))}
               toRead == {i \in eligible \ unmapped : FinalKey(A(i)) \notin DOMAIN have}
               failing == {i \in eligible : ~FinalPasses(FinalKey(A(i)))}
               keys == {FinalKey(A(i)) : i \in eligible \ failing}
               read == {FinalKey(A(i)) : i \in toRead}
    <3>1. /\ have' = Captured(keys) /\ opened' = opened \cup OpenedFor(read)
          /\ UNCHANGED <<in, inventory, index, manifest, handoffOK, records, authorized, indexed,
                         states, disk, edits, decision>>
          /\ pc = "final" /\ pc' = "historical"
      BY <1>5 DEF VerifyFinalArtifacts
    <3>2. \A k \in keys : FinalPasses(k)
      OBVIOUS
    <3> HIDE DEF keys, read
    <3> QED BY <3>1, <3>2
  <2>2. \A k \in keys : k \in DOMAIN have \/ Material(k) = k[3]
    BY <1>4, <2>1, MappedMaterial DEF FinalPasses, FinalMapped
  <2>3. OpenedFor(read) \subseteq Path
    BY OpenedPaths
  <2> QED BY <1>3, <2>1, <2>2, <2>3
<1>6. CASE VerifyHistorical
  <2>1. PICK keys, read :
          /\ have' = Captured(keys) /\ opened' = opened \cup OpenedFor(read)
          /\ \A k \in keys : HistoricalCode(k) = {} /\ IsExactSubject(k, Usable)
                             /\ MaterialStatus(k) # "no-bytes"
          /\ UNCHANGED <<in, inventory, index, manifest, handoffOK, records, authorized, indexed,
                         states, disk, edits, decision>>
          /\ pc = "historical" /\ pc' = "entries"
    <3> DEFINE alien == {k \in HistoricalKeys : ~IsExactSubject(k, Usable)}
               supplied == {k \in HistoricalKeys \ alien : MaterialStatus(k) # "no-bytes"}
               keys == {k \in supplied : HistoricalCode(k) = {}}
               read == supplied \ DOMAIN have
    <3>1. /\ have' = Captured(keys) /\ opened' = opened \cup OpenedFor(read)
          /\ UNCHANGED <<in, inventory, index, manifest, handoffOK, records, authorized, indexed,
                         states, disk, edits, decision>>
          /\ pc = "historical" /\ pc' = "entries"
      BY <1>6 DEF VerifyHistorical
    <3>2. \A k \in keys : HistoricalCode(k) = {} /\ IsExactSubject(k, Usable)
                          /\ MaterialStatus(k) # "no-bytes"
      OBVIOUS
    <3> HIDE DEF keys, read
    <3> QED BY <3>1, <3>2
  <2>2. \A k \in keys : k \in DOMAIN have \/ Material(k) = k[3]
    BY <1>4, <2>1, MappedMaterial DEF HistoricalCode
  <2>3. OpenedFor(read) \subseteq Path
    BY OpenedPaths
  <2> QED BY <1>3, <2>1, <2>2, <2>3
<1>7. CASE VerifyDatasetEntries
  <2>1. \E more : opened' = opened \cup more /\ more \subseteq Path
    BY <1>7 DEF VerifyDatasetEntries, IsInventoriedFile, EvidenceInv, TypeOK
  <2>2. /\ UNCHANGED <<in, inventory, index, manifest, handoffOK, records, authorized, indexed,
                       states, have, arts, disk, edits, decision>>
        /\ pc = "entries" /\ pc' = "profiles"
    BY <1>7 DEF VerifyDatasetEntries
  <2>3. TypeOK'
    BY <1>1, <2>1, <2>2 DEF EvidenceInv, TypeOK, ReportType
  <2>4. LoadedInv'
    BY <2>2 DEF EvidenceInv, LoadedInv, Index, Collision
  <2>5. CapturedInv'
    BY <2>2 DEF EvidenceInv, CapturedInv, IsExactSubject
  <2> QED BY <2>3, <2>4, <2>5 DEF EvidenceInv
<1>8. CASE ValidateArtifactProfiles
  BY <1>2, <1>8 DEF ValidateArtifactProfiles, Abort, Forward, Places
<1>9. CASE EvaluateFreshness
  BY <1>2, <1>9 DEF EvaluateFreshness, Forward, Places
<1>10. CASE Rescan
  <2>1. UNCHANGED <<evidence, disk, edits>> /\ pc = "rescan" /\ pc' = "done"
    BY <1>10 DEF Rescan, Finalize
  <2> QED BY <1>2, <2>1 DEF Forward, Places
<1> QED BY <1>5, <1>6, <1>7, <1>8, <1>9, <1>10

LEMMA EvidenceUndisturbed ==
  ASSUME EvidenceInv, Environment
  PROVE  EvidenceInv'
<1>1. PICK p \in in.others.paths :
        \/ \E c \in in.others.writes : Rewrite(p, c)
        \/ \E c \in in.others.writes, i \in in.others.inodes : Replace(p, c, i)
        \/ ReplaceByLink(p)
        \/ Remove(p)
  BY DEF Environment
<1>2. in.others.paths \subseteq Path /\ in.others.writes \subseteq Content
      /\ in.others.edits \in 0..MaxEdits
  <2>1. PICK s \in Scenarios : in = [policy |-> s.policy, request |-> s.request, others |-> s.others]
    BY DEF EvidenceInv, LoadedInv
  <2>2. in.others = s.others
    BY <2>1
  <2>3. /\ s.others.paths \subseteq Path /\ s.others.writes \subseteq Content
        /\ s.others.edits \in 0..MaxEdits
    BY ScenarioAssumption, MaxEditsAssumption
  <2> QED BY <2>2, <2>3
<1>3. \E node : IsNode(node) /\ Edit(p, node)
  <2>1. IsNode(disk[p])
    BY <1>2 DEF EvidenceInv, LoadedInv
  <2>2. CASE \E c \in in.others.writes : Rewrite(p, c)
    <3>1. PICK c \in in.others.writes : Edit(p, [disk[p] EXCEPT !.bytes = c])
      BY <2>2 DEF Rewrite
    <3>2. IsNode([disk[p] EXCEPT !.bytes = c])
      BY <1>2, <2>1 DEF IsNode
    <3> QED BY <3>1, <3>2
  <2>3. CASE \E c \in in.others.writes, i \in in.others.inodes : Replace(p, c, i)
    BY <1>2, <2>3 DEF Replace, IsNode
  <2>4. CASE ReplaceByLink(p)
    <3>1. IsNode([disk[p] EXCEPT !.kind = "link"])
      BY <2>1 DEF IsNode
    <3> QED BY <2>4, <3>1 DEF ReplaceByLink
  <2>5. CASE Remove(p)
    <3>1. IsNode([disk[p] EXCEPT !.kind = "absent"])
      BY <2>1 DEF IsNode
    <3> QED BY <2>5, <3>1 DEF Remove
  <2> QED BY <1>1, <2>2, <2>3, <2>4, <2>5
<1>4. PICK node : /\ IsNode(node) /\ disk' = [disk EXCEPT ![p] = node] /\ edits' = edits + 1
                  /\ UNCHANGED <<evidence, pc, errors, checks, decision>>
  BY <1>3 DEF Edit
<1>5. edits' \in 0..MaxEdits
  BY <1>2, <1>4, MaxEditsAssumption DEF Environment, EvidenceInv, TypeOK
<1>6. disk' = [q \in Path |-> disk'[q]] /\ (\A q \in Path : IsNode(disk'[q])) /\ DOMAIN disk' = Path
  BY <1>4 DEF EvidenceInv, LoadedInv
<1>7. TypeOK'
  BY <1>4, <1>5, <1>6 DEF EvidenceInv, TypeOK, evidence
<1>8. LoadedInv'
  BY <1>4, <1>6 DEF EvidenceInv, LoadedInv, Index, Collision, evidence
<1>9. CapturedInv'
  BY <1>4 DEF EvidenceInv, CapturedInv, IsExactSubject, evidence
<1> QED BY <1>7, <1>8, <1>9 DEF EvidenceInv

\* What was loaded and captured stays what it was when it was checked: the
\* index names no material twice, the handoff envelope is well formed, every
\* statement is filed under its own digest, and captured bytes have the digest
\* of their key, whatever other processes do to the files.
THEOREM EvidenceHolds == Spec => []EvidenceInv
<1>1. EvidenceInv /\ [Next]_vars => EvidenceInv'
  <2> SUFFICES ASSUME EvidenceInv, [Next]_vars PROVE EvidenceInv'
    OBVIOUS
  <2>1. CASE UNCHANGED vars
    <3>1. TypeOK'
      BY <2>1 DEF vars, EvidenceInv, TypeOK
    <3>2. LoadedInv'
      BY <2>1 DEF vars, EvidenceInv, LoadedInv, Index, Collision
    <3>3. CapturedInv'
      BY <2>1 DEF vars, EvidenceInv, CapturedInv, IsExactSubject
    <3> QED BY <3>1, <3>2, <3>3 DEF EvidenceInv
  <2> QED BY <2>1, EvidenceEarly, EvidenceMiddle, EvidenceLate, EvidenceUndisturbed
          DEF Next, Verifier, Reported
<1> QED BY <1>1, InitEvidence, PTL DEF Spec

\* Every variable of a verification keeps its type; authorized statements are
\* loaded ones, and parsed dataset manifests are captured ones.
THEOREM TypeCorrect == Spec => []TypeOK
BY EvidenceHolds, PTL DEF EvidenceInv
-----------------------------------------------------------------------------
(* What each step leaves behind while there is no error. *)

\* A verification without an error has come as far as S.
Past(S) == pc \in S \cup {"done"}

PinsAdmitted(r, d) ==
  \A c \in r.constraints : c.dig # {} =>
    \E p \in Stmt[d].profiles : ProfileConstraintMatches(c, p) /\ <<d, p.dig>> \in Admits

\* The input i is what its predecessor signed.
EdgeIntact(i) ==
  /\ NamesSubject(UsableStmt, i)
  /\ LET subject == Stmt[i.pred].subjects[i.subject]
     IN  IF i.entry = NoEntry THEN subject = i.digest
         ELSE /\ <<i.pred, i.subject, subject>> \in indexed
              /\ i.entry \in DOMAIN DatasetOf[subject].members
              /\ DatasetOf[subject].members[i.entry].digest = i.digest

LineageSound ==
  /\ \A d \in Usable : \A i \in EdgeInputs(UsableStmt, d) : EdgeIntact(i)
  /\ Mixed(UsableStmt) = {}
  /\ DuplicateEvents(UsableStmt) = {}
  /\ Acyclic(Predecessors(UsableStmt))
  /\ \A r \in Roots(UsableStmt) : Stmt[r].type = "origin"

CleanHandoff ==
  Past(FromAttestations) =>
    /\ index # NoBytes /\ manifest # NoBytes /\ handoffOK
    /\ HandoffAuthorized(in.policy, EnvelopeOf(manifest).sigs, in.request.time)

CleanRecords == Past(FromAuthorize) => DOMAIN records = DOMAIN Index.attestations

CleanCandidates == Past(FromMetadata) => \A d \in DOMAIN records : Candidates(d) # {}

CleanAuthorized ==
  Past(FromDatasets) =>
    \A d \in DOMAIN records : d \in authorized /\ \E r \in Candidates(d) : PinsAdmitted(r, d)

CleanDatasets ==
  Past(FromGraph) =>
    /\ RequiredDatasets \subseteq indexed
    /\ \A w \in DOMAIN states : states[w] = "pass"

CleanGraph == Past(FromCompleteness) => LineageSound

CleanComplete == Past(FromFinal) => SetsAgree /\ \A a \in FinalArtifacts : Eligible(a)

CleanFinal == Past(FromHistorical) => FinalKeys \subseteq DOMAIN have

CleanHistorical ==
  Past(FromEntries) =>
    \A k \in ProfileTargets : (\E p \in ArtifactProfiles(k[1], k[2]) : p.critical) => k \in DOMAIN have

CleanFresh == Past(FromRescan) => FreshnessCodes = {}

CleanInv ==
  errors = {} =>
    /\ CleanHandoff /\ CleanRecords /\ CleanCandidates /\ CleanAuthorized /\ CleanDatasets
    /\ CleanGraph /\ CleanComplete /\ CleanFinal /\ CleanHistorical /\ CleanFresh

\* Allow is decided once, at the end, and without an error.
DecisionInv ==
  /\ decision = "none" <=> pc # "done"
  /\ pc = "done" => decision = Decision(errors)
-----------------------------------------------------------------------------
(* What a step changes, and where it leads. *)

\* Evidence is written by one step only, and errors are never taken back.
LEMMA Frame ==
  ASSUME EvidenceInv, [Next]_vars
  PROVE  /\ in' = in /\ errors \subseteq errors'
         /\ pc \in FromHandoff \cup Ended => UNCHANGED <<index, manifest>>
         /\ pc \in FromAttestations \cup Ended => handoffOK' = handoffOK
         /\ pc \in FromAuthorize \cup Ended => records' = records
         /\ pc \in FromDatasets \cup Ended => authorized' = authorized
         /\ pc \in FromGraph \cup Ended => indexed' = indexed /\ states' = states
         /\ pc \in FromEntries \cup Ended => have' = have
         /\ DOMAIN have \subseteq DOMAIN have'
<1> USE DEF evidence, FromManifest, FromHandoff, FromAttestations, FromAuthorize, FromMetadata,
        FromDatasets, FromGraph, FromCompleteness, FromFinal, FromHistorical, FromEntries,
        FromProfiles, FromFreshness, FromRescan, Ended
<1>0. ASSUME NEW keys PROVE DOMAIN have \subseteq DOMAIN Captured(keys)
  BY DEF Captured
<1>1. CASE ScanBundle \/ SnapshotConsumer \/ IndexUnavailable \/ ReadIndex
  BY <1>1 DEF ScanBundle, SnapshotConsumer, IndexUnavailable, ReadIndex, Terminate, Finalize
<1>2. CASE ManifestAbsent \/ ManifestRejected \/ LoadManifest
  BY <1>2 DEF ManifestAbsent, ManifestRejected, LoadManifest, Terminate, Finalize, Abort
<1>3. CASE AuthorizeHandoff \/ LoadAttestations \/ AuthorizeStatements
  BY <1>3 DEF AuthorizeHandoff, LoadAttestations, AuthorizeStatements, Abort, Record
<1>4. CASE ValidateMetadataProfiles
  BY <1>4 DEF ValidateMetadataProfiles, Abort, Record
<1>5. CASE PrevalidateDatasets
  BY <1>0, <1>5 DEF PrevalidateDatasets, Abort, Record
<1>6. CASE BuildGraph \/ CheckCompleteness \/ HashConsumerOnly
  BY <1>6 DEF BuildGraph, CheckCompleteness, HashConsumerOnly, Record
<1>7. CASE VerifyFinalArtifacts
  <2>1. /\ pc = "final" /\ errors \subseteq errors'
        /\ UNCHANGED <<in, inventory, index, manifest, handoffOK, records, authorized, indexed,
                       states, disk, edits, decision>>
        /\ \E keys : have' = Captured(keys)
    BY <1>7 DEF VerifyFinalArtifacts
  <2> QED BY <1>0, <2>1
<1>8. CASE VerifyHistorical
  <2>1. /\ pc = "historical" /\ errors \subseteq errors'
        /\ UNCHANGED <<in, inventory, index, manifest, handoffOK, records, authorized, indexed,
                       states, disk, edits, decision>>
        /\ \E keys : have' = Captured(keys)
    BY <1>8 DEF VerifyHistorical, Record
  <2> QED BY <1>0, <2>1
<1>9. CASE VerifyDatasetEntries
  <2>1. /\ pc = "entries" /\ errors \subseteq errors'
        /\ UNCHANGED <<in, inventory, index, manifest, handoffOK, records, authorized, indexed,
                       states, have, disk, edits, decision>>
    BY <1>9 DEF VerifyDatasetEntries, Record
  <2> QED BY <2>1
<1>10. CASE ValidateArtifactProfiles \/ EvaluateFreshness \/ Rescan
  <2>1. UNCHANGED evidence /\ errors \subseteq errors'
    BY <1>10 DEF ValidateArtifactProfiles, EvaluateFreshness, Rescan, Record, Abort, Finalize
  <2> QED BY <2>1
<1>11. CASE Environment
  <2>1. \E p, node : Edit(p, node)
    BY <1>11 DEF Environment, Rewrite, Replace, ReplaceByLink, Remove
  <2>2. UNCHANGED evidence /\ errors' = errors
    BY <2>1 DEF Edit
  <2> QED BY <2>2
<1>12. CASE UNCHANGED vars
  BY <1>12 DEF vars
<1> QED BY <1>1, <1>2, <1>3, <1>4, <1>5, <1>6, <1>7, <1>8, <1>9, <1>10, <1>11, <1>12
        DEF Next, Verifier, Reported

\* Where a step leads.  A step that ends the verification before its last step
\* leaves an error behind.
LEMMA Moves ==
  ASSUME EvidenceInv, [Next]_vars
  PROVE  \/ pc' = pc /\ UNCHANGED <<evidence, errors, checks, decision>>
         \/ pc' = "aborted" /\ UNCHANGED <<evidence, errors, checks, decision>>
         \/ pc' = "done" /\ errors' # {} /\ pc \in {"scan", "snapshot", "index", "manifest"}
         \/ <<pc, pc'>> \in {<<"scan", "snapshot">>, <<"snapshot", "index">>, <<"index", "manifest">>,
                             <<"manifest", "handoff">>}
         \/ AuthorizeHandoff /\ pc = "handoff" /\ pc' = "attestations"
         \/ LoadAttestations /\ pc = "attestations" /\ pc' = "authorize"
         \/ AuthorizeStatements /\ pc = "authorize" /\ pc' = "metadata"
         \/ ValidateMetadataProfiles /\ pc = "metadata" /\ pc' = "datasets"
         \/ PrevalidateDatasets /\ pc = "datasets" /\ pc' = "graph"
         \/ BuildGraph /\ pc = "graph" /\ pc' = "completeness"
         \/ CheckCompleteness /\ pc = "completeness" /\ pc' = "final"
         \/ HashConsumerOnly /\ pc = "completeness" /\ pc' = "rescan" /\ ~handoffOK
         \/ VerifyFinalArtifacts /\ pc = "final" /\ pc' = "historical"
         \/ VerifyHistorical /\ pc = "historical" /\ pc' = "entries"
         \/ VerifyDatasetEntries /\ pc = "entries" /\ pc' = "profiles"
         \/ ValidateArtifactProfiles /\ pc = "profiles" /\ pc' = "freshness"
         \/ EvaluateFreshness /\ pc = "freshness" /\ pc' = "rescan"
         \/ Rescan /\ pc = "rescan" /\ pc' = "done"
<1>0. ASSUME NEW e, NEW r, NEW q, NEW n, Terminate({e}, r, q, n)
      PROVE  pc' = "done" /\ errors' # {}
  BY <1>0 DEF Terminate, Finalize
<1>1. CASE ScanBundle
  BY <1>0, <1>1 DEF ScanBundle
<1>2. CASE SnapshotConsumer
  BY <1>0, <1>2 DEF SnapshotConsumer
<1>3. CASE IndexUnavailable
  BY <1>0, <1>3 DEF IndexUnavailable
<1>4. CASE ReadIndex
  BY <1>0, <1>4 DEF ReadIndex
<1>5. CASE ManifestAbsent \/ ManifestRejected
  BY <1>0, <1>5 DEF ManifestAbsent, ManifestRejected
<1>6. CASE LoadManifest
  BY <1>6 DEF LoadManifest, Abort
<1>7. CASE AuthorizeHandoff \/ AuthorizeStatements
  BY <1>7 DEF AuthorizeHandoff, AuthorizeStatements
<1>8. CASE ValidateMetadataProfiles
  BY <1>8 DEF ValidateMetadataProfiles, Abort
<1>9. CASE PrevalidateDatasets
  BY <1>9 DEF PrevalidateDatasets, Abort
<1>10. CASE BuildGraph \/ CheckCompleteness \/ HashConsumerOnly
  BY <1>10 DEF BuildGraph, CheckCompleteness, HashConsumerOnly
<1>11. CASE VerifyFinalArtifacts \/ VerifyHistorical \/ VerifyDatasetEntries
  BY <1>11 DEF VerifyFinalArtifacts, VerifyHistorical, VerifyDatasetEntries
<1>12. CASE ValidateArtifactProfiles
  BY <1>12 DEF ValidateArtifactProfiles, Abort
<1>13. CASE EvaluateFreshness \/ Rescan
  BY <1>13 DEF EvaluateFreshness, Rescan, Finalize
<1>14. CASE Environment
  <2>1. \E p, node : Edit(p, node)
    BY <1>14 DEF Environment, Rewrite, Replace, ReplaceByLink, Remove
  <2> QED BY <2>1 DEF Edit
<1>15. CASE UNCHANGED vars
  BY <1>15 DEF vars, evidence
<1>16. CASE LoadAttestations
  BY <1>16 DEF LoadAttestations, Abort
<1> QED BY <1>1, <1>2, <1>3, <1>4, <1>5, <1>6, <1>7, <1>8, <1>9, <1>10, <1>11, <1>12, <1>13,
           <1>14, <1>15, <1>16
        DEF Next, Verifier, Reported

\* Without an error, a place is reached by its own step or was reached before.
LEMMA CleanPath ==
  ASSUME EvidenceInv, CleanInv, [Next]_vars, errors' = {}
  PROVE  /\ errors = {}
         /\ Past(FromAttestations)' => Past(FromAttestations) \/ AuthorizeHandoff
         /\ Past(FromAuthorize)' => Past(FromAuthorize) \/ (LoadAttestations /\ pc' = "authorize" /\ pc = "attestations")
         /\ Past(FromMetadata)' => Past(FromMetadata) \/ (AuthorizeStatements /\ pc = "authorize")
         /\ Past(FromDatasets)' => Past(FromDatasets) \/ (ValidateMetadataProfiles /\ pc' = "datasets" /\ pc = "metadata")
         /\ Past(FromGraph)' => Past(FromGraph) \/ (PrevalidateDatasets /\ pc' = "graph" /\ pc = "datasets")
         /\ Past(FromCompleteness)' => Past(FromCompleteness) \/ (BuildGraph /\ pc = "graph")
         /\ Past(FromFinal)' => Past(FromFinal) \/ (CheckCompleteness /\ pc = "completeness")
         /\ Past(FromHistorical)' => Past(FromHistorical) \/ (VerifyFinalArtifacts /\ pc = "final")
         /\ Past(FromEntries)' => Past(FromEntries) \/ (VerifyHistorical /\ pc = "historical")
         /\ Past(FromRescan)' => Past(FromRescan) \/ (EvaluateFreshness /\ pc = "freshness")
<1> USE DEF Past, FromManifest, FromHandoff, FromAttestations, FromAuthorize, FromMetadata,
        FromDatasets, FromGraph, FromCompleteness, FromFinal, FromHistorical, FromEntries,
        FromProfiles, FromFreshness, FromRescan
<1>1. errors = {}
  BY Frame
<1>2. ~(pc = "completeness" /\ ~handoffOK)
  BY <1>1 DEF CleanInv, CleanHandoff
<1> QED BY <1>1, <1>2, Moves

\* What the later parts of CleanInv speak of stays the same.
LEMMA CleanFrame ==
  ASSUME EvidenceInv, [Next]_vars
  PROVE  /\ in' = in
         /\ Past(FromAttestations) => UNCHANGED <<index, manifest, handoffOK>>
         /\ Past(FromAuthorize) => UNCHANGED <<index, manifest, handoffOK, records>>
         /\ Past(FromDatasets) => UNCHANGED <<index, manifest, handoffOK, records, authorized>>
         /\ Past(FromGraph) => UNCHANGED <<index, manifest, handoffOK, records, authorized, indexed, states>>
         /\ Past(FromEntries) => have' = have
BY Frame DEF Past, FromManifest, FromHandoff, FromAttestations, FromAuthorize, FromMetadata,
        FromDatasets, FromGraph, FromCompleteness, FromFinal, FromHistorical, FromEntries,
        FromProfiles, FromFreshness, FromRescan, Ended

LEMMA PastOrder ==
  /\ Past(FromMetadata) => Past(FromAuthorize)
  /\ Past(FromDatasets) => Past(FromMetadata)
  /\ Past(FromGraph) => Past(FromDatasets)
  /\ Past(FromCompleteness) => Past(FromGraph)
  /\ Past(FromFinal) => Past(FromCompleteness)
  /\ Past(FromHistorical) => Past(FromFinal)
  /\ Past(FromEntries) => Past(FromHistorical)
  /\ Past(FromRescan) => Past(FromEntries)
  /\ Past(FromAuthorize) => Past(FromAttestations)
BY DEF Past, FromManifest, FromHandoff, FromAttestations, FromAuthorize, FromMetadata,
        FromDatasets, FromGraph, FromCompleteness, FromFinal, FromHistorical, FromEntries,
        FromProfiles, FromFreshness, FromRescan

LEMMA DecisionStep == EvidenceInv /\ DecisionInv /\ [Next]_vars => DecisionInv'
<1> SUFFICES ASSUME EvidenceInv, DecisionInv, [Next]_vars PROVE DecisionInv'
  OBVIOUS
<1>0. ASSUME NEW e, NEW c, Finalize(e, c)
      PROVE  DecisionInv'
  BY <1>0 DEF Finalize, DecisionInv, Decision
<1>1. CASE UNCHANGED <<pc, errors, decision>>
  BY <1>1 DEF DecisionInv, Decision
<1>2. CASE pc # "done" /\ pc' # "done" /\ decision' = decision
  BY <1>2 DEF DecisionInv
<1>3. CASE ScanBundle \/ SnapshotConsumer \/ IndexUnavailable \/ ReadIndex
  BY <1>0, <1>2, <1>3 DEF ScanBundle, SnapshotConsumer, IndexUnavailable, ReadIndex, Terminate
<1>4. CASE ManifestAbsent \/ ManifestRejected \/ LoadManifest
  BY <1>0, <1>2, <1>4 DEF ManifestAbsent, ManifestRejected, LoadManifest, Terminate, Abort
<1>5. CASE AuthorizeHandoff \/ LoadAttestations \/ AuthorizeStatements \/ ValidateMetadataProfiles
  BY <1>2, <1>5 DEF AuthorizeHandoff, LoadAttestations, AuthorizeStatements, ValidateMetadataProfiles, Abort
<1>6. CASE PrevalidateDatasets \/ BuildGraph \/ CheckCompleteness \/ HashConsumerOnly
  BY <1>2, <1>6 DEF PrevalidateDatasets, BuildGraph, CheckCompleteness, HashConsumerOnly, Abort
<1>7. CASE VerifyFinalArtifacts \/ VerifyHistorical \/ VerifyDatasetEntries
  <2>1. pc # "done" /\ pc' # "done" /\ decision' = decision
    BY <1>7 DEF VerifyFinalArtifacts, VerifyHistorical, VerifyDatasetEntries
  <2> QED BY <1>2, <2>1
<1>8. CASE ValidateArtifactProfiles \/ EvaluateFreshness
  BY <1>2, <1>8 DEF ValidateArtifactProfiles, EvaluateFreshness, Abort
<1>9. CASE Rescan
  BY <1>0, <1>9 DEF Rescan
<1>10. CASE Environment
  <2>1. \E p, node : Edit(p, node)
    BY <1>10 DEF Environment, Rewrite, Replace, ReplaceByLink, Remove
  <2> QED BY <1>1, <2>1 DEF Edit
<1>11. CASE UNCHANGED vars
  BY <1>1, <1>11 DEF vars
<1> QED BY <1>3, <1>4, <1>5, <1>6, <1>7, <1>8, <1>9, <1>10, <1>11 DEF Next, Verifier, Reported
-----------------------------------------------------------------------------
(* Steps 5 to 7: an error unless everything is authorized. *)

LEMMA HandoffPart ==
  ASSUME EvidenceInv, CleanInv, [Next]_vars, errors' = {}
  PROVE  CleanHandoff'
<1> SUFFICES ASSUME Past(FromAttestations)' PROVE CleanHandoff'
  BY DEF CleanHandoff
<1>1. CASE Past(FromAttestations)
  <2>1. CleanHandoff
    BY CleanPath DEF CleanInv
  <2> QED BY <1>1, <2>1, CleanFrame DEF CleanHandoff
<1>2. CASE AuthorizeHandoff
  <2>1. /\ pc = "handoff" /\ UNCHANGED <<in, index, manifest>>
        /\ handoffOK' = HandoffAuthorized(in.policy, EnvelopeOf(manifest).sigs, in.request.time)
    BY <1>2 DEF AuthorizeHandoff
  <2>2. handoffOK'
    BY <1>2 DEF AuthorizeHandoff, Record
  <2>3. index # NoBytes /\ manifest # NoBytes
    BY <2>1 DEF EvidenceInv, LoadedInv, FromManifest, FromHandoff
  <2> QED BY <2>1, <2>2, <2>3 DEF CleanHandoff
<1> QED BY <1>1, <1>2, CleanPath

LEMMA RecordsPart ==
  ASSUME EvidenceInv, CleanInv, [Next]_vars, errors' = {}
  PROVE  CleanRecords'
<1> SUFFICES ASSUME Past(FromAuthorize)' PROVE CleanRecords'
  BY DEF CleanRecords
<1>1. CASE Past(FromAuthorize)
  BY <1>1, CleanPath, CleanFrame DEF CleanInv, CleanRecords, Index
<1>2. CASE LoadAttestations /\ pc' = "authorize"
  <2>1. AttestationDiagnostics = {} /\ index' = index /\ DOMAIN records' = Loaded
    BY <1>2 DEF LoadAttestations, Abort, Record
  <2>2. ASSUME NEW d \in DOMAIN Index.attestations \ Loaded PROVE FALSE
    <3>1. CASE LoadFault(Index.attestations[d], "statement") = {}
      BY <2>1, <2>2, <3>1 DEF AttestationDiagnostics
    <3>2. CASE LoadFault(Index.attestations[d], "statement") # {}
      <4>1. LoadDiagnostics(Index.attestations[d], "statement") # {}
        BY <3>2 DEF LoadDiagnostics
      <4> QED BY <2>1, <2>2, <3>2, <4>1 DEF AttestationDiagnostics
    <3> QED BY <3>1, <3>2
  <2>3. Loaded = DOMAIN Index.attestations
    BY <2>2 DEF Loaded
  <2> QED BY <2>1, <2>3 DEF CleanRecords, Index
<1> QED BY <1>1, <1>2, CleanPath

LEMMA CandidatesPart ==
  ASSUME EvidenceInv, CleanInv, [Next]_vars, errors' = {}
  PROVE  CleanCandidates'
<1> SUFFICES ASSUME Past(FromMetadata)' PROVE CleanCandidates'
  BY DEF CleanCandidates
<1>0. Past(FromMetadata) => Past(FromAuthorize)
  BY PastOrder
<1>1. CASE Past(FromMetadata)
  BY <1>0, <1>1, CleanPath, CleanFrame DEF CleanInv, CleanCandidates, Candidates, Sigs
<1>2. CASE AuthorizeStatements
  <2>1. {d \in DOMAIN records : Candidates(d) = {}} = {} /\ UNCHANGED <<in, records>>
    BY <1>2 DEF AuthorizeStatements, evidence
  <2> QED BY <2>1 DEF CleanCandidates, Candidates, Sigs
<1> QED BY <1>1, <1>2, CleanPath

LEMMA AuthorizedPart ==
  ASSUME EvidenceInv, CleanInv, [Next]_vars, errors' = {}
  PROVE  CleanAuthorized'
<1> SUFFICES ASSUME Past(FromDatasets)' PROVE CleanAuthorized'
  BY DEF CleanAuthorized
<1>1. CASE Past(FromDatasets)
  BY <1>1, CleanPath, CleanFrame DEF CleanInv, CleanAuthorized, Candidates, Sigs, PinsAdmitted
<1>2. CASE ValidateMetadataProfiles /\ pc' = "datasets" /\ pc = "metadata"
  <2>1. /\ authorized' = {d \in DOMAIN records : Authorizing(d) # {}}
        /\ {e \in DOMAIN records : Candidates(e) # {} /\ Authorizing(e) = {}} = {}
        /\ UNCHANGED <<in, records>>
    BY <1>2 DEF ValidateMetadataProfiles, Abort, Record
  <2>2. \A d \in DOMAIN records : Candidates(d) # {}
    BY <1>2, CleanPath DEF CleanInv, CleanCandidates, Past, FromMetadata
  <2>3. \A d \in DOMAIN records : Authorizing(d) # {}
    BY <2>1, <2>2
  <2>4. ASSUME NEW d \in DOMAIN records
        PROVE  \E r \in Candidates(d) : PinsAdmitted(r, d)
    <3>1. PICK r \in Authorizing(d) : TRUE
      BY <2>3
    <3>2. r \in Candidates(d) /\ \A k \in r.constraints : k.dig # {} =>
            \E p \in Stmt[d].profiles : ProfileConstraintMatches(k, p) /\ p \in PassedProfiles(d)
      BY <3>1 DEF Authorizing, AuthorizingRules
    <3>3. \A p \in PassedProfiles(d) : <<d, p.dig>> \in Admits
      BY DEF PassedProfiles
    <3> QED BY <3>2, <3>3 DEF PinsAdmitted
  <2> QED BY <2>1, <2>3, <2>4 DEF CleanAuthorized, Candidates, Sigs, PinsAdmitted
<1> QED BY <1>1, <1>2, CleanPath
-----------------------------------------------------------------------------
(* Step 8: an error unless every dataset manifest that is needed is there.   *)

\* A smallest counterexample would lose its maximum with one of its elements.
LEMMA FiniteMaximum ==
  ASSUME NEW S, IsFiniteSet(S), S \subseteq Int, S # {}
  PROVE  \E m \in S : \A n \in S : n <= m
<1> DEFINE HasMax(A) == \E m \in A : \A n \in A : n <= m
           Bad == {A \in SUBSET S : A # {} /\ ~HasMax(A)}
<1> SUFFICES ASSUME ~HasMax(S) PROVE FALSE
  OBVIOUS
<1>1. IsWellFoundedOn(StrictSubsetOrdering(S), SUBSET S)
  BY FS_StrictSubsetOrderingWellFounded, FS_FiniteSubsetsOfFinite
<1>2. S \in Bad /\ Bad \subseteq SUBSET S
  OBVIOUS
<1>3. PICK A \in Bad : \A B \in Bad : ~(<<B, A>> \in StrictSubsetOrdering(S))
  <2>1. Bad # {} /\ Bad \subseteq SUBSET S
    BY <1>2
  <2> HIDE DEF Bad
  <2> QED BY <1>1, <2>1, WFMin
<1>4. PICK x \in A : TRUE
  OBVIOUS
<1>5. A \ {x} \notin Bad
  BY <1>3, <1>4 DEF StrictSubsetOrdering
<1>6. CASE A = {x}
  BY <1>6
<1>7. CASE A # {x}
  <2>1. HasMax(A \ {x})
    BY <1>4, <1>5, <1>7
  <2>2. PICK m \in A \ {x} : \A n \in A \ {x} : n <= m
    BY <2>1
  <2>3. CASE x <= m
    BY <2>2, <2>3
  <2>4. CASE ~(x <= m)
    BY <1>4, <2>2, <2>4
  <2> QED BY <2>3, <2>4
<1> QED BY <1>6, <1>7

LEMMA DatasetsInOrder ==
  ASSUME EvidenceInv, ~DatasetUnreadable, \A k \in DatasetCandidates : DatasetCode(k) = {}
  PROVE  /\ RequiredDatasets \subseteq {k \in DatasetCandidates : DatasetStage(k) = "none"}
         /\ \A w \in DOMAIN DatasetStates : DatasetStates[w] = "pass"
<1>1. ASSUME NEW k \in DatasetCandidates
      PROVE  /\ DatasetStage(k) \in {"none", "no-bytes", "absent", "changed"}
             /\ k \in RequiredDatasets => DatasetStage(k) = "none"
             /\ \A x \in WrittenPins(k) : WrittenState(k) = "pass"
  <2>1. DatasetStage(k) \in {"profile", "no-bytes", "absent", "changed", "oserror",
                             "digest", "media", "none", "parse", "schema", "semantic"}
    BY CandidateFault, DatasetCodes DEF EvidenceInv, DatasetUnreadable
  <2>2. DatasetCode(k) = {}
    OBVIOUS
  <2>3. /\ DatasetStage(k) \in {"none", "no-bytes", "absent", "changed"}
        /\ k \in RequiredDatasets => DatasetStage(k) = "none"
    BY <2>1, <2>2 DEF DatasetCode
  <2> QED BY <2>3 DEF WrittenPins, WrittenState
<1>2. RequiredDatasets \subseteq DatasetCandidates
  BY DEF DatasetCandidates
<1>3. ASSUME NEW w \in DOMAIN DatasetStates
      PROVE  DatasetStates[w] = "pass"
  <2> DEFINE writers == {k \in DatasetCandidates : k[1] = w[1] /\ w[2] \in WrittenPins(k)}
             names == {k[2] : k \in writers}
  <2>1. DatasetStates[w] = WrittenState(CHOOSE k \in writers : \A j \in writers : j[2] <= k[2])
    BY DEF DatasetStates
  <2>2. \E k \in DatasetCandidates : w \in {k[1]} \X WrittenPins(k)
    BY DEF DatasetStates
  <2>3. writers # {}
    BY <2>2
  <2>4. names \subseteq DOMAIN Stmt[w[1]].subjects /\ w[1] \in DOMAIN Stmt
    BY <2>3, CandidateFacts DEF IsExactSubject, EvidenceInv, LoadedInv, TypeOK
  <2>5. IsFiniteSet(names) /\ names \subseteq Int
    BY <2>4, StatementAssumption, FS_Subset
  <2>6. names # {}
    BY <2>3
  <2> HIDE DEF names
  <2>7. \E m \in names : \A n \in names : n <= m
    BY <2>5, <2>6, FiniteMaximum
  <2>8. \E k \in writers : \A j \in writers : j[2] <= k[2]
    BY <2>7 DEF names
  <2>9. (CHOOSE k \in writers : \A j \in writers : j[2] <= k[2]) \in writers
    BY <2>8
  <2> DEFINE last == CHOOSE k \in writers : \A j \in writers : j[2] <= k[2]
  <2>10. last \in DatasetCandidates /\ w[2] \in WrittenPins(last)
    BY <2>9
  <2> HIDE DEF last
  <2> QED BY <1>1, <2>1, <2>10 DEF last
<1> QED BY <1>1, <1>2, <1>3

\* A required dataset manifest that was not parsed is an error of Step 8.
GapInv ==
  pc \in FromGraph /\ (\A e \in errors : e.step # 8) => RequiredDatasets \subseteq indexed

LEMMA GapStep == EvidenceInv /\ GapInv /\ [Next]_vars => GapInv'
<1> SUFFICES ASSUME EvidenceInv, GapInv, [Next]_vars, pc' \in FromGraph, \A e \in errors' : e.step # 8
             PROVE  (RequiredDatasets \subseteq indexed)'
  BY DEF GapInv
<1>1. CASE pc \in FromGraph
  <2>1. UNCHANGED <<in, index, handoffOK, authorized, indexed>>
    BY <1>1, Frame DEF FromHandoff, FromAttestations, FromAuthorize, FromMetadata, FromDatasets
  <2>2. RequiredDatasets \subseteq indexed
    BY <1>1, Frame DEF GapInv
  <2> QED BY <2>1, <2>2 DEF RequiredDatasets, EntryEdges, SubjectKey, Index
<1>2. CASE PrevalidateDatasets /\ pc' = "graph"
  <2>1. /\ indexed' = {k \in DatasetCandidates : DatasetStage(k) = "none"}
        /\ errors' = errors \cup {Diagnostic(8, c, "graph-dependency-artifacts") :
                                    c \in UNION {DatasetCode(k) : k \in DatasetCandidates}}
        /\ UNCHANGED <<in, index, handoffOK, authorized>>
        /\ ~DatasetUnreadable
    BY <1>2 DEF PrevalidateDatasets, Abort, Record
  <2>2. ASSUME NEW k \in DatasetCandidates, NEW c \in DatasetCode(k) PROVE FALSE
    <3>1. Diagnostic(8, c, "graph-dependency-artifacts") \in errors'
      BY <2>1
    <3>2. Diagnostic(8, c, "graph-dependency-artifacts").step = 8
      BY DEF Diagnostic
    <3> QED BY <3>1, <3>2
  <2>3. \A k \in DatasetCandidates : DatasetCode(k) = {}
    BY <2>2
  <2>4. RequiredDatasets \subseteq indexed'
    BY <2>1, <2>3, DatasetsInOrder
  <2> QED BY <2>1, <2>4 DEF RequiredDatasets, EntryEdges, SubjectKey, Index
<1>3. pc \in FromGraph \/ (PrevalidateDatasets /\ pc' = "graph")
  BY Moves DEF FromGraph, FromCompleteness, FromFinal, FromHistorical, FromEntries,
               FromProfiles, FromFreshness, FromRescan
<1> QED BY <1>1, <1>2, <1>3

LEMMA DatasetsPart ==
  ASSUME EvidenceInv, CleanInv, [Next]_vars, errors' = {}
  PROVE  CleanDatasets'
<1> SUFFICES ASSUME Past(FromGraph)' PROVE CleanDatasets'
  BY DEF CleanDatasets
<1>1. CASE Past(FromGraph)
  BY <1>1, CleanPath, CleanFrame
     DEF CleanInv, CleanDatasets, RequiredDatasets, EntryEdges, SubjectKey, Index
<1>2. CASE PrevalidateDatasets /\ pc' = "graph"
  <2>1. /\ indexed' = {k \in DatasetCandidates : DatasetStage(k) = "none"}
        /\ states' = DatasetStates
        /\ errors' = errors \cup {Diagnostic(8, c, "graph-dependency-artifacts") :
                                    c \in UNION {DatasetCode(k) : k \in DatasetCandidates}}
        /\ UNCHANGED <<in, index, handoffOK, authorized>>
        /\ ~DatasetUnreadable
    BY <1>2 DEF PrevalidateDatasets, Abort, Record
  <2>2. \A k \in DatasetCandidates : DatasetCode(k) = {}
    BY <2>1
  <2>3. RequiredDatasets \subseteq indexed' /\ \A w \in DOMAIN states' : states'[w] = "pass"
    BY <2>1, <2>2, DatasetsInOrder
  <2>4. RequiredDatasets' = RequiredDatasets
    BY <2>1 DEF RequiredDatasets, EntryEdges, SubjectKey, Index
  <2> QED BY <2>3, <2>4 DEF CleanDatasets
<1> QED BY <1>1, <1>2, CleanPath
-----------------------------------------------------------------------------
(* Steps 9 and 10: an error unless the lineage is sound. *)

LEMMA UsableFacts ==
  /\ DOMAIN UsableStmt = Usable /\ \A d \in Usable : UsableStmt[d] = Stmt[d]
  /\ Usable \subseteq authorized /\ Usable \subseteq DOMAIN records
  /\ Usable \subseteq Manifest.statements
BY DEF UsableStmt, Usable, Listed

\* A member of a parsed dataset manifest, by the digest its statement signs.
LEMMA MembershipFacts ==
  ASSUME EvidenceInv, NEW d, NEW n, NEW e, <<d, n, e>> \in DOMAIN Memberships
  PROVE  LET subject == Stmt[d].subjects[n]
         IN  /\ <<d, n, subject>> \in indexed
             /\ e \in DOMAIN DatasetOf[subject].members
             /\ Memberships[<<d, n, e>>] = DatasetOf[subject].members[e].digest
<1>1. PICK k \in indexed : <<d, n, e>> \in {<<k[1], k[2], x>> : x \in DOMAIN DatasetOf[have[k]].members}
  BY DEF Memberships
<1>2. k[1] = d /\ k[2] = n /\ e \in DOMAIN DatasetOf[have[k]].members
  BY <1>1
<1>3. k = <<d, n, Stmt[d].subjects[n]>> /\ have[k] = Stmt[d].subjects[n]
  BY <1>2 DEF EvidenceInv, CapturedInv, IsExactSubject
<1>4. Memberships[<<d, n, e>>] = Member(<<d, n, e>>).digest
  BY DEF Memberships
<1> QED BY <1>2, <1>3, <1>4 DEF Member

\* The problem that Step 9 drops is one that Step 8 reports.
LEMMA NoGap ==
  ASSUME EvidenceInv, RequiredDatasets \subseteq indexed
  PROVE  "E_DATASET_MANIFEST_REQUIRED" \notin GraphProblems
<1> DEFINE verified == {<<k[1], k[2]>> : k \in indexed}
<1> SUFFICES ASSUME "E_DATASET_MANIFEST_REQUIRED" \in GraphProblems PROVE FALSE
  OBVIOUS
<1>1. PICK d \in Usable : \E i \in EdgeInputs(UsableStmt, d) :
        "E_DATASET_MANIFEST_REQUIRED" \in EdgeProblem(UsableStmt, Memberships, verified, i)
  <2>1. "E_DATASET_MANIFEST_REQUIRED" \in ProblemCodes(UsableStmt, Memberships, verified)
    BY DEF GraphProblems
  <2> HIDE DEF verified
  <2>2. "E_DATASET_MANIFEST_REQUIRED" \in
          UNION {EdgeProblem(UsableStmt, Memberships, verified, i) :
                   i \in UNION {EdgeInputs(UsableStmt, d) : d \in DOMAIN UsableStmt}}
    BY <2>1 DEF ProblemCodes
  <2> QED BY <2>2, UsableFacts
<1>2. PICK i \in EdgeInputs(UsableStmt, d) :
        "E_DATASET_MANIFEST_REQUIRED" \in EdgeProblem(UsableStmt, Memberships, verified, i)
  BY <1>1
<1>3. /\ NamesSubject(UsableStmt, i) /\ i.entry # NoEntry
      /\ <<i.pred, i.subject>> \notin verified
  BY <1>2 DEF EdgeProblem
<1>4. i \in Stmt[d].inputs /\ d \in authorized
  BY <1>2, UsableFacts DEF EdgeInputs
<1>5. i.pred \in authorized /\ i.subject \in DOMAIN Stmt[i.pred].subjects
  BY <1>3, UsableFacts DEF NamesSubject
<1>6. i \in EntryEdges
  BY <1>3, <1>4, <1>5 DEF EntryEdges
<1>7. <<i.pred, i.subject, Stmt[i.pred].subjects[i.subject]>> \in RequiredDatasets
  BY <1>5, <1>6 DEF RequiredDatasets, SubjectKey
<1> QED BY <1>3, <1>7

LEMMA GraphFacts ==
  ASSUME EvidenceInv, GraphProblems = {}
  PROVE  LineageSound
<1> DEFINE verified == {<<k[1], k[2]>> : k \in indexed}
<1>1. ProblemCodes(UsableStmt, Memberships, verified) = {}
  BY DEF GraphProblems
<1> HIDE DEF verified
<1>2. \A d \in Usable : \A i \in EdgeInputs(UsableStmt, d) :
        EdgeProblem(UsableStmt, Memberships, verified, i) = {}
  BY <1>1, UsableFacts DEF ProblemCodes
<1>3. ASSUME NEW d \in Usable, NEW i \in EdgeInputs(UsableStmt, d)
      PROVE  EdgeIntact(i)
  <2>1. EdgeProblem(UsableStmt, Memberships, verified, i) = {}
    BY <1>2
  <2>2. NamesSubject(UsableStmt, i)
    BY <2>1 DEF EdgeProblem
  <2>3. UsableStmt[i.pred] = Stmt[i.pred]
    BY <2>2, UsableFacts DEF NamesSubject
  <2>4. CASE i.entry = NoEntry
    BY <2>1, <2>2, <2>3, <2>4 DEF EdgeProblem, EdgeIntact
  <2>5. CASE i.entry # NoEntry
    <3>1. /\ <<i.pred, i.subject, i.entry>> \in DOMAIN Memberships
          /\ Memberships[<<i.pred, i.subject, i.entry>>] = i.digest
      BY <2>1, <2>2, <2>5 DEF EdgeProblem
    <3> QED BY <2>2, <2>5, <3>1, MembershipFacts DEF EdgeIntact
  <2> QED BY <2>4, <2>5
<1>4. Mixed(UsableStmt) = {} /\ DuplicateEvents(UsableStmt) = {}
  BY <1>1 DEF ProblemCodes
<1>5. Acyclic(Predecessors(UsableStmt))
  BY <1>1 DEF ProblemCodes
<1>6. \A r \in Roots(UsableStmt) : Stmt[r].type = "origin"
  <2>1. \A r \in Roots(UsableStmt) : UsableStmt[r].type = "origin"
    BY <1>1 DEF ProblemCodes
  <2> QED BY <2>1, UsableFacts DEF Roots
<1> QED BY <1>3, <1>4, <1>5, <1>6 DEF LineageSound

LEMMA GraphPart ==
  ASSUME EvidenceInv, CleanInv, [Next]_vars, errors' = {}
  PROVE  CleanGraph'
<1> SUFFICES ASSUME Past(FromCompleteness)' PROVE CleanGraph'
  BY DEF CleanGraph
<1>1. ASSUME UNCHANGED <<manifest, records, authorized, indexed>>, LineageSound PROVE LineageSound'
  BY <1>1 DEF LineageSound, EdgeIntact, UsableStmt, Usable, Listed, Manifest
<1>2. CASE Past(FromCompleteness)
  <2>1. LineageSound
    BY <1>2, CleanPath DEF CleanInv, CleanGraph
  <2>2. UNCHANGED <<manifest, records, authorized, indexed>>
    BY <1>2, PastOrder, CleanFrame
  <2> QED BY <1>1, <2>1, <2>2 DEF CleanGraph
<1>3. CASE BuildGraph /\ pc = "graph"
  <2>1. GraphProblems \ {"E_DATASET_MANIFEST_REQUIRED"} = {} /\ UNCHANGED evidence
    BY <1>3 DEF BuildGraph
  <2>2. RequiredDatasets \subseteq indexed
    BY <1>3, CleanPath DEF CleanInv, CleanDatasets, Past, FromGraph
  <2>3. LineageSound
    BY <2>1, <2>2, NoGap, GraphFacts
  <2> QED BY <1>1, <2>1, <2>3 DEF CleanGraph, evidence
<1> QED BY <1>2, <1>3, CleanPath
-----------------------------------------------------------------------------
(* Step 11: an error unless the signed sets are the computed ones. *)

LEMMA CompletePart ==
  ASSUME EvidenceInv, CleanInv, [Next]_vars, errors' = {}
  PROVE  CleanComplete'
<1> DEFINE Agrees == SetsAgree /\ \A a \in FinalArtifacts : Eligible(a)
<1> SUFFICES ASSUME Past(FromFinal)' PROVE Agrees'
  BY DEF CleanComplete
<1>1. ASSUME UNCHANGED <<manifest, records, authorized>>, Agrees PROVE Agrees'
  BY <1>1 DEF SetsAgree, Reachable, FinalArtifacts, Eligible, UsableStmt, Usable, Listed, Manifest, FinalKey
<1>2. CASE Past(FromFinal)
  <2>1. Agrees
    BY <1>2, CleanPath DEF CleanInv, CleanComplete
  <2>2. UNCHANGED <<manifest, records, authorized>>
    BY <1>2, PastOrder, CleanFrame
  <2> QED BY <1>1, <2>1, <2>2
<1>3. CASE CheckCompleteness
  <2>1. Agrees /\ UNCHANGED evidence
    BY <1>3 DEF CheckCompleteness, Record
  <2>2. UNCHANGED <<manifest, records, authorized>>
    BY <2>1 DEF evidence
  <2> QED BY <1>1, <2>1, <2>2
<1> QED BY <1>2, <1>3, CleanPath
-----------------------------------------------------------------------------
(* Step 12: an error unless the bytes are there. *)

LEMMA FinalPart ==
  ASSUME EvidenceInv, CleanInv, [Next]_vars, errors' = {}
  PROVE  CleanFinal'
<1> SUFFICES ASSUME Past(FromHistorical)' PROVE CleanFinal'
  BY DEF CleanFinal
<1>0. ASSUME manifest' = manifest PROVE FinalKeys' = FinalKeys
  BY <1>0 DEF FinalKeys, FinalKey, FinalArtifacts, Manifest
<1>1. CASE Past(FromHistorical)
  <2>1. FinalKeys \subseteq DOMAIN have
    BY <1>1, CleanPath DEF CleanInv, CleanFinal
  <2> QED BY <1>0, <1>1, <2>1, PastOrder, CleanFrame, Frame DEF CleanFinal
<1>2. CASE VerifyFinalArtifacts /\ pc = "final"
  <2> DEFINE A(i) == Manifest.artifacts[i]
             n == Len(Manifest.artifacts)
             eligible == {i \in 1..n : Eligible(A(i))}
             unmapped == {i \in eligible : ~FinalMapped(FinalKey(A(i)))}
             toRead == {i \in eligible \ unmapped : FinalKey(A(i)) \notin DOMAIN have}
             failing == {i \in eligible : ~FinalPasses(FinalKey(A(i)))}
  <2>1. /\ errors' = errors
             \cup {Diagnostic(11, "E_MANIFEST_SET", "completeness-anchor") : i \in unmapped}
             \cup {Diagnostic(12, c, "artifact-bytes") :
                     c \in UNION {BytesCode(FinalKey(A(i)), Index.artifacts[FinalKey(A(i))]) :
                                  i \in toRead}}
        /\ have' = Captured({FinalKey(A(i)) : i \in eligible \ failing})
        /\ manifest' = manifest
    BY <1>2 DEF VerifyFinalArtifacts
  <2>2. \A a \in FinalArtifacts : Eligible(a)
    BY <1>2, CleanPath DEF CleanInv, CleanComplete, Past, FromFinal
  <2>3. DOMAIN Manifest.artifacts = 1..n
    <3>1. manifest \in Content /\ EnvelopeOf(manifest).fault = "none" /\ EnvelopeOf(manifest).type = "handoff"
      BY <1>2 DEF EvidenceInv, LoadedInv, TypeOK, FromHandoff, FromAttestations, FromAuthorize, FromMetadata,
           FromDatasets, FromGraph, FromCompleteness, FromFinal
    <3> QED BY <3>1, EnvelopeAssumption DEF Manifest
  <2>4. eligible = 1..n
    BY <2>2, <2>3 DEF FinalArtifacts
  <2>5. unmapped = {}
    BY <2>1
  <2>6. \A i \in toRead : BytesCode(FinalKey(A(i)), Index.artifacts[FinalKey(A(i))]) = {}
    BY <2>1
  <2>7. failing = {}
    BY <2>5, <2>6 DEF FinalPasses
  <2>8. \A i \in 1..n : FinalKey(A(i)) \in DOMAIN have'
    BY <2>1, <2>4, <2>7 DEF Captured
  <2> QED BY <1>0, <2>1, <2>3, <2>8 DEF CleanFinal, FinalKeys, FinalArtifacts
<1> QED BY <1>1, <1>2, CleanPath

LEMMA HistoricalPart ==
  ASSUME EvidenceInv, CleanInv, [Next]_vars, errors' = {}
  PROVE  CleanHistorical'
<1> SUFFICES ASSUME Past(FromEntries)' PROVE CleanHistorical'
  BY DEF CleanHistorical
<1>0. ASSUME UNCHANGED <<manifest, records, authorized>>
      PROVE  ProfileTargets' = ProfileTargets
  BY <1>0 DEF ProfileTargets, SubjectKey, Reachable, UsableStmt, Usable, Listed, Manifest
<1>1. CASE Past(FromEntries)
  <2>1. CleanHistorical
    BY CleanPath DEF CleanInv
  <2>2. UNCHANGED <<manifest, records, authorized>> /\ have' = have
    BY <1>1, PastOrder, CleanFrame
  <2> QED BY <1>0, <1>1, <2>1, <2>2 DEF CleanHistorical, ArtifactProfiles
<1>2. CASE VerifyHistorical /\ pc = "historical"
  <2> DEFINE alien == {k \in HistoricalKeys : ~IsExactSubject(k, Usable)}
             supplied == {k \in HistoricalKeys \ alien : MaterialStatus(k) # "no-bytes"}
             passing == {k \in supplied : HistoricalCode(k) = {}}
  <2>1. /\ Record({Diagnostic(11, "E_MANIFEST_SET", "completeness-anchor") : k \in alien}
                  \cup {Diagnostic(12, c, "artifact-bytes") :
                          c \in UNION {HistoricalCode(k) : k \in HistoricalKeys}})
        /\ have' = Captured(passing)
        /\ UNCHANGED <<manifest, records, authorized>>
    BY <1>2 DEF VerifyHistorical
  <2>2. \A k \in HistoricalKeys : HistoricalCode(k) = {}
    BY <2>1 DEF Record
  <2>3. ASSUME NEW k \in ProfileTargets, NEW p \in ArtifactProfiles(k[1], k[2]), p.critical
        PROVE  k \in DOMAIN have'
    <3>1. CASE k \in FinalKeys
      BY <1>2, <3>1, CleanPath, Frame DEF CleanInv, CleanFinal, Past, FromHistorical
    <3>2. CASE k \notin FinalKeys
      <4>1. k \in HistoricalKeys
        BY <3>2 DEF HistoricalKeys
      <4>2. PICK d \in Reachable \cap Usable : \E name : k \in SubjectKey(d, name)
        BY DEF ProfileTargets
      <4>3. IsExactSubject(k, Usable)
        BY <4>2 DEF SubjectKey, IsExactSubject
      <4>4. MaterialStatus(k) # "no-bytes"
        BY <2>2, <2>3, <4>1, <4>3 DEF HistoricalCode
      <4>5. k \in passing
        BY <2>2, <4>1, <4>3, <4>4
      <4> HIDE DEF passing
      <4> QED BY <2>1, <4>5 DEF Captured
    <3> QED BY <3>1, <3>2
  <2> QED BY <1>0, <2>1, <2>3 DEF CleanHistorical, ArtifactProfiles
<1> QED BY <1>1, <1>2, CleanPath

LEMMA FreshPart ==
  ASSUME EvidenceInv, CleanInv, [Next]_vars, errors' = {}
  PROVE  CleanFresh'
<1> SUFFICES ASSUME Past(FromRescan)' PROVE CleanFresh'
  BY DEF CleanFresh
<1>0. ASSUME UNCHANGED <<in, manifest>> PROVE FreshnessCodes' = FreshnessCodes
  BY <1>0 DEF FreshnessCodes, FreshnessMethods, AnchorHolds, AnchorCode, RecipientChecked,
              RecipientHolds, Age, ManifestDigest, Manifest, FinalKeys, FinalKey, FinalArtifacts
<1>1. CASE Past(FromRescan)
  BY <1>0, <1>1, CleanPath, CleanFrame, PastOrder DEF CleanInv, CleanFresh
<1>2. CASE EvaluateFreshness
  <2>1. FreshnessCodes = {} /\ UNCHANGED <<in, manifest>>
    BY <1>2 DEF EvaluateFreshness, Record, evidence
  <2> QED BY <1>0, <2>1 DEF CleanFresh
<1> QED BY <1>1, <1>2, CleanPath
-----------------------------------------------------------------------------
AllowInv == EvidenceInv /\ CleanInv /\ DecisionInv /\ GapInv

\* While there is no error, every step that was taken has left behind what it
\* is there to establish.
THEOREM AllowInvHolds == Spec => []AllowInv
<1>1. Init => AllowInv
  <2> SUFFICES ASSUME Init PROVE AllowInv
    OBVIOUS
  <2>1. pc = "scan" /\ decision = "none"
    BY DEF Init
  <2>2. CleanInv
    BY <2>1 DEF CleanInv, CleanHandoff, CleanRecords, CleanCandidates, CleanAuthorized, CleanDatasets,
       CleanGraph, CleanComplete, CleanFinal, CleanHistorical, CleanFresh, Past, FromAttestations,
       FromAuthorize, FromMetadata, FromDatasets, FromGraph, FromCompleteness, FromFinal,
       FromHistorical, FromEntries, FromProfiles, FromFreshness, FromRescan
  <2>3. GapInv
    BY <2>1 DEF GapInv, FromGraph, FromCompleteness, FromFinal,
       FromHistorical, FromEntries, FromProfiles, FromFreshness, FromRescan
  <2> QED BY <2>1, <2>2, <2>3, InitEvidence DEF AllowInv, DecisionInv
<1>2. AllowInv /\ EvidenceInv' /\ [Next]_vars => AllowInv'
  <2> SUFFICES ASSUME AllowInv, EvidenceInv', [Next]_vars PROVE AllowInv'
    OBVIOUS
  <2>1. CleanInv'
    BY HandoffPart, RecordsPart, CandidatesPart, AuthorizedPart, DatasetsPart, GraphPart,
       CompletePart, FinalPart, HistoricalPart, FreshPart DEF AllowInv, CleanInv
  <2> QED BY <2>1, DecisionStep, GapStep DEF AllowInv
<1> QED BY <1>1, <1>2, EvidenceHolds, PTL DEF Spec

\* The graph problem E_DATASET_MANIFEST_REQUIRED, which _verify_bundle drops, is
\* never the only trace of a missing dataset manifest.
THEOREM DatasetGapReportedHolds == Spec => []DatasetGapReported
<1>1. AllowInv => DatasetGapReported
  <2> SUFFICES ASSUME AllowInv,
                      pc \in {"completeness", "final", "historical", "entries", "profiles",
                              "freshness", "rescan"},
                      "E_DATASET_MANIFEST_REQUIRED" \in GraphProblems,
                      \A e \in errors : e.step # 8
               PROVE  FALSE
    BY DEF DatasetGapReported
  <2>1. RequiredDatasets \subseteq indexed
    BY DEF AllowInv, GapInv, FromGraph, FromCompleteness, FromFinal, FromHistorical, FromEntries,
           FromProfiles, FromFreshness, FromRescan
  <2> QED BY <2>1, NoGap DEF AllowInv
<1> QED BY <1>1, AllowInvHolds, PTL

\* All that an allowed report rests on.
LEMMA AllowFacts ==
  ASSUME AllowInv, decision = "allow"
  PROVE  /\ errors = {} /\ index # NoBytes /\ manifest \in Content
         /\ EnvelopeOf(manifest).fault = "none" /\ EnvelopeOf(manifest).type = "handoff"
         /\ HandoffAuthorized(in.policy, EnvelopeOf(manifest).sigs, in.request.time)
         /\ DOMAIN records = DOMAIN Index.attestations
         /\ \A d \in DOMAIN records : /\ d \in authorized
                                      /\ \E r \in Candidates(d) : PinsAdmitted(r, d)
         /\ LineageSound /\ SetsAgree /\ (\A a \in FinalArtifacts : Eligible(a))
         /\ FinalKeys \subseteq DOMAIN have /\ CleanHistorical /\ FreshnessCodes = {}
         /\ Past(FromEntries)
<1>1. pc = "done" /\ errors = {}
  BY DEF AllowInv, DecisionInv, Decision, EvidenceInv, TypeOK
<1>2. \A S : Past(S)
  BY <1>1 DEF Past
<1>3. /\ CleanHandoff /\ CleanRecords /\ CleanAuthorized
      /\ CleanGraph /\ CleanComplete /\ CleanFinal /\ CleanHistorical /\ CleanFresh
  BY <1>1 DEF AllowInv, CleanInv
<1>4. /\ index # NoBytes /\ manifest # NoBytes
      /\ HandoffAuthorized(in.policy, EnvelopeOf(manifest).sigs, in.request.time)
  BY <1>2, <1>3 DEF CleanHandoff
<1>5. /\ manifest \in Content /\ EnvelopeOf(manifest).fault = "none"
      /\ EnvelopeOf(manifest).type = "handoff"
  BY <1>4 DEF AllowInv, EvidenceInv, TypeOK, LoadedInv
<1>6. DOMAIN records = DOMAIN Index.attestations
  BY <1>2, <1>3 DEF CleanRecords
<1>7. \A d \in DOMAIN records : d \in authorized /\ \E r \in Candidates(d) : PinsAdmitted(r, d)
  BY <1>2, <1>3 DEF CleanAuthorized
<1>8. LineageSound
  BY <1>2, <1>3 DEF CleanGraph
<1>9. SetsAgree /\ \A a \in FinalArtifacts : Eligible(a)
  BY <1>2, <1>3 DEF CleanComplete
<1>10. FinalKeys \subseteq DOMAIN have /\ FreshnessCodes = {}
  BY <1>2, <1>3 DEF CleanFinal, CleanFresh
<1> QED BY <1>1, <1>2, <1>3, <1>4, <1>5, <1>6, <1>7, <1>8, <1>9, <1>10

\* The usable statements of an allowed report are the listed ones, and every
\* edge of theirs was looked at.
LEMMA AllowLineage ==
  ASSUME AllowInv, decision = "allow"
  PROVE  /\ DOMAIN records = Manifest.statements
         /\ Usable = Manifest.statements
         /\ UsableStmt = [d \in Manifest.statements |-> Stmt[d]]
         /\ Manifest.heads \subseteq Manifest.statements
         /\ Manifest.statements \subseteq Digest \cap DOMAIN Stmt
         /\ \A d \in Manifest.statements : EdgeInputs(UsableStmt, d) = Stmt[d].inputs
<1>1. DOMAIN records = Manifest.statements
  BY AllowFacts DEF SetsAgree
<1>2. Usable = Manifest.statements
  BY <1>1, AllowFacts DEF Usable, Listed
<1>3. UsableStmt = [d \in Manifest.statements |-> Stmt[d]]
  BY <1>2 DEF UsableStmt
<1>4. Manifest.heads \subseteq Manifest.statements
  BY <1>2, AllowFacts DEF SetsAgree, Eligible
<1>5. Manifest.statements \subseteq Digest \cap DOMAIN Stmt
  BY <1>1 DEF AllowInv, EvidenceInv, TypeOK, LoadedInv
<1>6. ASSUME NEW d \in Manifest.statements
      PROVE  EdgeInputs(UsableStmt, d) = Stmt[d].inputs
  <2>1. Mixed(UsableStmt) = {} /\ UsableStmt[d] = Stmt[d]
    BY <1>3, AllowFacts DEF LineageSound
  <2>2. Stmt[d].type = "origin" => Stmt[d].inputs = {}
    BY <1>5, StatementAssumption
  <2> QED BY <2>1, <2>2 DEF EdgeInputs
<1> QED BY <1>1, <1>2, <1>3, <1>4, <1>5, <1>6
-----------------------------------------------------------------------------
(* The theorems about "allow". *)

\* Signers that reach a threshold endorse: every one of them has a good
\* signature under a configured key or identity.
LEMMA ThresholdEndorses ==
  ASSUME LoadedInv, NEW rule, NEW sigs, MeetsThreshold(in.policy, rule, sigs, in.request.time)
  PROVE  Endorsed(rule, sigs)
<1> DEFINE K == PassingSigners(in.policy, sigs, in.request.time) \cap rule.signers
<1>1. in.policy.identities \cap DOMAIN in.policy.keys = {}
  <2>1. PICK s \in Scenarios : in = [policy |-> s.policy, request |-> s.request, others |-> s.others]
    BY DEF LoadedInv
  <2>2. in.policy = s.policy
    BY <2>1
  <2> QED BY <2>2, ScenarioAssumption
<1>2. K \in SUBSET rule.signers /\ Cardinality(K) >= rule.minimum
  BY DEF MeetsThreshold
<1>3. ASSUME NEW k \in K
      PROVE  \E s \in sigs :
               /\ s.keyid = k /\ s.good
               /\ IF s.keyless THEN k \in in.policy.identities /\ in.policy.trustRoot
                  ELSE /\ k \in DOMAIN in.policy.keys
                       /\ \A b \in in.policy.keys[k].validFrom : in.request.time >= b
                       /\ \A b \in in.policy.keys[k].validUntil : in.request.time < b
  <2>1. PICK s \in sigs : /\ s.keyid = k /\ Cryptographic(in.policy, s) = "pass"
                          /\ SignerValidAt(in.policy, k, in.request.time)
    BY DEF PassingSigners
  <2>2. KeyKnown(in.policy, s) /\ s.good /\ (s.keyless => in.policy.trustRoot)
    BY <2>1 DEF Cryptographic
  <2>3. CASE s.keyless
    BY <2>1, <2>2, <2>3 DEF KeyKnown
  <2>4. CASE ~s.keyless
    <3>1. k \in DOMAIN in.policy.keys /\ k \notin in.policy.identities
      BY <1>1, <2>1, <2>2, <2>4 DEF KeyKnown
    <3>2. KeyValidAt(in.policy, k, in.request.time)
      BY <2>1, <3>1 DEF SignerValidAt
    <3> QED BY <2>1, <2>2, <2>4, <3>1, <3>2 DEF KeyValidAt
  <2> QED BY <2>3, <2>4
<1> HIDE DEF K
<1> QED BY <1>2, <1>3 DEF Endorsed

\* An allowed handoff and every statement it lists carry the signatures the
\* policy asks for, and the profiles a rule pins validate.
THEOREM AllowMeansAuthorizedHolds == Spec => []AllowMeansAuthorized
<1>1. AllowInv => AllowMeansAuthorized
  <2> SUFFICES ASSUME AllowInv, decision = "allow" PROVE AllowMeansAuthorized
    BY DEF AllowMeansAuthorized
  <2>1. LoadedInv
    BY DEF AllowInv, EvidenceInv
  <2>2. Endorsed(in.policy.handoff, EnvelopeOf(manifest).sigs)
    BY <2>1, AllowFacts, ThresholdEndorses DEF HandoffAuthorized
  <2>3. ASSUME NEW d \in Manifest.statements
        PROVE  /\ d \in DOMAIN records /\ EnvelopeOf(records[d]).digest = d
               /\ \E r \in in.policy.rules :
                    /\ RuleMatches(r, Stmt[d])
                    /\ Endorsed(r, EnvelopeOf(records[d]).sigs)
                    /\ PinsAdmitted(r, d)
    <3>1. d \in DOMAIN records
      BY AllowLineage
    <3>2. PICK r \in Candidates(d) : PinsAdmitted(r, d)
      BY <3>1, AllowFacts
    <3>3. /\ r \in in.policy.rules /\ RuleMatches(r, Stmt[d])
          /\ MeetsThreshold(in.policy, r, EnvelopeOf(records[d]).sigs, in.request.time)
      BY DEF Candidates, CandidateRules, Sigs
    <3>4. Endorsed(r, EnvelopeOf(records[d]).sigs)
      BY <2>1, <3>3, ThresholdEndorses
    <3> QED BY <2>1, <3>1, <3>2, <3>3, <3>4 DEF LoadedInv
  <2> QED BY <2>2, <2>3, AllowFacts DEF AllowMeansAuthorized, PinsAdmitted
<1> QED BY <1>1, AllowInvHolds, PTL

\* An allowed handoff lists a whole lineage: closed under predecessors,
\* acyclic, rooted in exactly the listed roots, all origins, and upstream of
\* the listed heads.
THEOREM AllowMeansCompleteHolds == Spec => []AllowMeansComplete
<1>1. AllowInv => AllowMeansComplete
  <2> SUFFICES ASSUME AllowInv, decision = "allow" PROVE AllowMeansComplete
    BY DEF AllowMeansComplete
  <2> DEFINE S == [d \in Manifest.statements |-> Stmt[d]]
  <2>0. UsableStmt = S /\ Usable = Manifest.statements
    BY AllowLineage
  <2>1. DOMAIN Index.attestations = Manifest.statements /\ Manifest.heads \subseteq Manifest.statements
    BY AllowFacts, AllowLineage
  <2>2. Roots(S) = Manifest.roots /\ Acyclic(Predecessors(S)) /\ DuplicateEvents(S) = {}
        /\ \A r \in Roots(S) : Stmt[r].type = "origin"
    BY <2>0, AllowFacts DEF SetsAgree, LineageSound
  <2>3. Reached(Predecessors(S), Manifest.heads) = Manifest.statements
    <3>1. Manifest.heads \cap Usable = Manifest.heads
      BY <2>0, <2>1
    <3> QED BY <2>0, <3>1, AllowFacts DEF SetsAgree, Reachable
  <2>4. Manifest.roots = {d \in Manifest.statements : S[d].type = "origin"}
    <3>1. \A d \in Manifest.statements : S[d].type = "origin" => Predecessors(S)[d] = {}
      BY DEF Predecessors, EdgeInputs
    <3> QED BY <2>2, <3>1 DEF Roots
  <2>5. ASSUME NEW d \in Manifest.statements, NEW e \in Manifest.statements, S[d].event = S[e].event
        PROVE  d = e
    <3>1. d \in Int /\ e \in Int
      BY AllowLineage, StatementAssumption
    <3>2. ~(d < e) /\ ~(e < d)
      BY <2>2, <2>5 DEF DuplicateEvents
    <3> QED BY <3>1, <3>2
  <2> QED BY <2>1, <2>2, <2>3, <2>4, <2>5 DEF AllowMeansComplete
<1> QED BY <1>1, AllowInvHolds, PTL

\* Every input of an allowed lineage is what its predecessor signed, and the
\* dataset manifests it relies on were captured and parsed.
THEOREM AllowMeansLineageIntactHolds == Spec => []AllowMeansLineageIntact
<1>1. AllowInv => AllowMeansLineageIntact
  <2> SUFFICES ASSUME AllowInv, decision = "allow", NEW d \in Manifest.statements,
                      NEW i \in Stmt[d].inputs
               PROVE  /\ i.pred \in Manifest.statements
                      /\ i.subject \in DOMAIN Stmt[i.pred].subjects
                      /\ LET subject == Stmt[i.pred].subjects[i.subject]
                             key == <<i.pred, i.subject, subject>>
                         IN  IF i.entry = NoEntry THEN subject = i.digest
                             ELSE /\ key \in DOMAIN have /\ have[key] = subject
                                  /\ DatasetOf[subject].fault = "none"
                                  /\ i.entry \in DOMAIN DatasetOf[subject].members
                                  /\ DatasetOf[subject].members[i.entry].digest = i.digest
    BY DEF AllowMeansLineageIntact
  <2>1. d \in Usable /\ i \in EdgeInputs(UsableStmt, d)
    BY AllowLineage
  <2>2. EdgeIntact(i)
    BY <2>1, AllowFacts DEF LineageSound
  <2>3. i.pred \in Manifest.statements /\ i.subject \in DOMAIN Stmt[i.pred].subjects
    BY <2>2, UsableFacts DEF EdgeIntact, NamesSubject
  <2> DEFINE subject == Stmt[i.pred].subjects[i.subject]
             key == <<i.pred, i.subject, subject>>
  <2>4. CASE i.entry = NoEntry
    BY <2>2, <2>3, <2>4 DEF EdgeIntact
  <2>5. CASE i.entry # NoEntry
    <3>1. /\ key \in indexed /\ i.entry \in DOMAIN DatasetOf[subject].members
          /\ DatasetOf[subject].members[i.entry].digest = i.digest
      BY <2>2, <2>5 DEF EdgeIntact
    <3>2. key \in DOMAIN have /\ have[key] = key[3] /\ DatasetOf[key[3]].fault = "none"
      BY <3>1 DEF AllowInv, EvidenceInv, CapturedInv
    <3> QED BY <2>3, <2>5, <3>1, <3>2
  <2> QED BY <2>4, <2>5
<1> QED BY <1>1, AllowInvHolds, PTL

\* Every final artifact of an allowed handoff is an unconsumed subject of its
\* head whose captured bytes have the signed digest, and the bytes behind every
\* critical content profile were captured too.
THEOREM AllowMeansBytesVerifiedHolds == Spec => []AllowMeansBytesVerified
<1>1. AllowInv => AllowMeansBytesVerified
  <2> SUFFICES ASSUME AllowInv, decision = "allow" PROVE AllowMeansBytesVerified
    BY DEF AllowMeansBytesVerified
  <2>0. \A k \in DOMAIN have : have[k] = k[3]
    BY DEF AllowInv, EvidenceInv, CapturedInv
  <2>1. ASSUME NEW a \in FinalArtifacts
        PROVE  /\ a.head \in Manifest.heads /\ a.name \in DOMAIN Stmt[a.head].subjects
               /\ FinalKey(a) \in DOMAIN have /\ have[FinalKey(a)] = a.digest
    <3>1. a.head \in Manifest.heads /\ a.name \in DOMAIN Stmt[a.head].subjects
      BY AllowFacts DEF SetsAgree, Eligible
    <3>2. FinalKey(a) \in DOMAIN have
      BY AllowFacts DEF FinalKeys
    <3>3. have[FinalKey(a)] = a.digest
      BY <2>0, <3>2 DEF FinalKey
    <3> QED BY <3>1, <3>2, <3>3
  <2>2. ASSUME NEW a \in FinalArtifacts, NEW d \in Manifest.statements, NEW i \in Stmt[d].inputs,
               i.entry = NoEntry, <<i.pred, i.subject, i.digest>> = FinalKey(a)
        PROVE  FALSE
    <3>1. i \in EdgeInputs(UsableStmt, d) /\ d \in DOMAIN UsableStmt
      BY AllowLineage
    <3>2. EdgeIntact(i)
      BY <3>1, AllowFacts, AllowLineage DEF LineageSound
    <3>3. <<i.pred, i.subject, i.digest>> \in ConsumedSubjects(UsableStmt)
      BY <2>2, <3>1, <3>2 DEF ConsumedSubjects, EdgeIntact
    <3> QED BY <2>2, <3>3, AllowFacts DEF Eligible
  <2>3. ASSUME NEW d \in Manifest.statements, NEW p \in Stmt[d].profiles,
               p.target = "artifact", p.critical, p.subject \in DOMAIN Stmt[d].subjects
        PROVE  LET key == <<d, p.subject, Stmt[d].subjects[p.subject]>>
               IN  key \in DOMAIN have /\ have[key] = key[3]
    <3> DEFINE key == <<d, p.subject, Stmt[d].subjects[p.subject]>>
    <3>1. d \in Reachable \cap Usable /\ d \in authorized
      BY AllowFacts, AllowLineage, UsableFacts DEF SetsAgree
    <3>2. key \in ProfileTargets
      BY <2>3, <3>1 DEF ProfileTargets, SubjectKey
    <3>3. p \in ArtifactProfiles(key[1], key[2])
      BY <2>3 DEF ArtifactProfiles
    <3>4. key \in DOMAIN have
      BY <2>3, <3>2, <3>3, AllowFacts DEF CleanHistorical
    <3> QED BY <2>0, <3>4
  <2> QED BY <2>1, <2>2, <2>3 DEF AllowMeansBytesVerified
<1> QED BY <1>1, AllowInvHolds, PTL

\* Whatever anchor the consumer supplied, or its policy demands, holds of an
\* allowed handoff; one without any is allowed only by explicit policy.
THEOREM AllowMeansFreshHolds == Spec => []AllowMeansFresh
<1>1. AllowInv => AllowMeansFresh
  <2> SUFFICES ASSUME AllowInv, decision = "allow" PROVE AllowMeansFresh
    BY DEF AllowMeansFresh
  <2>1. /\ \A m \in FreshnessMethods : AnchorHolds(m)
        /\ RecipientChecked => RecipientHolds
        /\ FreshnessMethods = {} => in.policy.handoff.allowReplay
    BY AllowFacts DEF FreshnessCodes
  <2>2. in.request.manifest # {} => in.request.manifest = {ManifestDigest}
    BY <2>1 DEF FreshnessMethods, AnchorHolds
  <2>3. in.request.heads # {} => in.request.heads = Manifest.heads
    BY <2>1 DEF FreshnessMethods, AnchorHolds
  <2>4. in.request.artifacts # {} => in.request.artifacts = FinalKeys
    BY <2>1 DEF FreshnessMethods, AnchorHolds
  <2>5. in.request.nonce # {} \/ in.policy.handoff.requireNonce =>
          in.request.nonce # {} /\ in.request.nonce = Manifest.nonce
    BY <2>1 DEF FreshnessMethods, AnchorHolds
  <2>6. in.request.recipient # {} \/ in.policy.handoff.requireRecipient =>
          in.request.recipient # {} /\ in.request.recipient = Manifest.recipient
    BY <2>1 DEF RecipientChecked, RecipientHolds
  <2>7. \A x \in in.policy.handoff.maxAge : -in.policy.handoff.maxSkew <= Age /\ Age <= x
    BY <2>1 DEF FreshnessMethods, AnchorHolds
  <2>8. /\ in.request.time \in Int /\ in.policy.handoff.maxSkew \in Int
        /\ in.policy.handoff.maxAge \subseteq Int
    <3>1. PICK s \in Scenarios : in = [policy |-> s.policy, request |-> s.request, others |-> s.others]
      BY DEF AllowInv, EvidenceInv, LoadedInv
    <3>2. in.policy = s.policy /\ in.request = s.request
      BY <3>1
    <3> QED BY <3>2, ScenarioAssumption
  <2>9. Manifest.issued \in Int
    BY AllowFacts, EnvelopeAssumption DEF Manifest
  <2>10. \A x \in in.policy.handoff.maxAge :
           in.request.time - Manifest.issued \in -in.policy.handoff.maxSkew..x
    BY <2>7, <2>8, <2>9 DEF Age
  <2>11. (\E m \in FreshnessMethods : AnchorHolds(m)) \/ in.policy.handoff.allowReplay
    BY <2>1
  <2> QED BY <2>2, <2>3, <2>4, <2>5, <2>6, <2>10, <2>11 DEF AllowMeansFresh
<1> QED BY <1>1, AllowInvHolds, PTL

-----------------------------------------------------------------------------
(* Step 13, if at most one change is made to the directory. *)

\* Captured bytes belong to exact subjects of authorized statements.
HaveInv ==
  /\ index # NoBytes => Index.fault = "none"
  /\ pc \notin FromGraph \cup Ended => DOMAIN have = {}
  /\ \A k \in DOMAIN have : IsKey(k) /\ IsExactSubject(k, authorized)

\* Until somebody changes the directory it is as the first scan found it.
QuietInv ==
  edits = 0 => \A p \in DOMAIN inventory :
                 disk[p].kind = inventory[p].kind /\ disk[p].inode = inventory[p].inode

\* A candidate of Step 8 was parsed then, or its bytes are not available: the
\* change that made them so cannot be followed by one that undoes it.
Settled(k) == k \in indexed \/ (k \notin DOMAIN have /\ MaterialStatus(k) # "ok")

CleanSettled ==
  Past(FromGraph) =>
    /\ \A w \in DOMAIN states : w[2][1] = DatasetId
    /\ \A k \in DatasetCandidates : DatasetProfile(k[2]) \in ArtifactProfiles(k[1], k[2])
    /\ \A k \in indexed : ~Conflicting(k)
    /\ edits <= 1 => \A k \in DatasetCandidates : Settled(k)

Recorded(k) == \E r \in arts : r.key = k /\ r.status # "skipped"

CleanFinalRecorded == Past(FromHistorical) => \A k \in FinalKeys : Recorded(k)

CleanRecorded ==
  Past(FromEntries) => \A k \in DOMAIN have : ArtifactProfiles(k[1], k[2]) # {} => Recorded(k)

CleanEvaluated ==
  Past(FromFreshness) =>
    \A k \in DOMAIN have : \A p \in ArtifactProfiles(k[1], k[2]) :
      IsCached(k, p) \/ (<<have[k], p.media>> \in Parsable /\ ArtifactConforms(k, p))

ConformInv ==
  /\ HaveInv /\ QuietInv
  /\ errors = {} => CleanSettled /\ CleanFinalRecorded /\ CleanRecorded /\ CleanEvaluated

\* Who changes the directory, the inventory and the artifact records.
LEMMA DiskFrame ==
  ASSUME EvidenceInv, [Next]_vars
  PROVE  /\ \/ Environment /\ UNCHANGED <<evidence, pc, errors>> /\ edits' = edits + 1
            \/ UNCHANGED <<disk, edits>>
         /\ inventory' = inventory \/ inventory' = Inventory
         /\ pc # "scan" => inventory' = inventory
         /\ pc \in FromEntries \cup Ended => arts' = arts
<1> USE DEF evidence, FromEntries, FromProfiles, FromFreshness, FromRescan, Ended
<1>1. CASE ScanBundle \/ SnapshotConsumer \/ IndexUnavailable \/ ReadIndex
  BY <1>1 DEF ScanBundle, SnapshotConsumer, IndexUnavailable, ReadIndex, Terminate
<1>2. CASE ManifestAbsent \/ ManifestRejected \/ LoadManifest
  BY <1>2 DEF ManifestAbsent, ManifestRejected, LoadManifest, Terminate, Abort
<1>3. CASE AuthorizeHandoff \/ LoadAttestations \/ AuthorizeStatements
  BY <1>3 DEF AuthorizeHandoff, LoadAttestations, AuthorizeStatements, Abort
<1>4. CASE ValidateMetadataProfiles \/ PrevalidateDatasets
  BY <1>4 DEF ValidateMetadataProfiles, PrevalidateDatasets, Abort
<1>5. CASE BuildGraph \/ CheckCompleteness \/ HashConsumerOnly
  BY <1>5 DEF BuildGraph, CheckCompleteness, HashConsumerOnly
<1>6. CASE VerifyFinalArtifacts
  <2>1. pc = "final" /\ UNCHANGED <<inventory, disk, edits>>
    BY <1>6 DEF VerifyFinalArtifacts
  <2> QED BY <2>1
<1>7. CASE VerifyHistorical
  <2>1. pc = "historical" /\ UNCHANGED <<inventory, disk, edits>>
    BY <1>7 DEF VerifyHistorical
  <2> QED BY <2>1
<1>8. CASE VerifyDatasetEntries
  <2>1. UNCHANGED <<inventory, disk, edits, arts>>
    BY <1>8 DEF VerifyDatasetEntries
  <2> QED BY <2>1
<1>9. CASE ValidateArtifactProfiles \/ EvaluateFreshness \/ Rescan
  <2>1. UNCHANGED <<evidence, disk, edits>>
    BY <1>9 DEF ValidateArtifactProfiles, EvaluateFreshness, Rescan, Abort
  <2> QED BY <2>1
<1>10. CASE Environment
  <2>1. \E p, node : Edit(p, node)
    BY <1>10 DEF Environment, Rewrite, Replace, ReplaceByLink, Remove
  <2>2. UNCHANGED <<evidence, pc, errors>> /\ edits' = edits + 1
    BY <2>1 DEF Edit
  <2> QED BY <1>10, <2>2
<1>11. CASE UNCHANGED vars
  BY <1>11 DEF vars
<1> QED BY <1>1, <1>2, <1>3, <1>4, <1>5, <1>6, <1>7, <1>8, <1>9, <1>10, <1>11
        DEF Next, Verifier, Reported

LEMMA QuietStep ==
  ASSUME EvidenceInv, QuietInv, [Next]_vars
  PROVE  QuietInv'
<1>0. edits \in Nat
  BY MaxEditsAssumption DEF EvidenceInv, TypeOK
<1>1. CASE Environment /\ edits' = edits + 1
  BY <1>0, <1>1 DEF QuietInv
<1>2. CASE UNCHANGED <<disk, edits>> /\ inventory' = inventory
  BY <1>2 DEF QuietInv
<1>3. CASE UNCHANGED <<disk, edits>> /\ inventory' = Inventory
  BY <1>3 DEF QuietInv, Inventory
<1> QED BY <1>1, <1>2, <1>3, DiskFrame

\* The bytes of a key that are out of reach after the first change, or before
\* it, stay so until a second one.
LEMMA OutOfReach ==
  ASSUME EvidenceInv, QuietInv, [Next]_vars, edits' <= 1, pc \in FromGraph \cup Ended, NEW k,
         MaterialStatus(k) # "ok"
  PROVE  MaterialStatus(k)' # "ok"
<1>0. UNCHANGED <<in, index, handoffOK, inventory>>
  BY Frame, DiskFrame DEF FromHandoff, FromAttestations, FromAuthorize, FromMetadata, FromDatasets,
     FromGraph, FromCompleteness, FromFinal, FromHistorical, FromEntries, FromProfiles,
     FromFreshness, FromRescan, Ended
<1>1. CASE UNCHANGED disk
  BY <1>0, <1>1 DEF MaterialStatus, ReadStatus, IsInventoriedFile, Index
<1>2. CASE edits = 0
  <2>1. ASSUME NEW p, ReadStatus(p) # "ok" PROVE ~IsInventoriedFile(p)
    BY <1>2, <2>1 DEF QuietInv, ReadStatus, IsInventoriedFile
  <2>2. ASSUME NEW p, ~IsInventoriedFile(p) PROVE ReadStatus(p)' = "absent"
    BY <1>0, <2>2 DEF ReadStatus, IsInventoriedFile
  <2> QED BY <1>0, <2>1, <2>2 DEF MaterialStatus, Index
<1>3. edits = 0 \/ UNCHANGED disk
  <2>1. edits \in Nat
    BY MaxEditsAssumption DEF EvidenceInv, TypeOK
  <2> QED BY <2>1, DiskFrame
<1> QED BY <1>1, <1>2, <1>3

-----------------------------------------------------------------------------
(* What is captured, by Steps 8 and 12. *)

LEMMA FinalCaptures ==
  ASSUME EvidenceInv, VerifyFinalArtifacts, NEW k \in DOMAIN have' \ DOMAIN have
  PROVE  /\ IsKey(k) /\ IsExactSubject(k, Usable)
         /\ handoffOK => MaterialStatus(k) = "ok"
<1> DEFINE A(i) == Manifest.artifacts[i]
           eligible == {i \in 1..Len(Manifest.artifacts) : Eligible(A(i))}
           failing == {i \in eligible : ~FinalPasses(FinalKey(A(i)))}
<1>1. have' = Captured({FinalKey(A(i)) : i \in eligible \ failing})
  BY DEF VerifyFinalArtifacts
<1>2. PICK i \in eligible \ failing : k = FinalKey(A(i))
  BY <1>1 DEF Captured
<1>3. IsKey(k) /\ IsExactSubject(k, Usable)
  BY <1>2 DEF Eligible, FinalKey, IsKey, IsExactSubject
<1>4. k \in DOMAIN Index.artifacts /\ ReadStatus(Index.artifacts[k]) = "ok"
  BY <1>2 DEF FinalPasses, FinalMapped, BytesCode, ReadCode
<1> QED BY <1>3, <1>4 DEF MaterialStatus

LEMMA HistoricalCaptures ==
  ASSUME EvidenceInv, HaveInv, VerifyHistorical, NEW k \in DOMAIN have' \ DOMAIN have
  PROVE  IsKey(k) /\ IsExactSubject(k, Usable) /\ MaterialStatus(k) = "ok"
<1> DEFINE alien == {j \in HistoricalKeys : ~IsExactSubject(j, Usable)}
           supplied == {j \in HistoricalKeys \ alien : MaterialStatus(j) # "no-bytes"}
           passing == {j \in supplied : HistoricalCode(j) = {}}
<1>1. pc = "historical" /\ have' = Captured(passing)
  BY DEF VerifyHistorical
<1>2. k \in passing
  <2> HIDE DEF passing
  <2> QED BY <1>1 DEF Captured
<1>3. /\ k \in HistoricalKeys /\ IsExactSubject(k, Usable) /\ MaterialStatus(k) # "no-bytes"
      /\ HistoricalCode(k) = {}
  BY <1>2
<1>4. MaterialStatus(k) = "ok"
  <2>1. CASE k \in DOMAIN in.request.materials
    BY <1>3, <2>1 DEF MaterialStatus
  <2>2. CASE k \notin DOMAIN in.request.materials
    <3>1. k \in DOMAIN Index.artifacts
      BY <1>3, <2>2 DEF MaterialStatus
    <3>2. BytesCode(k, Index.artifacts[k]) = {}
      BY <1>3, <3>1 DEF HistoricalCode
    <3> QED BY <1>3, <2>2, <3>1, <3>2 DEF BytesCode, ReadCode, MaterialStatus
  <2> QED BY <2>1, <2>2
<1>5. IsKey(k)
  <2>1. CASE k \in DOMAIN in.request.materials
    <3>1. PICK s \in Scenarios : in = [policy |-> s.policy, request |-> s.request, others |-> s.others]
      BY DEF EvidenceInv, LoadedInv
    <3>2. in.request = s.request
      BY <3>1
    <3> QED BY <2>1, <3>2, KeyAssumption
  <2>2. CASE k \in DOMAIN Index.artifacts
    <3>1. index # NoBytes
      BY <1>1 DEF EvidenceInv, LoadedInv, FromManifest, FromHandoff, FromAttestations,
         FromAuthorize, FromMetadata, FromDatasets, FromGraph, FromCompleteness, FromFinal,
         FromHistorical
    <3>2. index \in Content /\ Index.fault = "none"
      BY <3>1 DEF EvidenceInv, TypeOK, HaveInv
    <3> QED BY <2>2, <3>2, KeyAssumption DEF Index
  <2> QED BY <1>3, <2>1, <2>2 DEF MaterialStatus
<1> QED BY <1>3, <1>4, <1>5

\* Newly captured bytes were available, for an exact subject of an authorized
\* statement.
LEMMA Captures ==
  ASSUME EvidenceInv, HaveInv, [Next]_vars, NEW k \in DOMAIN have' \ DOMAIN have
  PROVE  /\ pc \in {"datasets", "final", "historical"} /\ pc' \in FromGraph
         /\ IsKey(k) /\ IsExactSubject(k, authorized)
         /\ handoffOK => MaterialStatus(k) = "ok"
<1> USE DEF FromGraph, FromCompleteness, FromFinal, FromHistorical, FromEntries
<1>1. CASE PrevalidateDatasets /\ pc' = "graph"
  <2>1. /\ pc = "datasets"
        /\ have' = Captured({j \in DatasetCandidates :
                               DatasetStage(j) \in {"parse", "schema", "semantic", "none"}})
    BY <1>1 DEF PrevalidateDatasets, Abort
  <2>2. k \in DatasetCandidates /\ DatasetStage(k) \in {"parse", "schema", "semantic", "none"}
    BY <2>1 DEF Captured
  <2>3. MaterialStatus(k) = "ok"
    <3>1. MaterialStatus(k) \in {"no-bytes", "ok", "absent", "changed", "oserror"}
      BY DEF MaterialStatus, ReadStatus
    <3> QED BY <2>2, <3>1 DEF DatasetStage
  <2> QED BY <1>1, <2>1, <2>2, <2>3, CandidateFacts DEF IsKey
<1>2. CASE VerifyFinalArtifacts /\ pc = "final" /\ pc' = "historical"
  BY <1>2, FinalCaptures, UsableFacts DEF IsExactSubject
<1>3. CASE VerifyHistorical /\ pc = "historical" /\ pc' = "entries"
  BY <1>3, HistoricalCaptures, UsableFacts DEF IsExactSubject
<1>4. CASE have' = have
  BY <1>4
<1>5. \/ PrevalidateDatasets /\ pc' = "graph"
      \/ VerifyFinalArtifacts /\ pc = "final" /\ pc' = "historical"
      \/ VerifyHistorical /\ pc = "historical" /\ pc' = "entries"
      \/ have' = have
  <2>1. CASE ScanBundle \/ SnapshotConsumer \/ IndexUnavailable \/ ReadIndex
    BY <2>1 DEF ScanBundle, SnapshotConsumer, IndexUnavailable, ReadIndex, Terminate, evidence
  <2>2. CASE ManifestAbsent \/ ManifestRejected \/ LoadManifest
    BY <2>2 DEF ManifestAbsent, ManifestRejected, LoadManifest, Terminate, Abort, evidence
  <2>3. CASE AuthorizeHandoff \/ LoadAttestations \/ AuthorizeStatements \/ ValidateMetadataProfiles
    BY <2>3 DEF AuthorizeHandoff, LoadAttestations, AuthorizeStatements, ValidateMetadataProfiles,
                Abort, evidence
  <2>4. CASE PrevalidateDatasets
    BY <2>4 DEF PrevalidateDatasets, Abort, evidence
  <2>5. CASE BuildGraph \/ CheckCompleteness \/ HashConsumerOnly
    BY <2>5 DEF BuildGraph, CheckCompleteness, HashConsumerOnly, evidence
  <2>6. CASE VerifyFinalArtifacts \/ VerifyHistorical
    BY <2>6 DEF VerifyFinalArtifacts, VerifyHistorical
  <2>7. CASE VerifyDatasetEntries
    BY <2>7 DEF VerifyDatasetEntries
  <2>8. CASE ValidateArtifactProfiles \/ EvaluateFreshness \/ Rescan
    BY <2>8 DEF ValidateArtifactProfiles, EvaluateFreshness, Rescan, Abort, evidence
  <2>9. CASE Environment
    BY <2>9, DiskFrame DEF evidence, Environment, Rewrite, Replace, ReplaceByLink, Remove, Edit
  <2>10. CASE UNCHANGED vars
    BY <2>10 DEF vars
  <2> QED BY <2>1, <2>2, <2>3, <2>4, <2>5, <2>6, <2>7, <2>8, <2>9, <2>10 DEF Next, Verifier, Reported
<1> QED BY <1>1, <1>2, <1>3, <1>4, <1>5

LEMMA HaveStep ==
  ASSUME EvidenceInv, HaveInv, [Next]_vars
  PROVE  HaveInv'
<1> USE DEF FromManifest, FromHandoff, FromAttestations, FromAuthorize, FromMetadata,
        FromDatasets, FromGraph, FromCompleteness, FromFinal, FromHistorical, FromEntries,
        FromProfiles, FromFreshness, FromRescan, Ended
<1>1. index' # NoBytes => (Index.fault = "none")'
  <2>1. CASE index' = index
    BY <2>1 DEF HaveInv, Index
  <2>2. CASE ReadIndex /\ index' # index
    BY <2>2 DEF ReadIndex, Terminate, evidence, Index
  <2>3. index' = index \/ ReadIndex
    <3>1. CASE ScanBundle \/ SnapshotConsumer \/ IndexUnavailable \/ ManifestAbsent
      BY <3>1 DEF ScanBundle, SnapshotConsumer, IndexUnavailable, ManifestAbsent, Terminate, evidence
    <3>2. CASE ManifestRejected \/ LoadManifest
      BY <3>2 DEF ManifestRejected, LoadManifest, Terminate, Abort, evidence
    <3>3. CASE pc \in FromHandoff \cup Ended
      BY <3>3, Frame
    <3>4. CASE pc \in {"scan", "snapshot", "index", "manifest"} /\ Environment
      BY <3>4, DiskFrame DEF evidence, Environment, Rewrite, Replace, ReplaceByLink, Remove, Edit
    <3>5. CASE UNCHANGED vars
      BY <3>5 DEF vars
    <3>6. pc \in {"scan", "snapshot", "index", "manifest"} \cup FromHandoff \cup Ended
      BY DEF EvidenceInv, TypeOK
    <3>7. ASSUME pc \in {"scan", "snapshot", "index", "manifest"}, Verifier
          PROVE  \/ ScanBundle \/ SnapshotConsumer \/ IndexUnavailable \/ ReadIndex
                 \/ ManifestAbsent \/ ManifestRejected \/ LoadManifest
      BY <3>7 DEF Verifier, AuthorizeHandoff, LoadAttestations, AuthorizeStatements,
         ValidateMetadataProfiles, PrevalidateDatasets, BuildGraph, CheckCompleteness,
         HashConsumerOnly, VerifyFinalArtifacts, VerifyHistorical, VerifyDatasetEntries,
         ValidateArtifactProfiles, EvaluateFreshness, Rescan
    <3> QED BY <3>1, <3>2, <3>3, <3>4, <3>5, <3>6, <3>7 DEF Next, Reported
  <2> QED BY <2>1, <2>2, <2>3
<1>2. pc' \notin FromGraph \cup Ended => DOMAIN have' = {}
  <2>1. pc' \notin FromGraph \cup Ended => pc \notin FromGraph \cup Ended
    BY Moves
  <2> QED BY <2>1, Captures DEF HaveInv
<1>3. ASSUME NEW k \in DOMAIN have'
      PROVE  IsKey(k) /\ IsExactSubject(k, authorized')
  <2>1. authorized' = authorized
    BY Captures, Frame DEF HaveInv
  <2> QED BY <2>1, Captures DEF HaveInv
<1> QED BY <1>1, <1>2, <1>3 DEF HaveInv, IsExactSubject

-----------------------------------------------------------------------------
(* Step 8 settles its candidates. *)

LEMMA StagesInOrder ==
  ASSUME EvidenceInv, NEW k \in DatasetCandidates, DatasetCode(k) = {}, ~DatasetRaises(k)
  PROVE  /\ DatasetProfile(k[2]) \in ArtifactProfiles(k[1], k[2])
         /\ \A x \in WrittenPins(k) : x[1] = DatasetId
         /\ DatasetStage(k) = "none" => ~Conflicting(k)
         /\ DatasetStage(k) # "none" => /\ MaterialStatus(k) # "ok"
                                        /\ DatasetStage(k) \in {"no-bytes", "absent", "changed"}
<1>1. DatasetOf[k[3]].fault \in {"none", "parse", "version", "schema", "semantic"}
  BY CandidateFault DEF EvidenceInv
<1>2. DatasetStage(k) \in {"profile", "no-bytes", "absent", "changed", "oserror",
                           "digest", "media", "none", "parse", "schema", "semantic"}
  BY <1>1, DatasetCodes
<1>3. DatasetStage(k) \in {"none", "no-bytes", "absent", "changed"}
  BY <1>2 DEF DatasetCode
<1>4. MaterialStatus(k) \in {"no-bytes", "ok", "absent", "changed", "oserror"}
  BY DEF MaterialStatus, ReadStatus
<1>5. DatasetProfile(k[2]) \in ArtifactProfiles(k[1], k[2])
  BY <1>3 DEF DatasetStage
<1>6. DatasetStage(k) = "none" => ~Conflicting(k)
  BY <1>4 DEF DatasetStage
<1>7. DatasetStage(k) # "none" => MaterialStatus(k) # "ok"
  BY <1>1, <1>3 DEF DatasetStage
<1>8. \A x \in WrittenPins(k) : x[1] = DatasetId
  <2>1. WrittenPins(k) \subseteq {PinOf(DatasetProfile(k[2]))}
    BY <1>3 DEF WrittenPins
  <2>2. PinOf(DatasetProfile(k[2])) = <<DatasetId, DatasetProfile(k[2]).dig>>
    BY DEF PinOf, DatasetProfile
  <2> QED BY <2>1, <2>2
<1> QED BY <1>3, <1>5, <1>6, <1>7, <1>8

LEMMA SettledPart ==
  ASSUME EvidenceInv, CleanInv, HaveInv, QuietInv, errors = {} => CleanSettled,
         [Next]_vars, errors' = {}
  PROVE  CleanSettled'
<1> SUFFICES ASSUME Past(FromGraph)' PROVE CleanSettled'
  BY DEF CleanSettled
<1>0. ASSUME UNCHANGED <<in, index, manifest, handoffOK, authorized>>
      PROVE  /\ DatasetCandidates' = DatasetCandidates
             /\ \A k : Conflicting(k)' = Conflicting(k)
  <2>1. RequiredDatasets' = RequiredDatasets /\ FinalArtifacts' = FinalArtifacts
    BY <1>0 DEF RequiredDatasets, EntryEdges, SubjectKey, Index, FinalArtifacts, Manifest
  <2>2. DatasetCandidates' = DatasetCandidates
    BY <1>0, <2>1 DEF DatasetCandidates, SubjectKey
  <2>3. \A k : Conflicting(k)' = Conflicting(k)
    BY <2>1 DEF Conflicting, MediaTypes, ArtifactProfiles, FinalKey
  <2> QED BY <2>2, <2>3
<1>1. CASE Past(FromGraph)
  <2>1. CleanSettled /\ errors = {}
    BY CleanPath
  <2>2. UNCHANGED <<in, index, manifest, handoffOK, authorized, indexed, states>>
    BY <1>1, CleanFrame
  <2>3. handoffOK
    BY <1>1, <2>1, PastOrder DEF CleanInv, CleanHandoff
  <2>4. pc \in FromGraph \cup Ended
    BY <1>1 DEF Past, Ended
  <2>5. ASSUME edits' <= 1, NEW k \in DatasetCandidates
        PROVE  Settled(k)'
    <3>1. edits <= 1
      <4>1. edits \in Nat
        BY MaxEditsAssumption DEF EvidenceInv, TypeOK
      <4> QED BY <2>5, <4>1, DiskFrame
    <3>2. Settled(k)
      BY <1>1, <2>1, <3>1 DEF CleanSettled
    <3>3. CASE k \in indexed
      BY <2>2, <3>3 DEF Settled
    <3>4. CASE k \notin DOMAIN have /\ MaterialStatus(k) # "ok"
      <4>1. MaterialStatus(k)' # "ok"
        BY <2>4, <2>5, <3>4, OutOfReach
      <4>2. k \notin DOMAIN have'
        BY <2>3, <3>4, Captures
      <4> QED BY <4>1, <4>2 DEF Settled
    <3> QED BY <3>2, <3>3, <3>4 DEF Settled
  <2> QED BY <1>0, <1>1, <2>1, <2>2, <2>5 DEF CleanSettled, ArtifactProfiles
<1>2. CASE PrevalidateDatasets /\ pc' = "graph" /\ pc = "datasets"
  <2> DEFINE parsed == {k \in DatasetCandidates :
                          DatasetStage(k) \in {"parse", "schema", "semantic", "none"}}
  <2>1. /\ indexed' = {k \in DatasetCandidates : DatasetStage(k) = "none"}
        /\ have' = Captured(parsed) /\ states' = DatasetStates
        /\ errors' = errors \cup {Diagnostic(8, c, "graph-dependency-artifacts") :
                                    c \in UNION {DatasetCode(k) : k \in DatasetCandidates}}
        /\ UNCHANGED <<in, inventory, index, manifest, handoffOK, authorized, disk>>
        /\ ~DatasetUnreadable
    BY <1>2 DEF PrevalidateDatasets, Abort, Record
  <2>2. \A k \in DatasetCandidates : DatasetCode(k) = {} /\ ~DatasetRaises(k)
    BY <2>1 DEF DatasetUnreadable
  <2>3. DOMAIN have = {}
    BY <1>2 DEF HaveInv, FromGraph, FromCompleteness, FromFinal, FromHistorical, FromEntries,
       FromProfiles, FromFreshness, FromRescan, Ended
  <2>4. ASSUME NEW w \in DOMAIN states' PROVE w[2][1] = DatasetId
    <3>1. PICK k \in DatasetCandidates : w \in {k[1]} \X WrittenPins(k)
      BY <2>1 DEF DatasetStates
    <3>2. w[2] \in WrittenPins(k)
      BY <3>1
    <3> QED BY <2>2, <3>2, StagesInOrder
  <2>5. ASSUME NEW k \in DatasetCandidates PROVE Settled(k)'
    <3>1. CASE DatasetStage(k) = "none"
      BY <2>1, <3>1 DEF Settled
    <3>2. CASE DatasetStage(k) # "none"
      <4>1. MaterialStatus(k) # "ok" /\ k \notin parsed
        BY <2>2, <3>2, StagesInOrder
      <4>2. k \notin DOMAIN have'
        BY <2>1, <2>3, <4>1 DEF Captured
      <4>3. MaterialStatus(k)' = MaterialStatus(k)
        BY <2>1 DEF MaterialStatus, ReadStatus, IsInventoriedFile, Index
      <4> QED BY <4>1, <4>2, <4>3 DEF Settled
    <3> QED BY <3>1, <3>2
  <2>6. \A k \in DatasetCandidates : DatasetProfile(k[2]) \in ArtifactProfiles(k[1], k[2])
    BY <2>2, StagesInOrder
  <2>7. \A k \in indexed' : ~Conflicting(k)
    BY <2>1, <2>2, StagesInOrder
  <2> QED BY <1>0, <2>1, <2>4, <2>5, <2>6, <2>7 DEF CleanSettled, ArtifactProfiles
<1> QED BY <1>1, <1>2, CleanPath

-----------------------------------------------------------------------------
(* Steps 12 and 13: whatever was captured has a record, and is evaluated. *)

LEMMA ArtsGrow ==
  ASSUME EvidenceInv, [Next]_vars, Past(FromHistorical)
  PROVE  arts \subseteq arts' /\ FinalKeys' = FinalKeys
<1>1. FinalKeys' = FinalKeys
  <2>1. manifest' = manifest
    BY PastOrder, CleanFrame
  <2> QED BY <2>1 DEF FinalKeys, FinalKey, FinalArtifacts, Manifest
<1>2. CASE pc = "historical"
  <2>1. UNCHANGED evidence \/ VerifyHistorical
    BY <1>2, Moves
  <2>2. UNCHANGED evidence => arts' = arts
    BY DEF evidence
  <2>3. VerifyHistorical => arts \subseteq arts'
    BY DEF VerifyHistorical
  <2> QED BY <1>1, <2>1, <2>2, <2>3
<1>3. CASE pc \in FromEntries \cup Ended
  BY <1>1, <1>3, DiskFrame
<1> QED BY <1>2, <1>3 DEF Past, FromHistorical, Ended

LEMMA FinalRecordedPart ==
  ASSUME EvidenceInv, CleanInv, errors = {} => CleanFinalRecorded, [Next]_vars, errors' = {}
  PROVE  CleanFinalRecorded'
<1> SUFFICES ASSUME Past(FromHistorical)', NEW k \in FinalKeys' PROVE Recorded(k)'
  BY DEF CleanFinalRecorded
<1>1. CASE Past(FromHistorical)
  <2>1. Recorded(k)
    BY <1>1, CleanPath, ArtsGrow DEF CleanFinalRecorded
  <2> QED BY <1>1, <2>1, ArtsGrow DEF Recorded
<1>2. CASE VerifyFinalArtifacts /\ pc = "final"
  <2> DEFINE A(i) == Manifest.artifacts[i]
             n == Len(Manifest.artifacts)
             eligible == {i \in 1..n : Eligible(A(i))}
             failing == {i \in eligible : ~FinalPasses(FinalKey(A(i)))}
  <2>1. /\ arts' = {[role |-> "final", key |-> FinalKey(A(i)),
                     status |-> IF i \notin eligible THEN "skipped"
                                ELSE IF i \in failing THEN "fail" ELSE "pass"] : i \in 1..n}
        /\ manifest' = manifest
    BY <1>2 DEF VerifyFinalArtifacts
  <2>2. \A a \in FinalArtifacts : Eligible(a)
    BY <1>2, CleanPath DEF CleanInv, CleanComplete, Past, FromFinal
  <2>3. DOMAIN Manifest.artifacts = 1..n
    <3>1. manifest \in Content /\ EnvelopeOf(manifest).fault = "none" /\ EnvelopeOf(manifest).type = "handoff"
      BY <1>2 DEF EvidenceInv, LoadedInv, TypeOK, FromHandoff, FromAttestations, FromAuthorize, FromMetadata,
           FromDatasets, FromGraph, FromCompleteness, FromFinal
    <3> QED BY <3>1, EnvelopeAssumption DEF Manifest
  <2>4. PICK i \in 1..n : k = FinalKey(A(i))
    BY <2>1, <2>3 DEF FinalKeys, FinalKey, FinalArtifacts, Manifest
  <2>5. i \in eligible
    BY <2>2, <2>3 DEF FinalArtifacts
  <2> DEFINE r == [role |-> "final", key |-> FinalKey(A(i)),
                   status |-> IF i \notin eligible THEN "skipped"
                              ELSE IF i \in failing THEN "fail" ELSE "pass"]
  <2>6. r \in arts'
    BY <2>1
  <2>7. r.key = k /\ r.status # "skipped"
    BY <2>4, <2>5
  <2> HIDE DEF r
  <2> QED BY <2>6, <2>7 DEF Recorded
<1> QED BY <1>1, <1>2, CleanPath

LEMMA RecordedPart ==
  ASSUME EvidenceInv, CleanInv, HaveInv, HaveInv', errors = {} => CleanFinalRecorded /\ CleanRecorded,
         [Next]_vars, errors' = {}
  PROVE  CleanRecorded'
<1> SUFFICES ASSUME Past(FromEntries)', NEW k \in DOMAIN have', ArtifactProfiles(k[1], k[2]) # {}
             PROVE  Recorded(k)'
  BY DEF CleanRecorded, ArtifactProfiles
<1>0. errors = {}
  BY CleanPath
<1>1. CASE Past(FromEntries)
  <2>1. have' = have /\ arts \subseteq arts'
    BY <1>1, CleanFrame, PastOrder, ArtsGrow
  <2>2. Recorded(k)
    BY <1>0, <1>1, <2>1 DEF CleanRecorded
  <2> QED BY <2>1, <2>2 DEF Recorded
<1>2. CASE VerifyHistorical /\ pc = "historical"
  <2>0. Past(FromHistorical)
    BY <1>2 DEF Past, FromHistorical
  <2>1. CASE k \in FinalKeys
    <3>1. Recorded(k)
      BY <1>0, <2>0, <2>1 DEF CleanFinalRecorded
    <3> QED BY <2>0, <3>1, ArtsGrow DEF Recorded
  <2>2. CASE k \notin FinalKeys
    <3> DEFINE alien == {j \in HistoricalKeys : ~IsExactSubject(j, Usable)}
               supplied == {j \in HistoricalKeys \ alien : MaterialStatus(j) # "no-bytes"}
               passing == {j \in supplied : HistoricalCode(j) = {}}
               rec(j) == [role |-> "historical", key |-> j,
                          status |-> IF j \in alien THEN "skipped"
                                     ELSE IF j \in passing THEN "pass"
                                     ELSE IF HistoricalCode(j) = {} THEN "not_checked" ELSE "fail"]
    <3>1. arts' = arts \cup {rec(j) : j \in HistoricalKeys} /\ authorized' = authorized
      BY <1>2 DEF VerifyHistorical
    <3>2. IsKey(k) /\ IsExactSubject(k, authorized)
      BY <3>1 DEF HaveInv, IsExactSubject
    <3>3. k[1] \in Usable /\ k[1] \in Reachable
      <4>1. authorized \subseteq DOMAIN records
        BY DEF EvidenceInv, TypeOK
      <4>2. SetsAgree
        BY <1>0, <2>0, PastOrder DEF CleanInv, CleanComplete
      <4> QED BY <3>2, <4>1, <4>2 DEF SetsAgree, IsExactSubject, Usable, Listed
    <3>4. IsExactSubject(k, Usable)
      BY <3>2, <3>3 DEF IsExactSubject
    <3>5. k \in ProfileTargets
      <4>1. PICK p \in Stmt[k[1]].profiles : p.target = "artifact" /\ p.subject = k[2]
        BY DEF ArtifactProfiles
      <4>2. k \in SubjectKey(k[1], p.subject)
        BY <3>2, <4>1 DEF SubjectKey, IsExactSubject, IsKey
      <4> QED BY <3>3, <4>1, <4>2 DEF ProfileTargets
    <3>6. k \in HistoricalKeys /\ k \notin alien
      BY <2>2, <3>4, <3>5 DEF HistoricalKeys
    <3>7. rec(k) \in arts'
      BY <3>1, <3>6
    <3>8. rec(k).key = k /\ rec(k).status # "skipped"
      BY <3>6
    <3> HIDE DEF rec
    <3> QED BY <3>7, <3>8 DEF Recorded
  <2> QED BY <2>1, <2>2
<1> QED BY <1>1, <1>2, CleanPath

LEMMA EvaluatedPart ==
  ASSUME EvidenceInv, CleanInv, HaveInv, errors = {} => CleanRecorded /\ CleanEvaluated,
         [Next]_vars, errors' = {}
  PROVE  CleanEvaluated'
<1> DEFINE Good(k, p) == IsCached(k, p) \/ (<<have[k], p.media>> \in Parsable /\ ArtifactConforms(k, p))
<1> SUFFICES ASSUME Past(FromFreshness)', NEW k \in DOMAIN have',
                    NEW p \in ArtifactProfiles(k[1], k[2])
             PROVE  Good(k, p)'
  BY DEF CleanEvaluated, ArtifactProfiles
<1>0. errors = {}
  BY CleanPath
<1>1. Past(FromFreshness) \/ (ValidateArtifactProfiles /\ pc = "profiles" /\ pc' = "freshness")
  <2>1. ~(pc = "completeness" /\ ~handoffOK)
    BY <1>0 DEF CleanInv, CleanHandoff, Past, FromAttestations, FromAuthorize, FromMetadata,
       FromDatasets, FromGraph, FromCompleteness
  <2> QED BY <2>1, Moves DEF Past, FromFreshness, FromRescan
<1>2. UNCHANGED <<have, states>>
  BY <1>1, Frame DEF Past, FromGraph, FromCompleteness, FromFinal, FromHistorical, FromEntries,
     FromProfiles, FromFreshness, FromRescan, Ended
<1>3. SUFFICES Good(k, p)
  BY <1>2 DEF IsCached, ArtifactConforms
<1>4. CASE Past(FromFreshness)
  BY <1>0, <1>2, <1>4 DEF CleanEvaluated
<1>5. CASE ValidateArtifactProfiles /\ pc = "profiles" /\ pc' = "freshness"
  <2> DEFINE codes == (UNION {UNION {ProfileCode(j, q) : q \in Evaluated(j)} : j \in Profiled})
                      \cup {"E_PROFILE_INVALID" : j \in {i \in Profiled : Conflicting(i)}}
  <2>1. errors' = errors \cup {Diagnostic(13, c, "artifact-profiles") : c \in codes}
    BY <1>5 DEF ValidateArtifactProfiles, Abort
  <2>2. codes = {}
    BY <2>1
  <2>3. Recorded(k)
    BY <1>0, <1>2, <1>5 DEF CleanRecorded, Past, FromEntries, FromProfiles
  <2>4. k[1] \in DOMAIN records
    BY <1>2 DEF HaveInv, IsExactSubject, EvidenceInv, TypeOK
  <2>5. k \in Profiled
    BY <1>2, <2>3, <2>4 DEF Recorded, Profiled
  <2>6. ~Conflicting(k) /\ \A q \in Evaluated(k) : ProfileCode(k, q) = {}
    BY <2>2, <2>5
  <2>7. CASE ~IsCached(k, p)
    <3>1. ProfileCode(k, p) = {}
      BY <2>6, <2>7 DEF Evaluated
    <3> QED BY <3>1 DEF ProfileCode
  <2> QED BY <2>7
<1> QED BY <1>1, <1>4, <1>5

\* Without an error and with at most one change, every candidate of Step 8 was
\* parsed or is out of reach, and every captured file was evaluated.
THEOREM ConformInvHolds == Spec => []ConformInv
<1>1. Init => ConformInv
  <2> SUFFICES ASSUME Init PROVE ConformInv
    OBVIOUS
  <2>1. pc = "scan" /\ index = NoBytes /\ inventory = EmptyMap /\ have = EmptyMap
    BY DEF Init
  <2>2. DOMAIN have = {} /\ DOMAIN inventory = {}
    BY <2>1 DEF EmptyMap
  <2>3. HaveInv /\ QuietInv
    BY <2>1, <2>2 DEF HaveInv, QuietInv
  <2>4. CleanSettled /\ CleanFinalRecorded /\ CleanRecorded /\ CleanEvaluated
    BY <2>1 DEF CleanSettled, CleanFinalRecorded, CleanRecorded, CleanEvaluated, Past, FromGraph,
       FromCompleteness, FromFinal, FromHistorical, FromEntries, FromProfiles, FromFreshness,
       FromRescan
  <2> QED BY <2>3, <2>4 DEF ConformInv
<1>2. AllowInv /\ ConformInv /\ [Next]_vars => ConformInv'
  <2> SUFFICES ASSUME AllowInv, ConformInv, [Next]_vars PROVE ConformInv'
    OBVIOUS
  <2>1. EvidenceInv /\ CleanInv /\ HaveInv /\ QuietInv
    BY DEF AllowInv, ConformInv
  <2>2. HaveInv' /\ QuietInv'
    BY <2>1, HaveStep, QuietStep
  <2>3. ASSUME errors' = {}
        PROVE  CleanSettled' /\ CleanFinalRecorded' /\ CleanRecorded' /\ CleanEvaluated'
    BY <2>1, <2>2, <2>3, SettledPart, FinalRecordedPart, RecordedPart, EvaluatedPart DEF ConformInv
  <2> QED BY <2>2, <2>3 DEF ConformInv
<1> QED BY <1>1, <1>2, AllowInvHolds, PTL DEF Spec

\* Captured bytes of an allowed handoff parse and conform under every content
\* profile their statement declares, even if one change was made to the
\* directory.
THEOREM AllowMeansConformingHolds == Spec => []AllowMeansConforming
<1>1. AllowInv /\ ConformInv => AllowMeansConforming
  <2> SUFFICES ASSUME AllowInv, ConformInv, decision = "allow", edits <= 1, NEW k \in DOMAIN have,
                      NEW p \in ArtifactProfiles(k[1], k[2])
               PROVE  <<have[k], p.media>> \in Parsable /\ ArtifactConforms(k, p)
    BY DEF AllowMeansConforming
  <2>1. errors = {} /\ \A S : Past(S)
    BY AllowFacts DEF AllowInv, DecisionInv, Past
  <2>2. CleanSettled /\ CleanEvaluated /\ HaveInv
    BY <2>1 DEF ConformInv
  <2>3. CASE ~IsCached(k, p)
    BY <2>1, <2>2, <2>3 DEF CleanEvaluated
  <2>4. CASE IsCached(k, p)
    <3>1. p.id = DatasetId
      <4> DEFINE w == <<k[1], PinOf(p)>>
      <4>1. w \in DOMAIN states
        BY <2>4 DEF IsCached
      <4>2. w[2][1] = DatasetId
        BY <2>1, <2>2, <4>1 DEF CleanSettled
      <4> QED BY <4>2 DEF PinOf
    <3>2. IsKey(k) /\ IsExactSubject(k, authorized)
      BY <2>2 DEF HaveInv
    <3>3. k \in DatasetCandidates
      <4>1. p \in Stmt[k[1]].profiles /\ p.target = "artifact" /\ p.subject = k[2]
        BY DEF ArtifactProfiles
      <4>2. k \in SubjectKey(k[1], p.subject) /\ k[1] \in authorized
        BY <3>2, <4>1 DEF SubjectKey, IsExactSubject, IsKey
      <4> QED BY <3>1, <4>1, <4>2 DEF DatasetCandidates
    <3>4. k \in indexed /\ DatasetProfile(k[2]) \in ArtifactProfiles(k[1], k[2]) /\ ~Conflicting(k)
      BY <2>1, <2>2, <3>3 DEF CleanSettled, Settled
    <3>5. p.media = DatasetMedia
      <4>1. p.media \in MediaTypes(k) /\ DatasetProfile(k[2]).media \in MediaTypes(k)
        BY <3>4 DEF MediaTypes
      <4>2. DatasetProfile(k[2]).media = DatasetMedia
        BY DEF DatasetProfile
      <4> QED BY <3>4, <4>1, <4>2 DEF Conflicting
    <3>6. have[k] = k[3] /\ DatasetOf[k[3]].fault = "none"
      BY <3>4 DEF AllowInv, EvidenceInv, CapturedInv
    <3>7. <<k[3], DatasetMedia>> \in Parsable
      <4>1. k[1] \in DOMAIN Stmt /\ k[2] \in DOMAIN Stmt[k[1]].subjects
            /\ Stmt[k[1]].subjects[k[2]] = k[3]
        BY <3>2 DEF IsExactSubject, AllowInv, EvidenceInv, TypeOK, LoadedInv
      <4> QED BY <3>6, <4>1, StatementAssumption
    <3> QED BY <3>1, <3>5, <3>6, <3>7 DEF ArtifactConforms
  <2> QED BY <2>3, <2>4
<1> QED BY <1>1, AllowInvHolds, ConformInvHolds, PTL
-----------------------------------------------------------------------------
(* The report. *)

\* The owners of the errors do not pass, and a check names prerequisites, all
\* of them earlier checks, exactly when it is skipped.
ReportSound(errs, chks) ==
  /\ \A e \in errs : e.owner # "decision" /\ chks[e.owner].status # "pass"
  /\ \A c \in Checks : /\ chks[c].status = "skipped" <=> chks[c].pre # {}
                       /\ chks[c].pre \subseteq EarlierChecks(c)

\* Without an error every check passes.  Step 9 may have skipped the graph for
\* a head that is not usable; Step 11 cannot accept the handoff then.
CleanChecks ==
  errors = {} /\ pc # "aborted" =>
    \A c \in Checks \ {"decision"} :
      \/ checks[c].status = "pass"
      \/ c \in {"graph", "roots-and-heads"} /\ pc = "completeness" /\ UnavailableHeads # {}

DecisionCheck == checks["decision"].status = IF pc = "done" THEN "pass" ELSE "not_checked"

ReportInv == ReportSound(errors, checks) /\ DecisionCheck /\ CleanChecks
-----------------------------------------------------------------------------
(* What the operations on the report preserve. *)

LEMMA EarlierNames ==
  ASSUME NEW i \in 1..16, NEW j \in 1..16, j < i
  PROVE  CheckIds[j] \in EarlierChecks(CheckIds[i])
<1>1. i \in (j+1)..16
  OBVIOUS
<1> QED BY <1>1 DEF EarlierChecks

LEMMA CheckPlaces ==
  /\ CheckIds[1] = "load-safely" /\ CheckIds[2] = "parse-strictly" /\ CheckIds[3] = "index-payloads"
  /\ CheckIds[4] = "core-schemas" /\ CheckIds[5] = "signatures"
  /\ CheckIds[6] = "authorization-thresholds" /\ CheckIds[7] = "metadata-profiles"
  /\ CheckIds[8] = "authorization" /\ CheckIds[9] = "graph-dependency-artifacts"
  /\ CheckIds[10] = "graph" /\ CheckIds[11] = "roots-and-heads"
  /\ CheckIds[12] = "completeness-anchor" /\ CheckIds[13] = "freshness-anchors"
  /\ CheckIds[14] = "artifact-bytes" /\ CheckIds[15] = "artifact-profiles" /\ CheckIds[16] = "decision"
BY DEF CheckIds

\* The prerequisites the verifier names come earlier in the report.
LEMMA PrerequisiteOrder ==
  /\ {"authorization", "index-payloads"} \subseteq EarlierChecks("graph")
  /\ "graph" \in EarlierChecks("roots-and-heads")
  /\ "authorization-thresholds" \in EarlierChecks("completeness-anchor")
  /\ "authorization-thresholds" \in EarlierChecks("freshness-anchors")
  /\ "completeness-anchor" \in EarlierChecks("artifact-bytes")
  /\ "completeness-anchor" \in EarlierChecks("artifact-profiles")
  /\ \A c \in Checks \ {"load-safely"} : "load-safely" \in EarlierChecks(c)
  /\ \A c \in Checks \ {"load-safely", "parse-strictly"} : "parse-strictly" \in EarlierChecks(c)
  /\ \A c \in Checks \ {"load-safely", "parse-strictly", "index-payloads"} :
       "index-payloads" \in EarlierChecks(c)
  /\ \A c \in Checks \ {"load-safely", "parse-strictly", "index-payloads", "core-schemas"} :
       "core-schemas" \in EarlierChecks(c)
<1>1. /\ {"authorization", "index-payloads"} \subseteq EarlierChecks("graph")
      /\ "graph" \in EarlierChecks("roots-and-heads")
      /\ "authorization-thresholds" \in EarlierChecks("completeness-anchor")
      /\ "authorization-thresholds" \in EarlierChecks("freshness-anchors")
      /\ "completeness-anchor" \in EarlierChecks("artifact-bytes")
      /\ "completeness-anchor" \in EarlierChecks("artifact-profiles")
  BY EarlierNames, CheckPlaces
<1>2. \A j \in 1..4 : \A c \in Checks \ {CheckIds[k] : k \in 1..j} : CheckIds[j] \in EarlierChecks(c)
  <2> SUFFICES ASSUME NEW j \in 1..4, NEW c \in Checks \ {CheckIds[k] : k \in 1..j}
               PROVE  CheckIds[j] \in EarlierChecks(c)
    OBVIOUS
  <2>1. PICK i \in 1..16 : c = CheckIds[i]
    BY DEF Checks
  <2>2. j < i /\ j \in 1..16
    BY <2>1
  <2> QED BY <2>1, <2>2, EarlierNames
<1>3. /\ {CheckIds[k] : k \in 1..1} = {"load-safely"}
      /\ {CheckIds[k] : k \in 1..2} = {"load-safely", "parse-strictly"}
      /\ {CheckIds[k] : k \in 1..3} = {"load-safely", "parse-strictly", "index-payloads"}
      /\ {CheckIds[k] : k \in 1..4} = {"load-safely", "parse-strictly", "index-payloads", "core-schemas"}
  BY CheckPlaces
<1> QED BY <1>1, <1>2, <1>3, CheckPlaces

LEMMA SoundFail ==
  ASSUME NEW errs, NEW chks \in [Checks -> CheckRecord], ReportSound(errs, chks), NEW more,
         errs \subseteq Diagnostics,
         \A e \in more : e.owner \in Checks \ {"decision"}
  PROVE  /\ ReportSound(errs \cup more, FailOwners(chks, more))
         /\ FailOwners(chks, more)["decision"] = chks["decision"]
         /\ more = {} => FailOwners(chks, more) = chks
<1> DEFINE new == FailOwners(chks, more)
<1>1. \A c \in Checks : new[c] = IF \E e \in more : e.owner = c THEN [status |-> "fail", pre |-> {}]
                                 ELSE chks[c]
  BY DEF FailOwners
<1>2. \A e \in errs : e.owner \in Checks
  BY DEF Diagnostics
<1>3. more = {} => new = chks
  BY DEF FailOwners
<1>4. new["decision"] = chks["decision"]
  BY <1>1, CheckNames
<1>5. \A e \in errs \cup more : e.owner # "decision" /\ new[e.owner].status # "pass"
  BY <1>1, <1>2 DEF ReportSound
<1>6. \A c \in Checks : /\ new[c].status = "skipped" <=> new[c].pre # {}
                        /\ new[c].pre \subseteq EarlierChecks(c)
  BY <1>1 DEF ReportSound
<1> HIDE DEF new
<1>7. ReportSound(errs \cup more, new)
  BY <1>5, <1>6 DEF ReportSound
<1> QED BY <1>3, <1>4, <1>7 DEF new

LEMMA SoundSet ==
  ASSUME NEW errs, NEW chks \in [Checks -> CheckRecord], ReportSound(errs, chks),
         errs \subseteq Diagnostics,
         NEW c \in Checks \ {"decision"}, NEW st, st # "pass", NEW pre,
         pre \subseteq EarlierChecks(c), st = "skipped" <=> pre # {}
  PROVE  /\ ReportSound(errs, SetCheck(chks, c, st, pre))
         /\ SetCheck(chks, c, st, pre)["decision"] = chks["decision"]
<1> DEFINE new == SetCheck(chks, c, st, pre)
<1>1. \A x \in Checks : new[x] = IF x = c THEN [status |-> st, pre |-> pre] ELSE chks[x]
  BY DEF SetCheck
<1>2. \A e \in errs : e.owner \in Checks
  BY DEF Diagnostics
<1>3. new["decision"] = chks["decision"]
  BY <1>1, CheckNames
<1>4. \A e \in errs : e.owner # "decision" /\ new[e.owner].status # "pass"
  BY <1>1, <1>2 DEF ReportSound
<1>5. \A x \in Checks : /\ new[x].status = "skipped" <=> new[x].pre # {}
                        /\ new[x].pre \subseteq EarlierChecks(x)
  BY <1>1 DEF ReportSound
<1> HIDE DEF new
<1>6. ReportSound(errs, new)
  BY <1>4, <1>5 DEF ReportSound
<1> QED BY <1>3, <1>6 DEF new

\* Marking a check skipped for a prerequisite, or not passed without one.
LEMMA SoundSkip ==
  ASSUME NEW errs, NEW chks \in [Checks -> CheckRecord], ReportSound(errs, chks),
         errs \subseteq Diagnostics,
         NEW c \in Checks \ {"decision"}, NEW pre \in SUBSET Checks, pre # {},
         pre \subseteq EarlierChecks(c)
  PROVE  /\ ReportSound(errs, SetCheck(chks, c, "skipped", pre))
         /\ SetCheck(chks, c, "skipped", pre)["decision"] = chks["decision"]
         /\ SetCheck(chks, c, "skipped", pre) \in [Checks -> CheckRecord]
<1>1. "skipped" \in Status /\ "skipped" # "pass"
  BY DEF Status
<1>2. SetCheck(chks, c, "skipped", pre) \in [Checks -> CheckRecord]
  BY <1>1, SetCheckType
<1> DEFINE st == "skipped"
<1>3. st # "pass" /\ (st = "skipped" <=> pre # {})
  OBVIOUS
<1> HIDE DEF st
<1>4. /\ ReportSound(errs, SetCheck(chks, c, st, pre))
      /\ SetCheck(chks, c, st, pre)["decision"] = chks["decision"]
  BY <1>3, SoundSet
<1> QED BY <1>2, <1>4 DEF st

LEMMA SoundBlock ==
  ASSUME NEW errs, NEW chks \in [Checks -> CheckRecord], ReportSound(errs, chks),
         errs \subseteq Diagnostics, NEW retained, NEW prerequisite, NEW notChecked,
         \A c \in Checks \ (retained \cup notChecked \cup {"decision"}) : prerequisite \in EarlierChecks(c)
  PROVE  ReportSound(errs, BlockUnreached(chks, retained, prerequisite, notChecked))
<1> DEFINE new == BlockUnreached(chks, retained, prerequisite, notChecked)
<1>1. \A c \in Checks :
        new[c] = IF c = "decision" \/ c \in retained THEN chks[c]
                 ELSE IF c \in notChecked THEN [status |-> "not_checked", pre |-> {}]
                 ELSE [status |-> "skipped", pre |-> {prerequisite}]
  BY DEF BlockUnreached
<1>2. \A e \in errs : e.owner \in Checks
  BY DEF Diagnostics
<1>3. \A e \in errs : e.owner # "decision" /\ new[e.owner].status # "pass"
  BY <1>1, <1>2 DEF ReportSound
<1>4. \A c \in Checks : /\ new[c].status = "skipped" <=> new[c].pre # {}
                        /\ new[c].pre \subseteq EarlierChecks(c)
  BY <1>1 DEF ReportSound
<1> HIDE DEF new
<1>5. ReportSound(errs, new)
  BY <1>3, <1>4 DEF ReportSound
<1> QED BY <1>5 DEF new

\* finalize_report sets the check "decision", which owns no error.
LEMMA SoundFinalize ==
  ASSUME NEW errs, NEW chks \in [Checks -> CheckRecord], ReportSound(errs, chks),
         errs \subseteq Diagnostics, Finalize(errs, chks)
  PROVE  /\ ReportSound(errors', checks') /\ DecisionCheck'
         /\ \A c \in Checks \ {"decision"} : checks'[c] = chks[c]
<1>1. \A x \in Checks : checks'[x] = IF x = "decision" THEN [status |-> "pass", pre |-> {}] ELSE chks[x]
  BY DEF Finalize, SetCheck
<1>2. errors' = errs /\ pc' = "done"
  BY DEF Finalize
<1>3. \A e \in errs : e.owner \in Checks
  BY DEF Diagnostics
<1>4. \A e \in errors' : e.owner # "decision" /\ checks'[e.owner].status # "pass"
  BY <1>1, <1>2, <1>3 DEF ReportSound
<1>5. \A c \in Checks : /\ checks'[c].status = "skipped" <=> checks'[c].pre # {}
                        /\ checks'[c].pre \subseteq EarlierChecks(c)
  BY <1>1 DEF ReportSound
<1> QED BY <1>1, <1>2, <1>4, <1>5, CheckNames DEF ReportSound, DecisionCheck
-----------------------------------------------------------------------------
(* What the steps preserve. *)

\* The report of a step that records its errors and nothing else.
LEMMA RecordKeeps ==
  ASSUME EvidenceInv, ReportInv, pc # "done", pc' # "done", NEW more,
         \A e \in more : e.owner \in Checks \ {"decision"},
         errors' = errors \cup more, checks' = FailOwners(checks, more)
  PROVE  ReportSound(errors', checks') /\ DecisionCheck' /\ (errors' = {} => checks' = checks)
<1>1. checks \in [Checks -> CheckRecord] /\ errors \subseteq Diagnostics
  BY DEF EvidenceInv, TypeOK
<1> QED BY <1>1, SoundFail DEF ReportInv, DecisionCheck

LEMMA RecordClean ==
  ASSUME EvidenceInv, ReportInv, pc \notin {"done", "aborted", "completeness"},
         pc' \notin {"done", "aborted"}, NEW more,
         \A e \in more : e.owner \in Checks \ {"decision"}, Record(more)
  PROVE  ReportInv'
<1>1. /\ ReportSound(errors', checks') /\ DecisionCheck' /\ (errors' = {} => checks' = checks)
      /\ errors \subseteq errors'
  BY RecordKeeps DEF Record
<1>2. CleanChecks'
  BY <1>1 DEF ReportInv, CleanChecks
<1>3. ReportSound(errors, checks)'
  BY <1>1 DEF ReportSound
<1> QED BY <1>1, <1>2, <1>3 DEF ReportInv

LEMMA ReportUntouched ==
  ASSUME ReportInv, UNCHANGED <<errors, checks>>, pc # "done", pc' # "done",
         pc' = "aborted" \/ pc \notin {"completeness", "aborted"}
  PROVE  ReportInv'
<1>1. ReportSound(errors, checks)'
  BY DEF ReportInv, ReportSound
<1> QED BY <1>1 DEF ReportInv, DecisionCheck, CleanChecks

LEMMA TerminateSound ==
  ASSUME EvidenceInv, ReportInv, NEW s \in 1..13, NEW code \in Codes,
         NEW retained, NEW prerequisite \in Checks \ {"decision"}, NEW notChecked,
         Terminate({Diagnostic(s, code, prerequisite)}, retained, prerequisite, notChecked),
         \A c \in Checks \ (retained \cup notChecked \cup {"decision"}) : prerequisite \in EarlierChecks(c)
  PROVE  ReportInv'
<1> DEFINE d == Diagnostic(s, code, prerequisite)
           failed == FailOwners(checks, {d})
           blocked == BlockUnreached(failed, retained, prerequisite, notChecked)
<1>1. checks \in [Checks -> CheckRecord] /\ errors \subseteq Diagnostics /\ d \in Diagnostics
      /\ d.owner = prerequisite
  BY DiagnosticType DEF EvidenceInv, TypeOK, Diagnostic
<1>2. ReportSound(errors \cup {d}, failed) /\ failed \in [Checks -> CheckRecord]
  BY <1>1, SoundFail, FailOwnersType DEF ReportInv
<1>3. Finalize(errors \cup {d}, blocked)
  BY DEF Terminate
<1> HIDE DEF d, failed, blocked
<1>4. errors \cup {d} \subseteq Diagnostics
  BY <1>1
<1>5. ReportSound(errors \cup {d}, blocked) /\ blocked \in [Checks -> CheckRecord]
  BY <1>2, <1>4, SoundBlock, BlockUnreachedType DEF blocked
<1>6. ReportSound(errors', checks') /\ DecisionCheck' /\ errors' # {}
  BY <1>3, <1>4, <1>5, SoundFinalize DEF Finalize
<1>7. ReportSound(errors, checks)'
  BY <1>6 DEF ReportSound
<1> QED BY <1>6, <1>7 DEF ReportInv, CleanChecks

\* Step 1 and the handoff envelope.
LEMMA ReportEarly ==
  ASSUME EvidenceInv, ReportInv,
         \/ ScanBundle \/ SnapshotConsumer \/ IndexUnavailable \/ ReadIndex
         \/ ManifestAbsent \/ ManifestRejected \/ LoadManifest
  PROVE  ReportInv'
<1>0. /\ 1 \in 1..13 /\ 2 \in 1..13
      /\ {"E_BUNDLE_UNSAFE_PATH", "E_HANDOFF_REQUIRED", "E_JSON_INVALID", "E_CORE_SCHEMA"} \subseteq Codes
      /\ {"load-safely", "parse-strictly", "core-schemas"} \subseteq Checks \ {"decision"}
  BY CheckNames DEF Codes
<1>1. ASSUME NEW s \in 1..13, NEW code \in Codes,
             Terminate({Diagnostic(s, code, "load-safely")}, {"load-safely"}, "load-safely", {})
      PROVE  ReportInv'
  <2>1. \A c \in Checks \ ({"load-safely"} \cup {} \cup {"decision"}) : "load-safely" \in EarlierChecks(c)
    BY PrerequisiteOrder
  <2> QED BY <1>0, <1>1, <2>1, TerminateSound
<1>2. ASSUME NEW s \in 1..13, NEW code \in Codes,
             Terminate({Diagnostic(s, code, "parse-strictly")}, {"load-safely", "parse-strictly"},
                       "parse-strictly", {})
      PROVE  ReportInv'
  <2>1. \A c \in Checks \ ({"load-safely", "parse-strictly"} \cup {} \cup {"decision"}) :
          "parse-strictly" \in EarlierChecks(c)
    BY PrerequisiteOrder
  <2> QED BY <1>0, <1>2, <2>1, TerminateSound
<1>3. ASSUME UNCHANGED <<errors, checks>>, pc \notin {"done", "aborted", "completeness"}, pc' # "done"
      PROVE  ReportInv'
  BY <1>3, ReportUntouched
<1>4. CASE ScanBundle
  BY <1>0, <1>1, <1>3, <1>4 DEF ScanBundle
<1>5. CASE SnapshotConsumer
  BY <1>0, <1>1, <1>3, <1>5 DEF SnapshotConsumer
<1>6. CASE IndexUnavailable
  <2>1. \E code \in {"E_BUNDLE_UNSAFE_PATH", "E_HANDOFF_REQUIRED"} :
          Terminate({Diagnostic(1, code, "load-safely")}, {"load-safely"}, "load-safely", {})
    BY <1>6 DEF IndexUnavailable
  <2> QED BY <1>0, <1>1, <2>1
<1>7. CASE ReadIndex
  <2>1. CASE Terminate({Diagnostic(2, "E_JSON_INVALID", "parse-strictly")},
                       {"load-safely", "parse-strictly"}, "parse-strictly", {})
    BY <1>0, <1>2, <2>1
  <2>2. CASE Terminate({Diagnostic(2, "E_CORE_SCHEMA", "core-schemas")},
                       {"load-safely", "parse-strictly", "core-schemas"},
                       "core-schemas", {"index-payloads"})
    <3>1. \A c \in Checks \ ({"load-safely", "parse-strictly", "core-schemas"}
                             \cup {"index-payloads"} \cup {"decision"}) :
            "core-schemas" \in EarlierChecks(c)
      BY PrerequisiteOrder
    <3> QED BY <1>0, <2>2, <3>1, TerminateSound
  <2>3. CASE UNCHANGED <<errors, checks>> /\ pc = "index" /\ pc' = "manifest"
    BY <1>3, <2>3
  <2> QED BY <1>7, <2>1, <2>2, <2>3 DEF ReadIndex
<1>8. CASE ManifestAbsent
  BY <1>0, <1>2, <1>8 DEF ManifestAbsent
<1>9. CASE ManifestRejected
  <2>1. PICK f \in LoadFault(Index.manifest, "handoff") :
          Terminate({Diagnostic(f[1], f[2], LoadOwner[f[1]])},
                    {"load-safely", "parse-strictly"} \cup {LoadOwner[s] : s \in 3..f[1]},
                    LoadOwner[f[1]], {})
    BY <1>9 DEF ManifestRejected
  <2>2. f[1] \in 2..4 /\ f[2] \in Codes /\ f[1] \in 1..13
    BY LoadFaultType
  <2> DEFINE retained == {"load-safely", "parse-strictly"} \cup {LoadOwner[s] : s \in 3..f[1]}
  <2>3. /\ LoadOwner[2] = "parse-strictly" /\ LoadOwner[3] = "index-payloads"
        /\ LoadOwner[4] = "core-schemas"
    BY DEF LoadOwner
  <2>4. LoadOwner[f[1]] \in Checks \ {"decision"}
    BY <2>2, <2>3, CheckNames
  <2>5. \A c \in Checks \ (retained \cup {} \cup {"decision"}) : LoadOwner[f[1]] \in EarlierChecks(c)
    <3>1. CASE f[1] = 2
      BY <2>3, <3>1, PrerequisiteOrder
    <3>2. CASE f[1] = 3
      <4>1. "index-payloads" \in retained
        BY <2>3, <3>2
      <4> HIDE DEF retained
      <4> QED BY <2>3, <3>2, <4>1, PrerequisiteOrder DEF retained
    <3>3. CASE f[1] = 4
      <4>1. 3 \in 3..f[1] /\ 4 \in 3..f[1]
        BY <3>3
      <4>2. LoadOwner[3] \in retained /\ LoadOwner[4] \in retained
        BY <4>1
      <4>3. {"load-safely", "parse-strictly", "index-payloads", "core-schemas"} \subseteq retained
        BY <2>3, <4>2
      <4> HIDE DEF retained
      <4> QED BY <2>3, <3>3, <4>3, PrerequisiteOrder
    <3> QED BY <2>2, <3>1, <3>2, <3>3
  <2> HIDE DEF retained
  <2> QED BY <2>1, <2>2, <2>4, <2>5, TerminateSound DEF retained
<1>10. CASE LoadManifest
  BY <1>3, <1>10 DEF LoadManifest, Abort
<1> QED BY <1>4, <1>5, <1>6, <1>7, <1>8, <1>9, <1>10

\* Steps 5 to 11.
LEMMA ReportMiddle ==
  ASSUME EvidenceInv, ReportInv, CleanInv, [Next]_vars,
         \/ AuthorizeHandoff \/ LoadAttestations \/ AuthorizeStatements \/ ValidateMetadataProfiles
         \/ PrevalidateDatasets \/ BuildGraph \/ CheckCompleteness \/ HashConsumerOnly
  PROVE  ReportInv'
<1>0. checks \in [Checks -> CheckRecord] /\ errors \subseteq Diagnostics /\ ReportSound(errors, checks)
  BY DEF EvidenceInv, TypeOK, ReportInv
<1>1. ASSUME NEW more, \A e \in more : e.owner \in Checks \ {"decision"}, Record(more),
             pc \notin {"done", "aborted", "completeness"}, pc' \notin {"done", "aborted"}
      PROVE  ReportInv'
  BY <1>1, RecordClean
<1>2. ASSUME Abort, pc # "done" PROVE ReportInv'
  <2>1. UNCHANGED <<errors, checks>> /\ pc' = "aborted"
    BY <1>2 DEF Abort
  <2>2. pc # "done" /\ pc' # "done" /\ pc' = "aborted"
    BY <1>2, <2>1
  <2> QED BY <2>1, <2>2, ReportUntouched
<1>3. \A s, c, o : Diagnostic(s, c, o).owner = o
  BY DEF Diagnostic
<1>4. \A sigs : \A e \in SignatureDiagnostics(sigs) : e.owner \in Checks \ {"decision"}
  BY <1>3, CheckNames DEF SignatureDiagnostics
<1>5. CASE AuthorizeHandoff
  <2>1. PICK sigs, errs :
          /\ errs \in SUBSET {Diagnostic(6, "E_SIGNER_UNAUTHORIZED", "authorization-thresholds")}
          /\ Record(SignatureDiagnostics(sigs) \cup errs)
          /\ pc = "handoff" /\ pc' = "attestations"
    BY <1>5 DEF AuthorizeHandoff
  <2>2. \A e \in errs : e.owner \in Checks \ {"decision"}
    BY <1>3, <2>1, CheckNames
  <2> QED BY <1>1, <1>4, <2>1, <2>2
<1>6. CASE LoadAttestations
  <2>0. CASE Abort
    BY <1>2, <1>6, <2>0 DEF LoadAttestations
  <2>1. \A e \in AttestationDiagnostics : e.owner \in Checks \ {"decision"}
    <3>1. \A p : \A e \in LoadDiagnostics(p, "statement") : e.owner \in Checks \ {"decision"}
      <4>1. \A p : \A f \in LoadFault(p, "statement") : LoadOwner[f[1]] \in Checks \ {"decision"}
        <5>1. \A s \in 2..4 : LoadOwner[s] \in Checks \ {"decision"}
          BY CheckNames DEF LoadOwner
        <5> QED BY <5>1, LoadFaultType
      <4> QED BY <1>3, <4>1 DEF LoadDiagnostics
    <3> QED BY <1>3, <3>1, CheckNames DEF AttestationDiagnostics
  <2> QED BY <1>1, <1>6, <2>0, <2>1 DEF LoadAttestations
<1>7. CASE AuthorizeStatements
  <2>1. PICK errs, none :
          /\ none = {d \in DOMAIN records : Candidates(d) = {}}
          /\ errs = (UNION {SignatureDiagnostics(Sigs(d)) : d \in DOMAIN records}) \cup
                    {Diagnostic(6, "E_SIGNER_UNAUTHORIZED", "authorization-thresholds") : d \in none}
          /\ errors' = errors \cup errs
          /\ checks' = IF none = {} THEN FailOwners(checks, errs)
                       ELSE SetCheck(FailOwners(checks, errs), "authorization", "fail", {})
          /\ pc = "authorize" /\ pc' = "metadata"
    BY <1>7 DEF AuthorizeStatements
  <2>2. \A e \in errs : e.owner \in Checks \ {"decision"}
    BY <1>3, <1>4, <2>1, CheckNames
  <2>3. CASE none = {}
    BY <1>1, <2>1, <2>2, <2>3 DEF Record
  <2>4. CASE none # {}
    <3> DEFINE failed == FailOwners(checks, errs)
    <3>1. /\ ReportSound(errors', failed) /\ failed["decision"] = checks["decision"]
          /\ failed \in [Checks -> CheckRecord]
      BY <1>0, <2>1, <2>2, SoundFail, FailOwnersType
    <3>2. errors' \subseteq Diagnostics /\ errors' # {}
      BY <1>7, <2>1, <2>4, ReportTypeMiddle DEF ReportType
    <3> HIDE DEF failed
    <3>3. /\ ReportSound(errors', SetCheck(failed, "authorization", "fail", {}))
          /\ SetCheck(failed, "authorization", "fail", {})["decision"] = checks["decision"]
      BY <3>1, <3>2, SoundSet, CheckNames
    <3>4. ReportSound(errors', checks') /\ checks'["decision"] = checks["decision"]
      BY <2>1, <2>4, <3>3 DEF failed
    <3>5. ReportSound(errors, checks)'
      BY <3>4 DEF ReportSound
    <3> QED BY <2>1, <3>2, <3>4, <3>5 DEF ReportInv, DecisionCheck, CleanChecks
  <2> QED BY <2>3, <2>4
<1>8. CASE ValidateMetadataProfiles
  <2>1. CASE Abort
    BY <1>2, <1>8, <2>1 DEF ValidateMetadataProfiles
  <2>2. CASE ~Abort
    <3>1. PICK S : /\ Record(MetadataDiagnostics \cup
                             {Diagnostic(7, "E_PROFILE_UNRESOLVED", "authorization") : d \in S})
                   /\ pc = "metadata" /\ pc' = "datasets"
      BY <1>8, <2>2 DEF ValidateMetadataProfiles
    <3>2. \A e \in MetadataDiagnostics : e.owner \in Checks \ {"decision"}
      <4>1. \A e \in MetadataDiagnostics : e.owner = "metadata-profiles"
        BY DEF MetadataDiagnostics, Diagnostic
      <4> QED BY <4>1, CheckNames
    <3>3. \A e \in {Diagnostic(7, "E_PROFILE_UNRESOLVED", "authorization") : d \in S} :
            e.owner \in Checks \ {"decision"}
      BY <1>3, CheckNames
    <3> QED BY <1>1, <3>1, <3>2, <3>3
  <2> QED BY <2>1, <2>2
<1>9. CASE PrevalidateDatasets
  <2>1. CASE Abort
    BY <1>2, <1>9, <2>1 DEF PrevalidateDatasets
  <2>2. CASE ~Abort
    <3>1. PICK S : /\ Record({Diagnostic(8, c, "graph-dependency-artifacts") : c \in S})
                   /\ pc = "datasets" /\ pc' = "graph"
      BY <1>9, <2>2 DEF PrevalidateDatasets
    <3>2. \A e \in {Diagnostic(8, c, "graph-dependency-artifacts") : c \in S} :
            e.owner \in Checks \ {"decision"}
      BY <1>3, CheckNames
    <3> QED BY <1>1, <3>1, <3>2
  <2> QED BY <2>1, <2>2
<1>10. CASE BuildGraph
  <2> DEFINE effective == GraphProblems \ {"E_DATASET_MANIFEST_REQUIRED"}
             errs == {Diagnostic(ProblemOwner(c)[1], c, ProblemOwner(c)[2]) : c \in effective}
             pre == {IF d \in DOMAIN records THEN "authorization" ELSE "index-payloads" :
                       d \in UnavailableHeads}
             failed == FailOwners(checks, errs)
             skipped == SetCheck(checks, "graph", "skipped", pre)
  <2>1. /\ errors' = errors \cup errs
        /\ checks' = IF effective # {} THEN SetCheck(failed, "graph", "fail", {})
                     ELSE IF UnavailableHeads # {}
                     THEN SetCheck(skipped, "roots-and-heads", "skipped", {"graph"})
                     ELSE checks
        /\ pc = "graph" /\ pc' = "completeness" /\ UNCHANGED evidence
    BY <1>10 DEF BuildGraph
  <2>2. \A e \in errs : e.owner \in Checks \ {"decision"}
    <3>1. \A c : ProblemOwner(c)[2] \in Checks \ {"decision"}
      <4>1. \A c : ProblemOwner(c) \in {<<4, "core-schemas">>, <<8, "graph-dependency-artifacts">>,
                                        <<10, "roots-and-heads">>, <<9, "graph">>}
        BY DEF ProblemOwner
      <4> QED BY <4>1, CheckNames
    <3> QED BY <1>3, <3>1
  <2>3. errors' \subseteq Diagnostics /\ checks' \in [Checks -> CheckRecord]
    BY <1>10, ReportTypeMiddle DEF ReportType
  <2>4. UnavailableHeads' = UnavailableHeads
    BY <2>1 DEF evidence, UnavailableHeads, Usable, Listed, Manifest
  <2>5. CASE effective # {}
    <3>1. errors' # {}
      BY <2>1, <2>5
    <3> HIDE DEF errs, effective
    <3>2. /\ ReportSound(errors', failed) /\ failed["decision"] = checks["decision"]
          /\ failed \in [Checks -> CheckRecord]
      BY <1>0, <2>1, <2>2, SoundFail, FailOwnersType
    <3> HIDE DEF failed
    <3>3. /\ ReportSound(errors', SetCheck(failed, "graph", "fail", {}))
          /\ SetCheck(failed, "graph", "fail", {})["decision"] = checks["decision"]
      BY <2>3, <3>2, SoundSet, CheckNames
    <3>4. ReportSound(errors', checks') /\ checks'["decision"] = checks["decision"]
      BY <2>1, <2>5, <3>3
    <3>5. ReportSound(errors, checks)'
      BY <3>4 DEF ReportSound
    <3> QED BY <2>1, <3>1, <3>4, <3>5 DEF ReportInv, DecisionCheck, CleanChecks
  <2>6. CASE effective = {} /\ UnavailableHeads # {}
    <3>1. errors' = errors
      BY <2>1, <2>6
    <3>2. pre # {} /\ pre \subseteq EarlierChecks("graph") /\ pre \in SUBSET Checks
      BY <2>6, PrerequisiteOrder, CheckNames
    <3> HIDE DEF pre
    <3>3. /\ ReportSound(errors, skipped) /\ skipped["decision"] = checks["decision"]
          /\ skipped \in [Checks -> CheckRecord]
      BY <1>0, <3>2, SoundSkip, CheckNames
    <3>4. \A c \in Checks : c # "graph" => skipped[c] = checks[c]
      BY <1>0 DEF SetCheck
    <3> HIDE DEF skipped
    <3>5. checks' = SetCheck(skipped, "roots-and-heads", "skipped", {"graph"})
      BY <2>1, <2>6
    <3>6. /\ ReportSound(errors, checks')
          /\ checks'["decision"] = checks["decision"]
      BY <1>0, <3>3, <3>5, SoundSkip, CheckNames, PrerequisiteOrder
    <3>7. \A c \in Checks : c \notin {"graph", "roots-and-heads"} => checks'[c] = checks[c]
      BY <3>3, <3>4, <3>5 DEF SetCheck
    <3>8. CleanChecks'
      BY <2>1, <2>4, <2>6, <3>1, <3>7 DEF ReportInv, CleanChecks
    <3>9. ReportSound(errors, checks)'
      BY <3>1, <3>6 DEF ReportSound
    <3> QED BY <2>1, <3>6, <3>8, <3>9 DEF ReportInv, DecisionCheck
  <2>7. CASE effective = {} /\ UnavailableHeads = {}
    <3>1. UNCHANGED <<errors, checks>>
      BY <2>1, <2>7
    <3> QED BY <2>1, <3>1, ReportUntouched
  <2> QED BY <2>5, <2>6, <2>7
<1>11. CASE CheckCompleteness
  <2>1. PICK errs :
          /\ errs = (IF SetsAgree /\ \A a \in FinalArtifacts : Eligible(a) THEN {}
                     ELSE {Diagnostic(11, "E_MANIFEST_SET", "completeness-anchor")})
          /\ Record(errs) /\ pc = "completeness" /\ pc' = "final"
    BY <1>11 DEF CheckCompleteness
  <2>2. \A e \in errs : e.owner \in Checks \ {"decision"}
    BY <1>3, <2>1, CheckNames
  <2>3. /\ ReportSound(errors', checks') /\ DecisionCheck'
        /\ errors' = {} => checks' = checks /\ errs = {} /\ errors = {}
    BY <2>1, <2>2, RecordKeeps DEF Record
  <2>4. errors' = {} => UnavailableHeads = {}
    BY <2>1, <2>3 DEF UnavailableHeads, SetsAgree, Eligible
  <2>5. CleanChecks'
    BY <2>1, <2>3, <2>4 DEF ReportInv, CleanChecks
  <2>6. ReportSound(errors, checks)'
    BY <2>3 DEF ReportSound
  <2> QED BY <2>3, <2>5, <2>6 DEF ReportInv
<1>12. CASE HashConsumerOnly
  <2> DEFINE pre == {"authorization-thresholds"}
             anchored == SetCheck(checks, "completeness-anchor", "skipped", pre)
             skipped == SetCheck(anchored, "freshness-anchors", "skipped", pre)
             hashed == FailOwners(skipped, ConsumerDiagnostics)
             bytes == IF ConsumerChecked # {} THEN hashed
                      ELSE SetCheck(hashed, "artifact-bytes", "not_checked", {})
  <2>1. /\ errors' = errors \cup ConsumerDiagnostics
        /\ checks' = SetCheck(bytes, "artifact-profiles", "not_checked", {})
        /\ pc = "completeness" /\ pc' = "rescan" /\ ~handoffOK
    BY <1>12 DEF HashConsumerOnly
  <2>2. errors' \subseteq Diagnostics
    BY <1>12, ReportTypeMiddle DEF ReportType
  <2>3. \A e \in ConsumerDiagnostics : e.owner \in Checks \ {"decision"}
    BY CheckNames DEF ConsumerDiagnostics, Diagnostic
  <2>0. /\ pre \in SUBSET Checks /\ pre # {}
        /\ pre \subseteq EarlierChecks("completeness-anchor")
        /\ pre \subseteq EarlierChecks("freshness-anchors")
        /\ {"completeness-anchor", "freshness-anchors"} \subseteq Checks \ {"decision"}
    BY PrerequisiteOrder, CheckNames
  <2> HIDE DEF pre
  <2>4. /\ ReportSound(errors, anchored) /\ anchored["decision"] = checks["decision"]
        /\ anchored \in [Checks -> CheckRecord]
    BY <1>0, <2>0, SoundSkip
  <2> HIDE DEF anchored
  <2>5. /\ ReportSound(errors, skipped) /\ skipped["decision"] = checks["decision"]
        /\ skipped \in [Checks -> CheckRecord]
    BY <1>0, <2>0, <2>4, SoundSkip
  <2> HIDE DEF skipped
  <2>6. /\ ReportSound(errors', hashed) /\ hashed["decision"] = checks["decision"]
        /\ hashed \in [Checks -> CheckRecord]
    BY <1>0, <2>1, <2>3, <2>5, SoundFail, FailOwnersType
  <2> HIDE DEF hashed
  <2>7. /\ ReportSound(errors', bytes) /\ bytes["decision"] = checks["decision"]
        /\ bytes \in [Checks -> CheckRecord]
    BY <2>2, <2>6, SoundSet, SetCheckType, CheckNames DEF Status
  <2> HIDE DEF bytes
  <2>8. ReportSound(errors', checks') /\ checks'["decision"] = checks["decision"]
    BY <2>1, <2>2, <2>7, SoundSet, CheckNames
  <2>9. errors # {}
    BY <2>1 DEF CleanInv, CleanHandoff, Past, FromAttestations, FromAuthorize, FromMetadata,
                FromDatasets, FromGraph, FromCompleteness
  <2>10. ReportSound(errors, checks)'
    BY <2>8 DEF ReportSound
  <2> QED BY <2>1, <2>8, <2>9, <2>10 DEF ReportInv, DecisionCheck, CleanChecks
<1> QED BY <1>5, <1>6, <1>7, <1>8, <1>9, <1>10, <1>11, <1>12

\* Step 12, the final artifacts: an error marks the check that owns it, and
\* without an error every artifact is eligible and none is marked.
LEMMA ReportFinal ==
  ASSUME EvidenceInv, ReportInv, CleanInv, VerifyFinalArtifacts
  PROVE  ReportInv'
<1> DEFINE n == Len(Manifest.artifacts)
           A(i) == Manifest.artifacts[i]
           eligible == {i \in 1..n : Eligible(A(i))}
           unmapped == {i \in eligible : ~FinalMapped(FinalKey(A(i)))}
           toRead == {i \in eligible \ unmapped : FinalKey(A(i)) \notin DOMAIN have}
           failing == {i \in eligible : ~FinalPasses(FinalKey(A(i)))}
           marks == failing \cup (1..n \ eligible)
           last == CHOOSE i \in marks : \A j \in marks : j <= i
           mapped == IF unmapped = {} THEN checks
                     ELSE SetCheck(checks, "completeness-anchor", "fail", {})
           bytes == IF marks = {} THEN mapped
                    ELSE IF last \in eligible THEN SetCheck(mapped, "artifact-bytes", "fail", {})
                    ELSE SetCheck(mapped, "artifact-bytes", "skipped", {"completeness-anchor"})
           anchorErrs == {Diagnostic(11, "E_MANIFEST_SET", "completeness-anchor") : i \in unmapped}
           codes == UNION {BytesCode(FinalKey(A(i)), Index.artifacts[FinalKey(A(i))]) : i \in toRead}
           bytesErrs == {Diagnostic(12, c, "artifact-bytes") : c \in codes}
<1>0. checks \in [Checks -> CheckRecord] /\ errors \subseteq Diagnostics /\ ReportSound(errors, checks)
  BY DEF EvidenceInv, TypeOK, ReportInv
<1>1. /\ errors' = errors \cup anchorErrs \cup bytesErrs
      /\ checks' = IF eligible = 1..n THEN bytes
                   ELSE SetCheck(bytes, "artifact-profiles", "skipped", {"completeness-anchor"})
      /\ pc = "final" /\ pc' = "historical"
  BY DEF VerifyFinalArtifacts
<1>2. errors' \subseteq Diagnostics
  BY ReportTypeLate DEF ReportType
<1>3. bytesErrs # {} => marks # {}
  <2> SUFFICES ASSUME bytesErrs # {} PROVE marks # {}
    OBVIOUS
  <2>1. PICK i \in toRead : BytesCode(FinalKey(A(i)), Index.artifacts[FinalKey(A(i))]) # {}
    OBVIOUS
  <2>2. i \in failing
    BY <2>1 DEF FinalPasses
  <2> QED BY <2>2
<1>4. errors' = {} => eligible = 1..n /\ unmapped = {} /\ marks = {}
  <2> SUFFICES ASSUME errors' = {} PROVE eligible = 1..n /\ unmapped = {} /\ marks = {}
    OBVIOUS
  <2>1. errors = {} /\ unmapped = {} /\ codes = {}
    <3> HIDE DEF unmapped, codes
    <3>1. errors = {} /\ anchorErrs = {} /\ bytesErrs = {}
      BY <1>1
    <3> QED BY <3>1
  <2>2. \A a \in FinalArtifacts : Eligible(a)
    BY <1>1, <2>1 DEF CleanInv, CleanComplete, Past, FromFinal
  <2>3. DOMAIN Manifest.artifacts = 1..n
    <3>1. manifest \in Content /\ EnvelopeOf(manifest).fault = "none" /\ EnvelopeOf(manifest).type = "handoff"
      BY <1>1 DEF EvidenceInv, LoadedInv, TypeOK, FromHandoff, FromAttestations, FromAuthorize,
           FromMetadata, FromDatasets, FromGraph, FromCompleteness, FromFinal
    <3> QED BY <3>1, EnvelopeAssumption DEF Manifest
  <2>4. eligible = 1..n
    BY <2>2, <2>3 DEF FinalArtifacts
  <2>5. \A i \in toRead : BytesCode(FinalKey(A(i)), Index.artifacts[FinalKey(A(i))]) = {}
    BY <2>1
  <2>6. failing = {}
    BY <2>1, <2>5 DEF FinalPasses
  <2> QED BY <2>1, <2>4, <2>6
<1>5. /\ \A e \in anchorErrs : e.owner = "completeness-anchor" /\ unmapped # {}
      /\ \A e \in bytesErrs : e.owner = "artifact-bytes" /\ marks # {}
  BY <1>3 DEF Diagnostic
<1> DEFINE pre == {"completeness-anchor"}
<1>6. /\ pre \in SUBSET Checks /\ pre # {}
      /\ pre \subseteq EarlierChecks("artifact-bytes") /\ pre \subseteq EarlierChecks("artifact-profiles")
      /\ {"completeness-anchor", "artifact-bytes", "artifact-profiles"} \subseteq Checks \ {"decision"}
  BY PrerequisiteOrder, CheckNames
<1>7. /\ checks' = IF eligible = 1..n THEN bytes ELSE SetCheck(bytes, "artifact-profiles", "skipped", pre)
      /\ bytes = IF marks = {} THEN mapped
                 ELSE IF last \in eligible THEN SetCheck(mapped, "artifact-bytes", "fail", {})
                 ELSE SetCheck(mapped, "artifact-bytes", "skipped", pre)
  BY <1>1
<1> HIDE DEF pre, eligible, marks, last, unmapped, anchorErrs, bytesErrs
<1>8. /\ ReportSound(errors, mapped) /\ mapped["decision"] = checks["decision"]
      /\ mapped \in [Checks -> CheckRecord]
      /\ unmapped # {} => mapped["completeness-anchor"].status = "fail"
  <2>1. CASE unmapped = {}
    BY <1>0, <2>1
  <2>2. CASE unmapped # {}
    <3>1. mapped = SetCheck(checks, "completeness-anchor", "fail", {})
      BY <2>2
    <3> HIDE DEF mapped
    <3>2. ReportSound(errors, mapped) /\ mapped["decision"] = checks["decision"]
      BY <1>0, <1>6, <3>1, SoundSet
    <3>3. mapped \in [Checks -> CheckRecord]
      BY <1>0, <1>6, <3>1, SetCheckType DEF Status
    <3>4. mapped["completeness-anchor"].status = "fail"
      BY <1>0, <1>6, <3>1 DEF SetCheck
    <3> QED BY <3>2, <3>3, <3>4
  <2> QED BY <2>1, <2>2
<1> HIDE DEF mapped
<1>9. /\ ReportSound(errors, bytes) /\ bytes["decision"] = checks["decision"]
      /\ bytes \in [Checks -> CheckRecord]
      /\ unmapped # {} => bytes["completeness-anchor"].status = "fail"
      /\ marks # {} => bytes["artifact-bytes"].status \in {"fail", "skipped"}
  <2>1. CASE marks = {}
    BY <1>7, <1>8, <2>1
  <2>2. CASE bytes = SetCheck(mapped, "artifact-bytes", "fail", {})
    <3> HIDE DEF bytes
    <3>1. ReportSound(errors, bytes) /\ bytes["decision"] = checks["decision"]
      BY <1>0, <1>6, <1>8, <2>2, SoundSet
    <3>2. bytes \in [Checks -> CheckRecord]
      BY <1>6, <1>8, <2>2, SetCheckType DEF Status
    <3>3. /\ bytes["artifact-bytes"].status = "fail"
          /\ bytes["completeness-anchor"] = mapped["completeness-anchor"]
      BY <1>6, <1>8, <2>2 DEF SetCheck
    <3> QED BY <1>8, <3>1, <3>2, <3>3
  <2>3. CASE bytes = SetCheck(mapped, "artifact-bytes", "skipped", pre)
    <3> HIDE DEF bytes
    <3>1. /\ ReportSound(errors, bytes) /\ bytes["decision"] = checks["decision"]
          /\ bytes \in [Checks -> CheckRecord]
      BY <1>0, <1>6, <1>8, <2>3, SoundSkip
    <3>2. /\ bytes["artifact-bytes"].status = "skipped"
          /\ bytes["completeness-anchor"] = mapped["completeness-anchor"]
      BY <1>6, <1>8, <2>3 DEF SetCheck
    <3> QED BY <1>8, <3>1, <3>2
  <2> QED BY <1>7, <2>1, <2>2, <2>3
<1> HIDE DEF bytes
<1>10. /\ ReportSound(errors, checks') /\ checks'["decision"] = checks["decision"]
       /\ unmapped # {} => checks'["completeness-anchor"].status = "fail"
       /\ marks # {} => checks'["artifact-bytes"].status \in {"fail", "skipped"}
  <2>1. CASE eligible = 1..n
    BY <1>7, <1>9, <2>1
  <2>2. CASE eligible # 1..n
    <3>1. checks' = SetCheck(bytes, "artifact-profiles", "skipped", pre)
      BY <1>7, <2>2
    <3>2. ReportSound(errors, checks') /\ checks'["decision"] = checks["decision"]
      BY <1>0, <1>6, <1>9, <3>1, SoundSkip
    <3>3. /\ checks'["artifact-bytes"] = bytes["artifact-bytes"]
          /\ checks'["completeness-anchor"] = bytes["completeness-anchor"]
      BY <1>6, <1>9, <3>1 DEF SetCheck
    <3> QED BY <1>9, <3>2, <3>3
  <2> QED BY <2>1, <2>2
<1>11. ReportSound(errors', checks')
  <2>1. \A e \in errors' : e.owner # "decision" /\ checks'[e.owner].status # "pass"
    BY <1>1, <1>5, <1>10 DEF ReportSound
  <2> QED BY <1>10, <2>1 DEF ReportSound
<1>12. errors' = {} => checks' = checks /\ errors = {}
  BY <1>1, <1>4, <1>7 DEF mapped
<1>13. CleanChecks' /\ DecisionCheck'
  BY <1>1, <1>10, <1>12 DEF ReportInv, CleanChecks, DecisionCheck
<1>14. ReportSound(errors, checks)'
  BY <1>11 DEF ReportSound
<1> QED BY <1>13, <1>14 DEF ReportInv

\* The rest of Step 12, Step 13, freshness and the final rescan.
LEMMA ReportLate ==
  ASSUME EvidenceInv, ReportInv, CleanInv,
         VerifyHistorical \/ VerifyDatasetEntries \/ ValidateArtifactProfiles \/ EvaluateFreshness \/ Rescan
  PROVE  ReportInv'
<1>0. checks \in [Checks -> CheckRecord] /\ errors \subseteq Diagnostics /\ ReportSound(errors, checks)
  BY DEF EvidenceInv, TypeOK, ReportInv
<1>1. ASSUME NEW more, \A e \in more : e.owner \in Checks \ {"decision"}, Record(more),
             pc \notin {"done", "aborted", "completeness"}, pc' \notin {"done", "aborted"}
      PROVE  ReportInv'
  BY <1>1, RecordClean
<1>2. /\ \A s, c : Diagnostic(s, c, "completeness-anchor").owner \in Checks \ {"decision"}
      /\ \A s, c : Diagnostic(s, c, "artifact-bytes").owner \in Checks \ {"decision"}
      /\ \A s, c : Diagnostic(s, c, "graph-dependency-artifacts").owner \in Checks \ {"decision"}
      /\ \A s, c : Diagnostic(s, c, "artifact-profiles").owner \in Checks \ {"decision"}
      /\ \A s, c : Diagnostic(s, c, "freshness-anchors").owner \in Checks \ {"decision"}
  BY CheckNames DEF Diagnostic
<1>3. CASE VerifyHistorical
  <2>1. PICK S, T : /\ Record({Diagnostic(11, "E_MANIFEST_SET", "completeness-anchor") : k \in S}
                              \cup {Diagnostic(12, c, "artifact-bytes") : c \in T})
                    /\ pc = "historical" /\ pc' = "entries"
    BY <1>3 DEF VerifyHistorical
  <2>2. \A e \in {Diagnostic(11, "E_MANIFEST_SET", "completeness-anchor") : k \in S}
                 \cup {Diagnostic(12, c, "artifact-bytes") : c \in T} : e.owner \in Checks \ {"decision"}
    BY <1>2
  <2> QED BY <1>1, <2>1, <2>2
<1>4. CASE VerifyDatasetEntries
  <2>1. PICK S, T :
          /\ Record({Diagnostic(8, "E_DATASET_MANIFEST_REQUIRED", "graph-dependency-artifacts") : m \in S}
                    \cup {Diagnostic(12, c, "artifact-bytes") : c \in T})
          /\ pc = "entries" /\ pc' = "profiles"
    BY <1>4 DEF VerifyDatasetEntries
  <2>2. \A e \in {Diagnostic(8, "E_DATASET_MANIFEST_REQUIRED", "graph-dependency-artifacts") : m \in S}
                 \cup {Diagnostic(12, c, "artifact-bytes") : c \in T} : e.owner \in Checks \ {"decision"}
    BY <1>2
  <2> QED BY <1>1, <2>1, <2>2
<1>5. CASE ValidateArtifactProfiles
  <2>1. CASE Abort
    <3>1. UNCHANGED <<errors, checks>> /\ pc = "profiles" /\ pc' = "aborted"
      BY <1>5, <2>1 DEF Abort, ValidateArtifactProfiles
    <3> QED BY <3>1, ReportUntouched
  <2>2. CASE ~Abort
    <3>1. PICK codes, stale :
            /\ errors' = errors \cup {Diagnostic(13, c, "artifact-profiles") : c \in codes}
            /\ checks' = IF stale THEN SetCheck(checks, "artifact-profiles", "fail", {})
                         ELSE FailOwners(checks, {Diagnostic(13, c, "artifact-profiles") : c \in codes})
            /\ stale = \E k \in Profiled : \E p \in ArtifactProfiles(k[1], k[2]) :
                         IsCached(k, p) /\ states[<<k[1], PinOf(p)>>] # "pass"
            /\ pc = "profiles" /\ pc' = "freshness"
      BY <1>5, <2>2 DEF ValidateArtifactProfiles
    <3> DEFINE errs == {Diagnostic(13, c, "artifact-profiles") : c \in codes}
    <3>2. \A e \in errs : e.owner = "artifact-profiles" /\ e.owner \in Checks \ {"decision"}
      BY CheckNames DEF Diagnostic
    <3>3. CASE ~stale
      BY <1>1, <3>1, <3>2, <3>3 DEF Record
    <3>4. CASE stale
      <4>1. errors # {}
        <5> SUFFICES ASSUME errors = {} PROVE FALSE
          OBVIOUS
        <5>1. \A w \in DOMAIN states : states[w] = "pass"
          BY <3>1 DEF CleanInv, CleanDatasets, Past, FromGraph, FromCompleteness, FromFinal,
                      FromHistorical, FromEntries, FromProfiles
        <5> QED BY <3>1, <3>4, <5>1 DEF IsCached
      <4>2. checks' = SetCheck(checks, "artifact-profiles", "fail", {})
        BY <3>1, <3>4
      <4>3. ReportSound(errors, checks') /\ checks'["decision"] = checks["decision"]
        BY <1>0, <4>2, SoundSet, CheckNames
      <4>4. checks'["artifact-profiles"].status = "fail"
        BY <1>0, <4>2, CheckNames DEF SetCheck
      <4>5. \A e \in errors' : e.owner # "decision" /\ checks'[e.owner].status # "pass"
        BY <3>1, <3>2, <4>3, <4>4 DEF ReportSound
      <4>6. ReportSound(errors, checks)'
        BY <4>3, <4>5 DEF ReportSound
      <4>7. errors' # {}
        BY <3>1, <4>1
      <4> QED BY <3>1, <4>3, <4>6, <4>7 DEF ReportInv, DecisionCheck, CleanChecks
    <3> QED BY <3>3, <3>4
  <2> QED BY <2>1, <2>2
<1>6. CASE EvaluateFreshness
  <2>1. \A e \in RequirementDiagnostics : e.owner \in Checks \ {"decision"}
    BY <1>2 DEF RequirementDiagnostics
  <2>2. \A e \in {Diagnostic(11, c, "freshness-anchors") : c \in FreshnessCodes} :
          e.owner \in Checks \ {"decision"}
    BY <1>2
  <2> QED BY <1>1, <1>6, <2>1, <2>2 DEF EvaluateFreshness
<1>7. CASE Rescan
  <2>1. PICK errs \in SUBSET {Diagnostic(12, "E_BUNDLE_UNSAFE_PATH", "artifact-bytes")} :
          Finalize(errors \cup errs, FailOwners(checks, errs))
    BY <1>7 DEF Rescan
  <2>2. \A e \in errs : e.owner \in Checks \ {"decision"}
    BY <1>2
  <2>3. /\ ReportSound(errors \cup errs, FailOwners(checks, errs))
        /\ errs = {} => FailOwners(checks, errs) = checks
        /\ FailOwners(checks, errs) \in [Checks -> CheckRecord]
    BY <1>0, <2>2, SoundFail, FailOwnersType
  <2>4. errors \cup errs \subseteq Diagnostics
    <3>1. errors' = errors \cup errs
      BY <2>1 DEF Finalize
    <3>2. errors' \subseteq Diagnostics
      BY <1>7, ReportTypeLate DEF ReportType
    <3> QED BY <3>1, <3>2
  <2>5. /\ ReportSound(errors', checks') /\ DecisionCheck'
        /\ \A c \in Checks \ {"decision"} : checks'[c] = FailOwners(checks, errs)[c]
    BY <2>1, <2>3, <2>4, SoundFinalize
  <2>6. errors' = errors \cup errs /\ pc = "rescan"
    BY <1>7, <2>1 DEF Finalize, Rescan
  <2>7. CleanChecks'
    BY <2>3, <2>5, <2>6 DEF CleanChecks, ReportInv
  <2>8. ReportSound(errors, checks)'
    BY <2>5 DEF ReportSound
  <2> QED BY <2>5, <2>7, <2>8 DEF ReportInv
<1> QED BY <1>3, <1>4, <1>5, <1>6, <1>7
-----------------------------------------------------------------------------
(* The theorems about the report. *)

\* At every point of a verification the owners of its errors do not pass, the
\* prerequisites are in order and, without an error, every check passes.
THEOREM ReportInvHolds == Spec => []ReportInv
<1>1. Init => ReportInv
  <2> SUFFICES ASSUME Init PROVE ReportInv
    OBVIOUS
  <2>1. errors = {} /\ checks = InitialChecks /\ pc = "scan"
    BY DEF Init
  <2>2. \A c \in Checks : checks[c] = [status |-> IF c = "decision" THEN "not_checked" ELSE "pass", pre |-> {}]
    BY <2>1 DEF InitialChecks
  <2> QED BY <2>1, <2>2, CheckNames DEF ReportInv, ReportSound, DecisionCheck, CleanChecks
<1>2. AllowInv /\ ReportInv /\ [Next]_vars => ReportInv'
  <2> SUFFICES ASSUME AllowInv, ReportInv, [Next]_vars PROVE ReportInv'
    OBVIOUS
  <2>0. EvidenceInv /\ CleanInv
    BY DEF AllowInv
  <2>1. ASSUME UNCHANGED <<evidence, pc, errors, checks>> PROVE ReportInv'
    <3>1. UnavailableHeads' = UnavailableHeads
      BY <2>1 DEF evidence, UnavailableHeads, Usable, Listed, Manifest
    <3>2. ReportSound(errors, checks)'
      BY <2>1 DEF ReportInv, ReportSound
    <3> QED BY <2>1, <3>1, <3>2 DEF ReportInv, DecisionCheck, CleanChecks
  <2>2. CASE Environment
    <3>1. \E p, node : Edit(p, node)
      BY <2>2 DEF Environment, Rewrite, Replace, ReplaceByLink, Remove
    <3>2. UNCHANGED <<evidence, pc, errors, checks>>
      BY <3>1 DEF Edit
    <3> QED BY <2>1, <3>2
  <2>3. CASE UNCHANGED vars
    <3>1. UNCHANGED <<evidence, pc, errors, checks>>
      BY <2>3 DEF vars, evidence
    <3> QED BY <2>1, <3>1
  <2> QED BY <2>0, <2>2, <2>3, ReportEarly, ReportMiddle, ReportFinal, ReportLate
          DEF Next, Verifier, Reported
<1> QED BY <1>1, <1>2, AllowInvHolds, PTL DEF Spec

\* The decision of a report is allow exactly when all sixteen checks pass, and
\* no check passes that owns an error.
THEOREM DecisionMatchesChecksHolds == Spec => []DecisionMatchesChecks
<1>1. AllowInv /\ ReportInv => DecisionMatchesChecks
  <2> SUFFICES ASSUME AllowInv, ReportInv, decision # "none" PROVE DecisionMatchesChecks
    BY DEF DecisionMatchesChecks
  <2>1. pc = "done" /\ (decision = "allow" <=> errors = {})
    BY DEF AllowInv, DecisionInv, Decision
  <2>2. \A e \in errors : e.owner \in Checks /\ checks[e.owner].status # "pass"
    BY DEF AllowInv, EvidenceInv, TypeOK, Diagnostics, ReportInv, ReportSound
  <2>3. errors = {} => \A c \in Checks : checks[c].status = "pass"
    BY <2>1 DEF ReportInv, CleanChecks, DecisionCheck
  <2> QED BY <2>1, <2>2, <2>3 DEF DecisionMatchesChecks
<1> QED BY <1>1, AllowInvHolds, ReportInvHolds, PTL

\* A check of a finished report names prerequisites exactly when it is skipped,
\* and only checks that come earlier.
THEOREM PrerequisitesWellFormedHolds == Spec => []PrerequisitesWellFormed
<1>1. ReportInv => PrerequisitesWellFormed
  BY DEF ReportInv, ReportSound, PrerequisitesWellFormed
<1> QED BY <1>1, ReportInvHolds, PTL
-----------------------------------------------------------------------------
(* Creation and verification.  StillInv says that what was read of the     *)
(* directory is still there, so the index and the manifest are those that  *)
(* the job wrote (Origin).  Facts about an accepted job are then facts     *)
(* about what each step of the verifier computes: step by step it finds    *)
(* what creation had made sure of, first that the statements are all       *)
(* authorized, then (Later) that their graph, the artifacts, the members   *)
(* and the profiles are in order.  CreatedInv is what the steps keep: no   *)
(* error marks a malformed bundle, and where the signed claims hold there  *)
(* is none at all but those of the freshness anchors.                      *)

(* The order of the final artifacts. *)

\* Finitely many numbers have a largest.
LEMMA MaximumOf ==
  ASSUME NEW P, IsFiniteSet(P), P # {}, NEW f, DOMAIN f = P, \A i \in P : f[i] \in Int
  PROVE  \E m \in P : \A i \in P : f[i] <= f[m]
<1> DEFINE R == {f[i] : i \in P}
           g == [i \in P |-> f[i]]
<1>1. g \in Surjection(P, R)
  BY DEF Surjection
<1>2. IsFiniteSet(R)
  BY <1>1, FS_Surjection
<1>3. R \subseteq Int /\ R # {}
  OBVIOUS
<1> HIDE DEF R
<1>4. \E h \in R : \A x \in R : x <= h
  BY <1>2, <1>3, FiniteMaximum
<1> QED BY <1>4 DEF R

\* A finite set of positions has one that no other has to follow.
LEMMA LastPosition ==
  ASSUME NEW s, NEW P, IsFiniteSet(P), P # {},
         \A i \in P : s[i].head \in Int /\ s[i].name \in Int
  PROVE  \E m \in P : \A i \in P : ~Producer!Precedes(s[m], s[i])
<1>1. PICK h \in P : \A i \in P : s[i].head <= s[h].head
  <2> DEFINE f == [i \in P |-> s[i].head]
  <2>1. DOMAIN f = P /\ \A i \in P : f[i] \in Int /\ f[i] = s[i].head
    OBVIOUS
  <2> HIDE DEF f
  <2>2. \E m \in P : \A i \in P : f[i] <= f[m]
    BY <2>1, MaximumOf
  <2> QED BY <2>1, <2>2
<1> DEFINE top == {i \in P : s[i].head = s[h].head}
<1>2. IsFiniteSet(top) /\ top # {} /\ top \subseteq P
  BY <1>1, FS_Subset
<1>3. PICK m \in top : \A i \in top : s[i].name <= s[m].name
  <2> DEFINE f == [i \in top |-> s[i].name]
  <2>1. DOMAIN f = top /\ \A i \in top : f[i] \in Int /\ f[i] = s[i].name
    OBVIOUS
  <2> HIDE DEF f, top
  <2>2. \E x \in top : \A i \in top : f[i] <= f[x]
    BY <1>2, <2>1, MaximumOf
  <2> QED BY <2>1, <2>2
<1>4. ASSUME NEW i \in P, Producer!Precedes(s[m], s[i]) PROVE FALSE
  <2>1. s[m].head = s[h].head /\ s[i].head <= s[h].head
    BY <1>1, <1>3
  <2>2. s[m].head < s[i].head \/ (s[m].head = s[i].head /\ s[m].name < s[i].name)
    BY <1>4 DEF Producer!Precedes
  <2>3. s[m].head = s[i].head /\ s[m].name < s[i].name
    BY <2>1, <2>2, <1>2
  <2>4. i \in top
    BY <2>1, <2>3
  <2> QED BY <1>2, <1>3, <2>3, <2>4
<1> QED BY <1>2, <1>4

\* The positions P of s can be put in order.
IsOrder(s, P, q) ==
  /\ q \in [1..Cardinality(P) -> P]
  /\ \A x \in P : \E i \in 1..Cardinality(P) : q[i] = x
  /\ \A i, k \in 1..Cardinality(P) : i < k => ~Producer!Precedes(s[q[k]], s[q[i]])

\* A list of finals can be put in the order of the handoff.
LEMMA OrderExists ==
  ASSUME NEW s, NEW S, IsFiniteSet(S),
         \A i \in S : s[i].head \in Int /\ s[i].name \in Int
  PROVE  \E q : IsOrder(s, S, q)
<1> DEFINE Bad == {P \in SUBSET S : ~\E q : IsOrder(s, P, q)}
<1> SUFFICES ASSUME ~\E q : IsOrder(s, S, q) PROVE FALSE
  OBVIOUS
<1>1. IsWellFoundedOn(StrictSubsetOrdering(S), SUBSET S)
  BY FS_StrictSubsetOrderingWellFounded, FS_FiniteSubsetsOfFinite
<1>2. S \in Bad /\ Bad \subseteq SUBSET S
  OBVIOUS
<1>3. PICK P \in Bad : \A B \in Bad : ~(<<B, P>> \in StrictSubsetOrdering(S))
  <2>1. Bad # {} /\ Bad \subseteq SUBSET S
    BY <1>2
  <2> HIDE DEF Bad
  <2> QED BY <1>1, <2>1, WFMin
<1>4. IsFiniteSet(P) /\ P \subseteq S
  BY FS_Subset
<1>5. P # {}
  <2> SUFFICES ASSUME P = {} PROVE FALSE
    OBVIOUS
  <2>1. Cardinality(P) = 0
    BY FS_EmptySet
  <2>2. IsOrder(s, P, [i \in 1..0 |-> i])
    BY <2>1 DEF IsOrder
  <2> QED BY <2>2
<1>6. PICK m \in P : \A i \in P : ~Producer!Precedes(s[m], s[i])
  BY <1>4, <1>5, LastPosition
<1> DEFINE Q == P \ {m}
           n == Cardinality(Q)
<1>7. IsFiniteSet(Q) /\ n \in Nat /\ Cardinality(P) = n + 1
  <2>1. IsFiniteSet(Q) /\ Cardinality(Q) = Cardinality(P) - 1
    BY <1>4, FS_RemoveElement
  <2> QED BY <1>4, <2>1, FS_CardinalityType
<1>8. Q \notin Bad
  BY <1>3, <1>4 DEF StrictSubsetOrdering
<1>9. PICK q : IsOrder(s, Q, q)
  BY <1>4, <1>8
<1> HIDE DEF n, Bad
<1> DEFINE r == [i \in 1..(n+1) |-> IF i = n + 1 THEN m ELSE q[i]]
<1>10. q \in [1..n -> Q] /\ (\A x \in Q : \E i \in 1..n : q[i] = x)
       /\ \A i, k \in 1..n : i < k => ~Producer!Precedes(s[q[k]], s[q[i]])
  BY <1>9 DEF IsOrder, n
<1>11. r \in [1..(n+1) -> P]
  BY <1>7, <1>10
<1>12. \A x \in P : \E i \in 1..(n+1) : r[i] = x
  <2> SUFFICES ASSUME NEW x \in P PROVE \E i \in 1..(n+1) : r[i] = x
    OBVIOUS
  <2>1. CASE x = m
    <3>1. n + 1 \in 1..(n+1) /\ r[n+1] = m
      BY <1>7
    <3> QED BY <2>1, <3>1
  <2>2. CASE x # m
    <3>1. PICK i \in 1..n : q[i] = x
      BY <1>10, <2>2
    <3>2. i \in 1..(n+1) /\ r[i] = q[i]
      BY <1>7
    <3> QED BY <3>1, <3>2
  <2> QED BY <2>1, <2>2
<1>13. ASSUME NEW i \in 1..(n+1), NEW k \in 1..(n+1), i < k
       PROVE  ~Producer!Precedes(s[r[k]], s[r[i]])
  <2>1. i \in 1..n /\ r[i] = q[i]
    BY <1>7, <1>13
  <2>2. CASE k = n + 1
    <3>1. r[k] = m /\ r[i] \in P
      BY <1>11, <2>2
    <3> QED BY <1>6, <3>1
  <2>3. CASE k # n + 1
    <3>1. k \in 1..n /\ r[k] = q[k]
      BY <1>7, <2>3
    <3> QED BY <1>10, <1>13, <2>1, <3>1
  <2> QED BY <2>2, <2>3
<1> HIDE DEF r
<1>14. IsOrder(s, P, r)
  BY <1>7, <1>11, <1>12, <1>13 DEF IsOrder
<1> QED BY <1>14 DEF Bad

\* Sorting keeps the final artifacts.
LEMMA ArrangedKeeps ==
  ASSUME NEW s, IsList(s), \A a \in Producer!ToSet(s) : a.head \in Int /\ a.name \in Int
  PROVE  /\ DOMAIN Producer!Arranged(s) = 1..Len(s)
         /\ {Producer!Arranged(s)[i] : i \in 1..Len(s)} = Producer!ToSet(s)
<1>1. Len(s) \in Nat /\ DOMAIN s = 1..Len(s)
  BY LenProperties DEF IsList
<1>2. IsFiniteSet(1..Len(s)) /\ Cardinality(1..Len(s)) = Len(s)
  BY <1>1, FS_Interval
<1>3. \A i \in 1..Len(s) : s[i] \in Producer!ToSet(s)
  BY <1>1 DEF Producer!ToSet
<1>4. PICK q : IsOrder(s, 1..Len(s), q)
  BY <1>2, <1>3, OrderExists
<1>5. /\ q \in [1..Len(s) -> 1..Len(s)]
      /\ \A x \in 1..Len(s) : \E i \in 1..Len(s) : q[i] = x
      /\ \A i, k \in 1..Len(s) : i < k => ~Producer!Precedes(s[q[k]], s[q[i]])
  BY <1>2, <1>4 DEF IsOrder
<1> DEFINE t == [i \in 1..Len(s) |-> s[q[i]]]
<1>6. t \in [1..Len(s) -> Producer!ToSet(s)]
  BY <1>3, <1>5
<1>7. \A a \in Producer!ToSet(s) : \E i \in DOMAIN t : t[i] = a
  <2> SUFFICES ASSUME NEW a \in Producer!ToSet(s) PROVE \E i \in DOMAIN t : t[i] = a
    OBVIOUS
  <2>1. PICK x \in 1..Len(s) : s[x] = a
    BY <1>1 DEF Producer!ToSet
  <2> QED BY <1>5, <2>1
<1>8. \A i, k \in DOMAIN t : i < k => ~Producer!Precedes(t[k], t[i])
  BY <1>5
<1> HIDE DEF t
<1>9. /\ Producer!Arranged(s) \in [1..Len(s) -> Producer!ToSet(s)]
      /\ \A a \in Producer!ToSet(s) : \E i \in DOMAIN Producer!Arranged(s) : Producer!Arranged(s)[i] = a
  BY <1>6, <1>7, <1>8 DEF Producer!Arranged
<1> QED BY <1>9

\* Producer and consumer use the same graph module.
LEMMA SameGraph ==
  /\ \A S : Producer!Predecessors(S) = Predecessors(S)
  /\ \A S, d : Producer!EdgeInputs(S, d) = EdgeInputs(S, d)
  /\ \A S : Producer!Mixed(S) = Mixed(S) /\ Producer!DuplicateEvents(S) = DuplicateEvents(S)
  /\ \A S : Producer!Roots(S) = Roots(S) /\ Producer!ConsumedSubjects(S) = ConsumedSubjects(S)
  /\ \A P : Producer!Acyclic(P) <=> Acyclic(P)
  /\ \A P, H : Producer!Reached(P, H) = Reached(P, H)
  /\ \A S, M, V, i : Producer!EdgeProblem(S, M, V, i) = EdgeProblem(S, M, V, i)
  /\ \A n : Producer!DatasetProfile(n) = DatasetProfile(n)
<1> USE DEF Producer!GraphVersion, GraphVersion, Producer!Mixed, Mixed,
            Producer!EdgeInputs, EdgeInputs, Producer!Predecessors, Predecessors,
            Producer!NamesSubject, NamesSubject, Producer!NoEntry, NoEntry
<1>1. \A S : Producer!Predecessors(S) = Predecessors(S)
  OBVIOUS
<1>2. \A S, d : Producer!EdgeInputs(S, d) = EdgeInputs(S, d)
  OBVIOUS
<1>3. \A S : Producer!Mixed(S) = Mixed(S) /\ Producer!DuplicateEvents(S) = DuplicateEvents(S)
  BY DEF Producer!DuplicateEvents, DuplicateEvents
<1>4. \A S : Producer!Roots(S) = Roots(S) /\ Producer!ConsumedSubjects(S) = ConsumedSubjects(S)
  BY DEF Producer!Roots, Roots, Producer!ConsumedSubjects, ConsumedSubjects
<1>5. \A P : Producer!Acyclic(P) <=> Acyclic(P)
  BY DEF Producer!Acyclic, Acyclic
<1>6. \A P, H : Producer!Reached(P, H) = Reached(P, H)
  BY DEF Producer!Reached, Reached, Producer!ClosedSets, ClosedSets
<1>7. \A S, M, V, i : Producer!EdgeProblem(S, M, V, i) = EdgeProblem(S, M, V, i)
  BY DEF Producer!EdgeProblem, EdgeProblem
<1>8. \A n : Producer!DatasetProfile(n) = DatasetProfile(n)
  BY DEF Producer!DatasetProfile, DatasetProfile, Producer!DatasetId, DatasetId,
         Producer!DatasetMedia, DatasetMedia
<1> QED BY <1>1, <1>2, <1>3, <1>4, <1>5, <1>6, <1>7, <1>8
-----------------------------------------------------------------------------
(* What creation has accepted. *)

\* The range of a list, element by element.
LEMMA ListRange ==
  ASSUME NEW s, IsList(s)
  PROVE  /\ Len(s) \in Nat /\ DOMAIN s = 1..Len(s)
         /\ Producer!ToSet(s) = {s[i] : i \in 1..Len(s)}
BY LenProperties DEF IsList, Producer!ToSet

\* The statements of a job are the digests of its attestations.
LEMMA AttestedDigests ==
  ASSUME NEW j
  PROVE  Producer!Attested(j) = {a.digest : a \in Producer!ToSet(j.attestations)}
BY DEF Producer!Attested, Producer!Digests, Producer!Each, Producer!ToSet

\* Every material is in one of the two lists.
LEMMA MaterialLists ==
  ASSUME NEW j, IsJob(j)
  PROVE  Producer!ToSet(j.historical \o j.datasets)
           = Producer!ToSet(j.historical) \cup Producer!ToSet(j.datasets)
<1> DEFINE h == j.historical
           t == j.datasets
           R == Producer!ToSet(h) \cup Producer!ToSet(t)
<1>1. IsList(h) /\ IsList(t)
  BY DEF IsJob
<1> HIDE DEF h, t
<1>2. /\ Len(h) \in Nat /\ DOMAIN h = 1..Len(h) /\ Len(t) \in Nat /\ DOMAIN t = 1..Len(t)
      /\ R = {h[i] : i \in 1..Len(h)} \cup {t[i] : i \in 1..Len(t)}
  BY <1>1, ListRange
<1>3. h \in Seq(R) /\ t \in Seq(R)
  BY <1>1, SeqMonotonic DEF IsList
<1> HIDE DEF R
<1>4. /\ DOMAIN (h \o t) = 1..(Len(h) + Len(t))
      /\ \A i \in 1..(Len(h) + Len(t)) : (h \o t)[i] = IF i <= Len(h) THEN h[i] ELSE t[i - Len(h)]
  BY <1>3, ConcatProperties, LenProperties
<1>5. ASSUME NEW x \in R PROVE \E i \in DOMAIN (h \o t) : (h \o t)[i] = x
  <2>1. CASE \E i \in 1..Len(h) : h[i] = x
    BY <1>2, <1>4, <2>1
  <2>2. CASE \E i \in 1..Len(t) : t[i] = x
    <3>1. PICK i \in 1..Len(t) : t[i] = x
      BY <2>2
    <3>2. Len(h) + i \in 1..(Len(h) + Len(t)) /\ ~(Len(h) + i <= Len(h)) /\ (Len(h) + i) - Len(h) = i
      BY <1>2
    <3> QED BY <1>4, <3>1, <3>2
  <2> QED BY <1>2, <2>1, <2>2
<1>6. ASSUME NEW i \in DOMAIN (h \o t) PROVE (h \o t)[i] \in R
  <2>1. CASE i <= Len(h)
    BY <1>2, <1>4, <2>1
  <2>2. CASE ~(i <= Len(h))
    <3>1. i - Len(h) \in 1..Len(t) /\ (h \o t)[i] = t[i - Len(h)]
      BY <1>2, <1>4, <2>2
    <3> QED BY <1>2, <3>1
  <2> QED BY <2>1, <2>2
<1>7. Producer!ToSet(h \o t) = R
  BY <1>5, <1>6 DEF Producer!ToSet
<1> QED BY <1>7 DEF h, t, R

\* The heads of the final artifacts lead to exactly the attested statements.
LEMMA HeadsFacts ==
  ASSUME NEW j, IsJob(j), Producer!Accepts(j)
  PROVE  LET heads == {a.head : a \in Producer!ToSet(j.finals)}
         IN  /\ heads \subseteq Producer!Attested(j)
             /\ Reached(Predecessors(Producer!Lineage(j)), heads) = Producer!Attested(j)
<1> DEFINE heads == {a.head : a \in Producer!ToSet(j.finals)}
           P == Predecessors(Producer!Lineage(j))
<1>1. Producer!ToSet(j.heads) = heads
  BY DEF Producer!Accepts, Producer!HeadsFit
<1>2. Reached(P, heads) = Producer!Attested(j)
  BY <1>1, SameGraph DEF Producer!Accepts, Producer!LineageFits
<1>3. \A Q, H : H \subseteq Reached(Q, H)
  BY DEF Reached, ClosedSets
<1> QED BY <1>2, <1>3

\* Two final artifacts with one identity are one, and one media type is said
\* of it; none was consumed.
LEMMA FinalsFacts ==
  ASSUME NEW j, IsJob(j), Producer!Accepts(j), NEW a \in Producer!ToSet(j.finals)
  PROVE  /\ a.head \in Producer!Attested(j) /\ Producer!Signs(a.head, a.name, a.data)
         /\ Producer!FinalId(a) \notin ConsumedSubjects(Producer!Lineage(j))
         /\ Producer!AtMostOne(Producer!DeclaredMedia(a.head, a.name) \cup a.media)
         /\ \A b \in Producer!ToSet(j.finals) : Producer!FinalId(b) = Producer!FinalId(a) => b = a
<1>1. a.head \in Producer!Attested(j)
  BY HeadsFacts
<1>2. Producer!Signs(a.head, a.name, a.data)
  BY DEF Producer!Accepts, Producer!HandoffFits
<1>3. /\ Producer!FinalId(a) \notin ConsumedSubjects(Producer!Lineage(j))
      /\ Producer!AtMostOne(Producer!DeclaredMedia(a.head, a.name) \cup a.media)
  BY SameGraph DEF Producer!Accepts, Producer!FinalsFit
<1>4. ASSUME NEW b \in Producer!ToSet(j.finals), Producer!FinalId(b) = Producer!FinalId(a)
      PROVE  b = a
  <2>1. PICK i \in DOMAIN j.finals : j.finals[i] = a
    BY DEF Producer!ToSet
  <2>2. PICK k \in DOMAIN j.finals : j.finals[k] = b
    BY DEF Producer!ToSet
  <2>3. Producer!Distinct(Producer!Each(j.finals, Producer!FinalId))
    BY DEF Producer!Accepts, Producer!HandoffFits
  <2>4. i = k
    BY <1>4, <2>1, <2>2, <2>3 DEF Producer!Distinct, Producer!IsInjective, Producer!Each
  <2> QED BY <2>1, <2>2, <2>4
<1> QED BY <1>1, <1>2, <1>3, <1>4

\* What creation has asked of the dataset manifests it accepts.
LEMMA DatasetFacts ==
  ASSUME NEW j, IsJob(j), Producer!Accepts(j), NEW m \in Producer!ToSet(j.datasets)
  PROVE  /\ m.statement \in Producer!Attested(j) /\ Producer!Signs(m.statement, m.name, m.data)
         /\ DatasetProfile(m.name) \in Stmt[m.statement].profiles
         /\ DatasetOf[m.data].fault = "none"
         /\ <<m.statement, m.name, m.data>> \in Producer!MaterialKeys(j)
<1>1. m \in Producer!ToSet(j.historical \o j.datasets)
  BY MaterialLists
<1>2. m.statement \in Producer!Attested(j) /\ Producer!Signs(m.statement, m.name, m.data)
  BY <1>1 DEF Producer!Accepts, Producer!MaterialsFit
<1>3. DatasetProfile(m.name) \in Stmt[m.statement].profiles /\ DatasetOf[m.data].fault = "none"
  BY SameGraph DEF Producer!Accepts, Producer!DatasetsFit
<1>4. <<m.statement, m.name, m.data>> \in Producer!MaterialKeys(j)
  BY <1>1 DEF Producer!MaterialKeys, Producer!MaterialKey
<1> QED BY <1>2, <1>3, <1>4

\* Every key of the bundle names an exact subject of an attested statement.
LEMMA MaterialFacts ==
  ASSUME NEW j, IsJob(j), Producer!Accepts(j), NEW k \in Producer!MaterialKeys(j)
  PROVE  /\ k = <<k[1], k[2], k[3]>>
         /\ k[1] \in Producer!Attested(j) /\ Producer!Signs(k[1], k[2], k[3])
<1>1. CASE \E a \in Producer!ToSet(j.finals) : k = Producer!FinalId(a)
  <2>1. PICK a \in Producer!ToSet(j.finals) : k = <<a.head, a.name, a.data>>
    BY <1>1 DEF Producer!FinalId
  <2>2. a.head \in Producer!Attested(j) /\ Producer!Signs(a.head, a.name, a.data)
    BY FinalsFacts
  <2> QED BY <2>1, <2>2
<1>2. CASE \E m \in Producer!ToSet(j.historical \o j.datasets) : k = Producer!MaterialKey(m)
  <2>1. PICK m \in Producer!ToSet(j.historical \o j.datasets) : k = <<m.statement, m.name, m.data>>
    BY <1>2 DEF Producer!MaterialKey
  <2>2. m.statement \in Producer!Attested(j) /\ Producer!Signs(m.statement, m.name, m.data)
    BY DEF Producer!Accepts, Producer!MaterialsFit
  <2> QED BY <2>1, <2>2
<1> QED BY <1>1, <1>2 DEF Producer!MaterialKeys

\* Every input of the lineage is what its predecessor signed; one that takes an
\* entry of a dataset has its manifest in the bundle.
LEMMA InputFacts ==
  ASSUME NEW j, IsJob(j), Producer!Accepts(j), NEW d \in Producer!Attested(j),
         NEW i \in EdgeInputs(Producer!Lineage(j), d)
  PROVE  /\ i.pred \in Producer!Attested(j) /\ i.subject \in DOMAIN Stmt[i.pred].subjects
         /\ i.entry = NoEntry => Stmt[i.pred].subjects[i.subject] = i.digest
         /\ i.entry # NoEntry =>
              LET bytes == Stmt[i.pred].subjects[i.subject]
              IN  /\ \E m \in Producer!ToSet(j.datasets) :
                       m.statement = i.pred /\ m.name = i.subject /\ m.data = bytes
                  /\ i.entry \in DOMAIN DatasetOf[bytes].members
                  /\ DatasetOf[bytes].members[i.entry].digest = i.digest
<1> DEFINE L == Producer!Lineage(j)
           M == Producer!DatasetMemberships(j)
<1>1. Producer!ProblemCodes(L, M, {}) = {}
  BY DEF Producer!Accepts, Producer!LineageFits
<1>2. DOMAIN L = Producer!Attested(j) /\ \A e \in DOMAIN L : L[e] = Stmt[e]
  BY DEF Producer!Lineage
<1> HIDE DEF L, M
<1>3. EdgeProblem(L, M, {}, i) = {}
  <2>1. UNION {Producer!EdgeProblem(L, M, {}, x) : x \in UNION {Producer!EdgeInputs(L, e) : e \in DOMAIN L}} = {}
    BY <1>1 DEF Producer!ProblemCodes
  <2>2. i \in Producer!EdgeInputs(L, d)
    BY SameGraph DEF L
  <2>3. Producer!EdgeProblem(L, M, {}, i) = {}
    BY <1>2, <2>1, <2>2
  <2> QED BY <2>3, SameGraph
<1>4. i.pred \in Producer!Attested(j) /\ i.subject \in DOMAIN Stmt[i.pred].subjects
  BY <1>2, <1>3 DEF EdgeProblem, NamesSubject
<1>5. i.entry = NoEntry => Stmt[i.pred].subjects[i.subject] = i.digest
  BY <1>2, <1>3, <1>4 DEF EdgeProblem
<1>6. ASSUME i.entry # NoEntry
      PROVE  LET bytes == Stmt[i.pred].subjects[i.subject]
             IN  /\ \E m \in Producer!ToSet(j.datasets) :
                       m.statement = i.pred /\ m.name = i.subject /\ m.data = bytes
                 /\ i.entry \in DOMAIN DatasetOf[bytes].members
                 /\ DatasetOf[bytes].members[i.entry].digest = i.digest
  <2> DEFINE e == <<i.pred, i.subject, i.entry>>
  <2>1. e \in DOMAIN M /\ M[e] = i.digest
    BY <1>3, <1>6 DEF EdgeProblem
  <2>2. \E m \in Producer!ToSet(j.datasets) :
          e \in {<<m.statement, m.name, x>> : x \in DOMAIN DatasetOf[m.data].members}
    BY <2>1 DEF M, Producer!DatasetMemberships
  <2>3. PICK m \in Producer!ToSet(j.datasets) :
          m.statement = i.pred /\ m.name = i.subject /\ i.entry \in DOMAIN DatasetOf[m.data].members
    BY <2>2
  <2>4. Stmt[i.pred].subjects[i.subject] = m.data
    BY <2>3, DatasetFacts DEF Producer!Signs
  <2>5. M[e] = DatasetOf[Stmt[e[1]].subjects[e[2]]].members[e[3]].digest
    BY <2>1 DEF M, Producer!DatasetMemberships
  <2> QED BY <2>1, <2>3, <2>4, <2>5
<1> QED BY <1>4, <1>5, <1>6

\* The rest of what build_graph finds does not depend on dataset manifests.
LEMMA LineageFacts ==
  ASSUME NEW j, Producer!Accepts(j)
  PROVE  LET L == Producer!Lineage(j)
         IN  /\ DOMAIN L = Producer!Attested(j) /\ \A d \in DOMAIN L : L[d] = Stmt[d]
             /\ DuplicateEvents(L) = {} /\ Mixed(L) = {} /\ Acyclic(Predecessors(L))
             /\ \A r \in Roots(L) : L[r].type = "origin"
<1> DEFINE L == Producer!Lineage(j)
           M == Producer!DatasetMemberships(j)
<1>1. Producer!ProblemCodes(L, M, {}) = {}
  BY DEF Producer!Accepts, Producer!LineageFits
<1>2. DOMAIN L = Producer!Attested(j) /\ \A e \in DOMAIN L : L[e] = Stmt[e]
  BY DEF Producer!Lineage
<1> HIDE DEF L, M
<1>3. /\ Producer!DuplicateEvents(L) = {} /\ Producer!Mixed(L) = {}
      /\ Producer!Acyclic(Producer!Predecessors(L))
      /\ \A r \in Producer!Roots(L) : L[r].type = "origin"
  BY <1>1 DEF Producer!ProblemCodes
<1> QED BY <1>2, <1>3, SameGraph DEF L

\* An entry of the bundle is the member of a dataset manifest of the bundle.
LEMMA EntryFacts ==
  ASSUME NEW j, IsJob(j), Producer!Accepts(j), NEW x \in Producer!ToSet(j.entries)
  PROVE  LET bytes == Stmt[x.statement].subjects[x.name]
         IN  /\ \E m \in Producer!ToSet(j.datasets) :
                  m.statement = x.statement /\ m.name = x.name /\ m.data = bytes
             /\ x.statement \in Producer!Attested(j) /\ x.name \in DOMAIN Stmt[x.statement].subjects
             /\ x.entry \in DOMAIN DatasetOf[bytes].members
             /\ DatasetOf[bytes].members[x.entry].digest = x.data
             /\ \A z \in DatasetOf[bytes].members[x.entry].size : z = SizeOf(x.data)
<1>1. PICK m \in Producer!ToSet(j.datasets) :
         /\ m.statement = x.statement /\ m.name = x.name
         /\ x.entry \in DOMAIN DatasetOf[m.data].members
         /\ DatasetOf[m.data].members[x.entry].digest = x.data
         /\ \A z \in DatasetOf[m.data].members[x.entry].size : z = SizeOf(x.data)
  BY DEF Producer!Accepts, Producer!EntriesFit
<1>2. m.statement \in Producer!Attested(j) /\ Producer!Signs(m.statement, m.name, m.data)
  BY DatasetFacts
<1> QED BY <1>1, <1>2 DEF Producer!Signs

Early == {"scan", "snapshot", "index", "manifest"}

\* Where nobody else writes, the directory is the scenario's, the inventory is
\* the directory's, and what was read is there.
StillInv ==
  in.others.edits = 0 =>
    /\ edits = 0
    /\ \E s \in Scenarios :
         disk = s.disk /\ in = [policy |-> s.policy, request |-> s.request, others |-> s.others]
    /\ pc \in (Early \ {"scan"}) \cup FromHandoff => inventory = Inventory /\ ~UnsafeTree
    /\ pc \in Early => manifest = NoBytes
    /\ pc \in Early \cup {"handoff"} => errors = {}
    /\ index # NoBytes => index = disk[IndexPath].bytes
    /\ manifest # NoBytes =>
         index # NoBytes /\ \E p \in Path : disk[p].kind = "file" /\ manifest = disk[p].bytes

\* The steps that come before the handoff is judged.
LEMMA EarlySteps ==
  ASSUME [Next]_vars, pc \in Early
  PROVE  \/ ScanBundle \/ SnapshotConsumer \/ IndexUnavailable \/ ReadIndex
         \/ ManifestAbsent \/ ManifestRejected \/ LoadManifest \/ Environment \/ UNCHANGED vars
<1>1. ~(AuthorizeHandoff \/ LoadAttestations \/ AuthorizeStatements \/ ValidateMetadataProfiles)
  BY DEF Early, AuthorizeHandoff, LoadAttestations, AuthorizeStatements, ValidateMetadataProfiles
<1>2. ~(PrevalidateDatasets \/ BuildGraph \/ CheckCompleteness \/ HashConsumerOnly)
  BY DEF Early, PrevalidateDatasets, BuildGraph, CheckCompleteness, HashConsumerOnly
<1>3. ~(VerifyFinalArtifacts \/ VerifyHistorical \/ VerifyDatasetEntries)
  BY DEF Early, VerifyFinalArtifacts, VerifyHistorical, VerifyDatasetEntries
<1>4. ~(ValidateArtifactProfiles \/ EvaluateFreshness \/ Rescan)
  BY DEF Early, ValidateArtifactProfiles, EvaluateFreshness, Rescan
<1> QED BY <1>1, <1>2, <1>3, <1>4 DEF Next, Verifier, Reported

\* Before it, a step reads one more file and finds nothing wrong, or it ends
\* the verification.
LEMMA EarlyFacts ==
  ASSUME EvidenceInv, [Next]_vars, pc \in Early, UNCHANGED <<disk, edits>>
  PROVE  \/ pc' \in Ended /\ UNCHANGED evidence
         \/ UNCHANGED <<pc, evidence, errors>>
         \/ /\ pc = "scan" /\ pc' = "snapshot" /\ inventory' = Inventory /\ ~UnsafeTree
            /\ UNCHANGED <<in, index, manifest, errors>>
         \/ pc = "snapshot" /\ pc' = "index" /\ UNCHANGED <<evidence, errors>>
         \/ /\ pc = "index" /\ pc' = "manifest" /\ index' = Bytes(IndexPath)
            /\ UNCHANGED <<in, inventory, manifest, errors>>
         \/ /\ pc = "manifest" /\ pc' = "handoff" /\ manifest' = Bytes(Index.manifest)
            /\ ReadStatus(Index.manifest) = "ok"
            /\ UNCHANGED <<in, inventory, index, errors>>
<1> USE DEF evidence, Ended
<1>0. ASSUME NEW E, NEW r, NEW q, NEW n, Terminate(E, r, q, n)
      PROVE  pc' \in Ended /\ UNCHANGED evidence
  BY <1>0 DEF Terminate, Finalize
<1>1. CASE ScanBundle
  BY <1>0, <1>1 DEF ScanBundle
<1>2. CASE SnapshotConsumer
  BY <1>0, <1>2 DEF SnapshotConsumer
<1>3. CASE IndexUnavailable \/ ManifestAbsent \/ ManifestRejected
  BY <1>0, <1>3 DEF IndexUnavailable, ManifestAbsent, ManifestRejected
<1>4. CASE ReadIndex
  BY <1>0, <1>4 DEF ReadIndex
<1>5. CASE LoadManifest
  BY <1>5 DEF LoadManifest, LoadFault, Abort
<1>6. CASE Environment
  <2>1. \E p, node : Edit(p, node)
    BY <1>6 DEF Environment, Rewrite, Replace, ReplaceByLink, Remove
  <2> QED BY <2>1 DEF Edit
<1>7. CASE UNCHANGED vars
  BY <1>7 DEF vars
<1> QED BY <1>1, <1>2, <1>3, <1>4, <1>5, <1>6, <1>7, EarlySteps

\* The directory stays as it is, and what is read of it is there.
LEMMA StillStep == EvidenceInv /\ StillInv /\ [Next]_vars => StillInv'
<1> SUFFICES ASSUME EvidenceInv, StillInv, [Next]_vars, in'.others.edits = 0
             PROVE  StillInv'
  BY DEF StillInv
<1>1. in' = in /\ in.others.edits = 0
  BY Frame
<1>2. UNCHANGED <<disk, edits>>
  <2>1. edits = 0
    BY <1>1 DEF StillInv
  <2>2. ~Environment
    BY <1>1, <2>1 DEF Environment
  <2> QED BY <2>2, DiskFrame
<1>3. Inventory' = Inventory /\ UnsafeTree' = UnsafeTree
  BY <1>2 DEF Inventory, UnsafeTree, Present
<1>4. CASE pc \in Early
  <2> USE <1>1, <1>2, <1>3 DEF StillInv
  <2>1. CASE UNCHANGED <<pc, evidence, errors>>
    BY <1>4, <2>1 DEF evidence
  <2>2. CASE pc' \in Ended /\ UNCHANGED evidence
    BY <1>4, <2>2 DEF evidence, Ended, Early, FromHandoff, FromAttestations, FromAuthorize, FromMetadata,
      FromDatasets, FromGraph, FromCompleteness, FromFinal, FromHistorical, FromEntries,
      FromProfiles, FromFreshness, FromRescan
  <2>3. CASE pc = "scan" /\ pc' = "snapshot" /\ inventory' = Inventory /\ ~UnsafeTree
             /\ UNCHANGED <<in, index, manifest, errors>>
    BY <1>4, <2>3 DEF Early
  <2>4. CASE pc = "snapshot" /\ pc' = "index" /\ UNCHANGED <<evidence, errors>>
    BY <1>4, <2>4 DEF evidence, Early
  <2>5. CASE /\ pc = "index" /\ pc' = "manifest" /\ index' = Bytes(IndexPath)
             /\ UNCHANGED <<in, inventory, manifest, errors>>
    BY <1>4, <2>5 DEF Bytes, Early
  <2>6. CASE /\ pc = "manifest" /\ pc' = "handoff" /\ manifest' = Bytes(Index.manifest)
             /\ ReadStatus(Index.manifest) = "ok"
             /\ UNCHANGED <<in, inventory, index, errors>>
    <3>1. Index.manifest \in Path /\ disk[Index.manifest].kind = "file"
      BY <2>6, ReadFacts DEF ReadStatus
    <3>2. index # NoBytes
      BY <2>6 DEF EvidenceInv, LoadedInv, FromManifest
    <3>3. pc' \in FromHandoff /\ pc' \notin Early
      BY <2>6 DEF FromHandoff, Early
    <3> QED BY <1>4, <2>6, <3>1, <3>2, <3>3 DEF Bytes, Early
  <2> QED BY <1>2, <1>4, <2>1, <2>2, <2>3, <2>4, <2>5, <2>6, EarlyFacts
<1>5. CASE pc \notin Early
  <2>1. pc \in FromHandoff \cup Ended
    <3>1. pc \in Places
      BY PlaceNames DEF EvidenceInv, TypeOK
    <3> QED BY <1>5, <3>1 DEF Places, FromManifest, Early
  <2>2. UNCHANGED <<index, manifest, inventory>>
    BY <1>5, <2>1, Frame, DiskFrame DEF Early
  <2>3. /\ pc' \notin Early
        /\ pc' = "handoff" => pc = "handoff" /\ errors' = errors
        /\ pc' \in FromHandoff => pc \in FromHandoff
    <3> USE DEF Early, evidence, FromHandoff, FromAttestations, FromAuthorize, FromMetadata,
      FromDatasets, FromGraph, FromCompleteness, FromFinal, FromHistorical, FromEntries,
      FromProfiles, FromFreshness, FromRescan, Ended
    <3> QED BY <1>5, <2>1, Moves
  <2> QED BY <1>1, <1>2, <1>3, <1>5, <2>2, <2>3 DEF StillInv
<1> QED BY <1>4, <1>5
-----------------------------------------------------------------------------
(* The bundle of an accepted job, where nobody else writes. *)

Undisturbed == EvidenceInv /\ StillInv /\ IsCreated /\ in.others.edits = 0

\* The manifest is a job's handoff, and the index is the index the job wrote.
LEMMA Origin ==
  ASSUME Undisturbed
  PROVE  /\ IsJob(TheJob) /\ Producer!Accepts(TheJob)
         /\ Manifest = Producer!CreateHandoff(TheJob)
         /\ Index = Producer!CreateIndex(TheJob)
         /\ Published(disk, TheJob)
<1>1. PICK s \in Scenarios :
        disk = s.disk /\ in = [policy |-> s.policy, request |-> s.request, others |-> s.others]
  BY DEF Undisturbed, StillInv
<1>2. s.others.edits = 0
  BY <1>1 DEF Undisturbed
<1>3. PICK p \in Path : disk[p].kind = "file" /\ manifest = disk[p].bytes
  BY DEF Undisturbed, StillInv, IsCreated
<1>4. TheJob \in JobsOf(manifest)
  BY DEF TheJob, Undisturbed, IsCreated
<1>5. /\ IsJob(TheJob) /\ Producer!Accepts(TheJob)
      /\ HandoffOf(manifest) = Producer!CreateHandoff(TheJob)
      /\ Published(disk, TheJob)
  BY <1>1, <1>2, <1>3, <1>4, PublishedAssumption
<1>6. index = disk[IndexPath].bytes
  BY DEF Undisturbed, StillInv, IsCreated
<1> QED BY <1>5, <1>6 DEF Published, Manifest, Index

\* Every file that the job wrote is in the inventory, with the job's bytes.
LEMMA FilesRead ==
  ASSUME Undisturbed, pc \in FromHandoff, NEW f \in Producer!CreateFiles(TheJob)
  PROVE  ReadStatus(f[1]) = "ok" /\ Bytes(f[1]) = f[2] /\ f[2] \in Content
<1>1. f[1] \in Path /\ disk[f[1]].kind = "file" /\ disk[f[1]].bytes = f[2]
  BY Origin DEF Published
<1>2. inventory = Inventory
  BY DEF Undisturbed, StillInv
<1>3. ReadStatus(f[1]) = "ok"
  BY <1>1, <1>2 DEF ReadStatus, IsInventoriedFile, Inventory, Present
<1> QED BY <1>1, <1>3, ReadFacts DEF Bytes, Undisturbed

\* The handoff and the index, as the job made them.
LEMMA Listing ==
  ASSUME Undisturbed
  PROVE  /\ Manifest.statements = Producer!Attested(TheJob)
         /\ Manifest.heads = {a.head : a \in Producer!ToSet(TheJob.finals)}
         /\ Manifest.roots = Roots(Producer!Lineage(TheJob))
         /\ Manifest.required = TheJob.required
         /\ DOMAIN Index.attestations = Producer!Attested(TheJob)
         /\ \A d \in Producer!Attested(TheJob) : Index.attestations[d] = AttestationPath[d]
         /\ DOMAIN Index.artifacts = Producer!MaterialKeys(TheJob)
         /\ \A k \in Producer!MaterialKeys(TheJob) : Index.artifacts[k] = ArtifactPath[k]
         /\ Index.catalog = IF Producer!Exported(TheJob) = {} THEN {} ELSE {CatalogPath}
<1>1. Manifest = Producer!CreateHandoff(TheJob) /\ Index = Producer!CreateIndex(TheJob)
  BY Origin
<1>2. Producer!Roots(Producer!Lineage(TheJob)) = Roots(Producer!Lineage(TheJob))
  BY SameGraph
<1>3. /\ Manifest.statements = Producer!Attested(TheJob)
      /\ Manifest.heads = {a.head : a \in Producer!ToSet(TheJob.finals)}
      /\ Manifest.roots = Producer!Roots(Producer!Lineage(TheJob))
      /\ Manifest.required = TheJob.required
  BY <1>1 DEF Producer!CreateHandoff
<1>4. /\ DOMAIN Index.attestations = Producer!Attested(TheJob)
      /\ \A d \in Producer!Attested(TheJob) : Index.attestations[d] = AttestationPath[d]
      /\ DOMAIN Index.artifacts = Producer!MaterialKeys(TheJob)
      /\ \A k \in Producer!MaterialKeys(TheJob) : Index.artifacts[k] = ArtifactPath[k]
      /\ Index.catalog = IF Producer!Exported(TheJob) = {} THEN {} ELSE {CatalogPath}
  BY <1>1 DEF Producer!CreateIndex
<1> QED BY <1>2, <1>3, <1>4

\* Each mapped file holds the bytes of its key.
LEMMA MappedBytes ==
  ASSUME Undisturbed, pc \in FromHandoff, NEW k \in Producer!MaterialKeys(TheJob)
  PROVE  /\ k \in DOMAIN Index.artifacts
         /\ ReadStatus(Index.artifacts[k]) = "ok" /\ Bytes(Index.artifacts[k]) = k[3]
<1>1. <<ArtifactPath[k], k[3]>> \in Producer!CreateFiles(TheJob)
  BY DEF Producer!CreateFiles
<1> QED BY <1>1, FilesRead, Listing

\* Each attestation's file holds its envelope, of a statement that is known.
LEMMA AttestationBytes ==
  ASSUME Undisturbed, pc \in FromHandoff, NEW a \in Producer!ToSet(TheJob.attestations)
  PROVE  /\ a.digest \in Producer!Attested(TheJob)
         /\ ReadStatus(Index.attestations[a.digest]) = "ok"
         /\ Bytes(Index.attestations[a.digest]) = a.envelope
         /\ EnvelopeOf(a.envelope).fault = "none" /\ EnvelopeOf(a.envelope).type = "statement"
         /\ EnvelopeOf(a.envelope).digest = a.digest
         /\ IsFiniteSet(EnvelopeOf(a.envelope).sigs)
         /\ a.digest \in Digest \cap DOMAIN Stmt
<1>1. <<AttestationPath[a.digest], a.envelope>> \in Producer!CreateFiles(TheJob)
  BY DEF Producer!CreateFiles
<1>2. a.digest \in Producer!Attested(TheJob)
  BY AttestedDigests
<1>3. /\ EnvelopeOf(a.envelope).fault = "none" /\ EnvelopeOf(a.envelope).type = "statement"
      /\ EnvelopeOf(a.envelope).digest = a.digest
  BY Origin DEF IsJob
<1>4. /\ ReadStatus(Index.attestations[a.digest]) = "ok"
      /\ Bytes(Index.attestations[a.digest]) = a.envelope /\ a.envelope \in Content
  BY <1>1, <1>2, FilesRead, Listing
<1> QED BY <1>2, <1>3, <1>4, EnvelopeAssumption

\* Every attested digest is of a statement that is known.
LEMMA AttestedStatements ==
  ASSUME Undisturbed, pc \in FromHandoff
  PROVE  Producer!Attested(TheJob) \subseteq Digest \cap DOMAIN Stmt
BY AttestedDigests, AttestationBytes

\* The final artifacts of the manifest are the job's.
AsListed(a) == [head |-> a.head, name |-> a.name, digest |-> a.data, media |-> a.media]

\* None is lost or added when they are put in order.
LEMMA FinalsListed ==
  ASSUME Undisturbed, pc \in FromHandoff
  PROVE  /\ FinalArtifacts = {AsListed(a) : a \in Producer!ToSet(TheJob.finals)}
         /\ DOMAIN Manifest.artifacts = 1..Len(TheJob.finals) /\ Len(TheJob.finals) \in Nat
<1> DEFINE s == TheJob.finals
<1>1. IsList(s)
  BY Origin DEF IsJob
<1>2. \A a \in Producer!ToSet(s) : a.head \in Int /\ a.name \in Int
  BY Origin, FinalsFacts, AttestedStatements, StatementAssumption DEF Producer!Signs
<1> HIDE DEF s
<1>3. /\ DOMAIN Producer!Arranged(s) = 1..Len(s)
      /\ {Producer!Arranged(s)[i] : i \in 1..Len(s)} = Producer!ToSet(s)
  BY <1>1, <1>2, ArrangedKeeps
<1>4. Manifest.artifacts = [i \in DOMAIN Producer!Arranged(s) |-> AsListed(Producer!Arranged(s)[i])]
  BY Origin DEF Producer!CreateHandoff, Producer!Each, AsListed, s
<1>5. DOMAIN Manifest.artifacts = 1..Len(s)
  BY <1>3, <1>4
<1>6. FinalArtifacts = {AsListed(Producer!Arranged(s)[i]) : i \in 1..Len(s)}
  BY <1>3, <1>4, <1>5 DEF FinalArtifacts
<1>7. FinalArtifacts = {AsListed(a) : a \in Producer!ToSet(s)}
  BY <1>3, <1>6
<1> QED BY <1>1, <1>5, <1>7, ListRange DEF s

\* A consumer that trusts the producer, over its untouched bundle.
Agreed == IsCreated /\ in.others.edits = 0 /\ TrustsProducer

\* What the freshness anchors may add.
Tolerated == {Diagnostic(11, c, "freshness-anchors") : c \in FreshnessCodes}

\* If the signed claims hold there is no error before the freshness anchors,
\* captured bytes are of subjects whose bytes the consumer has, and every
\* dataset manifest that was asked for is parsed.
Flawless ==
  /\ errors \subseteq Tolerated
  /\ pc \in FromHandoff \ FromRescan => errors = {}
  /\ DOMAIN have \subseteq Held
  /\ pc \in FromGraph => RequiredDatasets \subseteq indexed

CreatedInv ==
  Agreed =>
    /\ pc \in FromAttestations => handoffOK
    /\ pc \in FromAuthorize =>
         /\ DOMAIN records = Producer!Attested(TheJob)
         /\ \A a \in Producer!ToSet(TheJob.attestations) : records[a.digest] = a.envelope
    /\ pc \in FromDatasets => authorized = Producer!Attested(TheJob)
    /\ \A e \in errors : e.code \notin Malformed
    /\ ClaimsHold => Flawless

\* What each step starts from.
Ground == Undisturbed /\ HaveInv /\ CreatedInv /\ TrustsProducer
-----------------------------------------------------------------------------
(* Steps 2 to 6: signatures and statements. *)

\* Signers that endorse reach the threshold.
LEMMA EndorsedMeets ==
  ASSUME NEW rule, NEW sigs, rule.minimum \in Nat, IsFiniteSet(sigs), Endorsed(rule, sigs)
  PROVE  MeetsThreshold(in.policy, rule, sigs, in.request.time)
<1> DEFINE t == in.request.time
           good == {x \in sigs : /\ Cryptographic(in.policy, x) = "pass"
                                 /\ SignerValidAt(in.policy, x.keyid, t)}
           passing == {s.keyid : s \in good}
<1>1. PICK K \in SUBSET rule.signers :
        /\ Cardinality(K) >= rule.minimum
        /\ \A k \in K : \E s \in sigs :
             /\ s.keyid = k /\ s.good
             /\ IF s.keyless THEN k \in in.policy.identities /\ in.policy.trustRoot
                ELSE /\ k \in DOMAIN in.policy.keys
                     /\ \A b \in in.policy.keys[k].validFrom : in.request.time >= b
                     /\ \A b \in in.policy.keys[k].validUntil : in.request.time < b
  BY DEF Endorsed
<1>2. ASSUME NEW k \in K PROVE k \in passing
  <2>1. PICK s \in sigs :
             /\ s.keyid = k /\ s.good
             /\ IF s.keyless THEN k \in in.policy.identities /\ in.policy.trustRoot
                ELSE /\ k \in DOMAIN in.policy.keys
                     /\ \A b \in in.policy.keys[k].validFrom : in.request.time >= b
                     /\ \A b \in in.policy.keys[k].validUntil : in.request.time < b
    BY <1>1
  <2>2. CASE s.keyless
    <3>1. Cryptographic(in.policy, s) = "pass" /\ SignerValidAt(in.policy, s.keyid, t)
      BY <2>1, <2>2 DEF Cryptographic, KeyKnown, SignerValidAt
    <3> QED BY <2>1, <3>1
  <2>3. CASE ~s.keyless
    <3>1. KeyValidAt(in.policy, k, t)
      BY <2>1, <2>3 DEF KeyValidAt
    <3>2. Cryptographic(in.policy, s) = "pass" /\ SignerValidAt(in.policy, s.keyid, t)
      BY <2>1, <2>3, <3>1 DEF Cryptographic, KeyKnown, SignerValidAt
    <3> QED BY <2>1, <3>2
  <2> QED BY <2>2, <2>3
<1>3. IsFiniteSet(good)
  BY FS_Subset
<1> HIDE DEF good
<1>4. IsFiniteSet(passing)
  <2> DEFINE f == [s \in good |-> s.keyid]
  <2>1. f \in Surjection(good, passing)
    BY DEF Surjection
  <2> QED BY <1>3, <2>1, FS_Surjection
<1>5. IsFiniteSet(passing \cap rule.signers) /\ K \subseteq passing \cap rule.signers
  BY <1>1, <1>2, <1>4, FS_Subset
<1>6. passing = PassingSigners(in.policy, sigs, in.request.time)
  BY DEF PassingSigners, good
<1> HIDE DEF passing
<1>7. IsFiniteSet(K) /\ Cardinality(K) <= Cardinality(passing \cap rule.signers)
  BY <1>5, FS_Subset
<1>8. Cardinality(passing \cap rule.signers) \in Nat /\ Cardinality(K) \in Nat
  BY <1>5, <1>7, FS_CardinalityType
<1>9. Cardinality(passing \cap rule.signers) >= rule.minimum
  BY <1>1, <1>7, <1>8
<1> QED BY <1>6, <1>9 DEF MeetsThreshold

\* A threshold is a number.
LEMMA Minimums ==
  ASSUME EvidenceInv, NEW r \in in.policy.rules \cup {in.policy.handoff}
  PROVE  r.minimum \in Nat
<1>1. PICK s \in Scenarios : in = [policy |-> s.policy, request |-> s.request, others |-> s.others]
  BY DEF EvidenceInv, LoadedInv
<1>2. in.policy = s.policy
  BY <1>1
<1> QED BY <1>2, ScenarioAssumption

\* Step 6 authorizes the handoff.
LEMMA HandoffAgrees ==
  ASSUME Ground
  PROVE  /\ HandoffAuthorized(in.policy, EnvelopeOf(manifest).sigs, in.request.time)
         /\ SignaturesHold => SignatureDiagnostics(EnvelopeOf(manifest).sigs) = {}
<1>1. manifest \in Content
  BY DEF Ground, Undisturbed, IsCreated, EvidenceInv, TypeOK
<1>2. IsFiniteSet(EnvelopeOf(manifest).sigs)
  BY <1>1, EnvelopeAssumption DEF Ground, Undisturbed, IsCreated, EvidenceInv, LoadedInv
<1>3. in.policy.handoff.minimum \in Nat
  BY Minimums DEF Ground, Undisturbed
<1>4. HandoffAuthorized(in.policy, EnvelopeOf(manifest).sigs, in.request.time)
  BY <1>2, <1>3, EndorsedMeets DEF HandoffAuthorized, Ground, TrustsProducer
<1>5. ASSUME SignaturesHold PROVE SignatureDiagnostics(EnvelopeOf(manifest).sigs) = {}
  BY <1>5 DEF SignaturesHold, SignatureDiagnostics
<1> QED BY <1>4, <1>5

\* Steps 2 to 4 load every attestation.
LEMMA AttestationsAgree ==
  ASSUME Ground, pc = "attestations"
  PROVE  Loaded = Producer!Attested(TheJob) /\ AttestationDiagnostics = {}
<1>1. pc \in FromHandoff
  BY DEF FromHandoff, FromAttestations
<1>2. DOMAIN Index.attestations = Producer!Attested(TheJob)
  BY Listing DEF Ground
<1>3. ASSUME NEW d \in Producer!Attested(TheJob) PROVE d \in Loaded
  <2>1. PICK a \in Producer!ToSet(TheJob.attestations) : d = a.digest
    BY AttestedDigests
  <2>2. LoadFault(Index.attestations[d], "statement") = {}
    BY <1>1, <2>1, AttestationBytes DEF LoadFault, Ground
  <2>3. EnvelopeOf(Bytes(Index.attestations[d])).digest = d
    BY <1>1, <2>1, AttestationBytes DEF Ground
  <2> QED BY <1>2, <2>2, <2>3 DEF Loaded
<1>4. Loaded = Producer!Attested(TheJob)
  BY <1>2, <1>3 DEF Loaded
<1> QED BY <1>2, <1>4 DEF AttestationDiagnostics

\* The rule that the consumer trusts the signers of a statement with.
LEMMA StatementsAgree ==
  ASSUME Ground, pc \in FromAuthorize, NEW d \in Producer!Attested(TheJob)
  PROVE  /\ d \in DOMAIN records
         /\ \E r \in Candidates(d) : r.constraints = {}
         /\ SignaturesHold => SignatureDiagnostics(Sigs(d)) = {}
<1>1. pc \in FromHandoff
  BY DEF FromHandoff, FromAttestations
<1>2. PICK a \in Producer!ToSet(TheJob.attestations) : d = a.digest
  BY AttestedDigests
<1>3. d \in DOMAIN records /\ records[d] = a.envelope
  BY <1>2 DEF Ground, Undisturbed, CreatedInv, Agreed
<1>4. PICK r \in in.policy.rules :
        r.constraints = {} /\ RuleMatches(r, Stmt[d]) /\ Endorsed(r, EnvelopeOf(a.envelope).sigs)
  BY <1>2 DEF Ground, TrustsProducer
<1>5. IsFiniteSet(EnvelopeOf(a.envelope).sigs)
  BY <1>1, AttestationBytes DEF Ground
<1>6. r.minimum \in Nat
  BY Minimums DEF Ground, Undisturbed
<1>7. MeetsThreshold(in.policy, r, EnvelopeOf(a.envelope).sigs, in.request.time)
  BY <1>4, <1>5, <1>6, EndorsedMeets
<1>8. r \in Candidates(d)
  BY <1>3, <1>4, <1>7 DEF Candidates, CandidateRules, Sigs
<1>9. ASSUME SignaturesHold PROVE SignatureDiagnostics(Sigs(d)) = {}
  BY <1>2, <1>3, <1>9 DEF SignaturesHold, SignatureDiagnostics, Sigs
<1> QED BY <1>3, <1>4, <1>8, <1>9
-----------------------------------------------------------------------------
(* Step 7: the schemas of profiles. *)

\* The bundle's catalog has what the job exported.
LEMMA Resolvable ==
  ASSUME Ground, NEW p
  PROVE  Resolution(p) = IF IsResolvable(p) THEN "resolved" ELSE "unresolved"
<1> DEFINE exported == Producer!Exported(TheJob)
<1>1. Index.catalog = IF exported = {} THEN {} ELSE {CatalogPath}
  BY Listing DEF Ground
<1>2. exported # {} =>
        /\ disk[CatalogPath].kind = "file"
        /\ CatalogOf(disk[CatalogPath].bytes).fault = "none"
        /\ CatalogOf(disk[CatalogPath].bytes).pins = {r[2] : r \in exported}
  BY Origin DEF Published, Ground
<1> HIDE DEF exported
<1>3. CatalogFault = "none"
  BY <1>1, <1>2 DEF CatalogFault, Bytes
<1>4. CatalogPins = in.request.catalogs \cup {r[2] : r \in exported}
  <2>1. CASE exported = {}
    BY <1>1, <2>1 DEF CatalogPins
  <2>2. CASE exported # {}
    BY <1>1, <1>2, <2>2 DEF CatalogPins, Bytes
  <2> QED BY <2>1, <2>2
<1>5. CASE p.id \in {DatasetId, LicenseProfile.id}
  BY <1>5 DEF Resolution, IsResolvable
<1>6. CASE p.id \notin {DatasetId, LicenseProfile.id}
  BY <1>3, <1>4, <1>6 DEF Resolution, IsResolvable, exported
<1> QED BY <1>5, <1>6

\* Step 7 authorizes every statement.
LEMMA MetadataAgree ==
  ASSUME Ground, pc \in FromAuthorize
  PROVE  /\ {d \in DOMAIN records : Authorizing(d) # {}} = Producer!Attested(TheJob)
         /\ {e \in DOMAIN records : Candidates(e) # {} /\ Authorizing(e) = {}} = {}
         /\ MetadataHolds => MetadataDiagnostics = {}
<1>1. DOMAIN records = Producer!Attested(TheJob)
  BY DEF Ground, CreatedInv, Agreed, Undisturbed
<1>2. ASSUME NEW d \in DOMAIN records PROVE Authorizing(d) # {}
  <2>1. PICK r \in Candidates(d) : r.constraints = {}
    BY <1>1, StatementsAgree
  <2> QED BY <2>1 DEF Authorizing, AuthorizingRules
<1>3. Listed = Producer!Attested(TheJob)
  BY <1>1, Listing DEF Listed, Ground
<1>4. ASSUME MetadataHolds PROVE MetadataDiagnostics = {}
  <2> SUFFICES ASSUME NEW d \in Listed, NEW q \in MetadataProfiles(d) \ PassedProfiles(d),
                      Resolution(q) = "unresolved" => q.critical
               PROVE  FALSE
    BY DEF MetadataDiagnostics
  <2>1. IF IsResolvable(q) THEN <<d, q.dig>> \in Admits ELSE ~q.critical
    BY <1>3, <1>4 DEF MetadataHolds
  <2>2. IsResolvable(q)
    BY <2>1, Resolvable
  <2>3. q \in PassedProfiles(d)
    BY <2>1, <2>2, Resolvable DEF PassedProfiles
  <2> QED BY <2>3
<1> QED BY <1>1, <1>2, <1>4
-----------------------------------------------------------------------------
(* After authorization.  Step 8: dataset manifests. *)

\* Once authorization is done: what every later step starts from.
Later == Ground /\ handoffOK /\ authorized = Producer!Attested(TheJob) /\ pc \in FromDatasets

\* Nothing is unauthorized once authorization is done.
LEMMA LaterSteps ==
  ASSUME Ground, pc \in FromDatasets
  PROVE  Later
<1>1. pc \in FromAttestations
  BY DEF FromAttestations, FromAuthorize, FromMetadata
<1> QED BY <1>1 DEF Later, Ground, CreatedInv, Agreed, Undisturbed

\* So the usable statements are the job's lineage.
LEMMA LaterFacts ==
  ASSUME Later
  PROVE  /\ Undisturbed /\ EvidenceInv /\ pc \in FromHandoff /\ pc \in FromManifest
         /\ DOMAIN records = Producer!Attested(TheJob)
         /\ Usable = Producer!Attested(TheJob)
         /\ UsableStmt = Producer!Lineage(TheJob)
<1>1. pc \in FromHandoff /\ pc \in FromManifest /\ pc \in FromAuthorize
  BY DEF Later, FromManifest, FromHandoff, FromAttestations, FromAuthorize, FromMetadata
<1>2. DOMAIN records = Producer!Attested(TheJob)
  BY <1>1 DEF Later, Ground, CreatedInv, Agreed, Undisturbed
<1>3. Usable = Producer!Attested(TheJob)
  BY <1>2, Listing DEF Later, Ground, Usable, Listed
<1>4. UsableStmt = Producer!Lineage(TheJob)
  BY <1>3 DEF UsableStmt, Producer!Lineage
<1> QED BY <1>1, <1>2, <1>3, <1>4 DEF Later, Ground, Undisturbed

\* The bytes of a subject are at hand exactly if it is held; then they are the
\* subject's.
LEMMA HeldBytes ==
  ASSUME Later, NEW k
  PROVE  /\ k \notin Held => MaterialStatus(k) = "no-bytes"
         /\ k \in Held => MaterialStatus(k) = "ok"
         /\ k \in Producer!MaterialKeys(TheJob) => Material(k) = k[3]
         /\ SuppliesFit /\ k \in Held => Material(k) = k[3]
<1>1. DOMAIN Index.artifacts = Producer!MaterialKeys(TheJob)
  BY Listing DEF Later, Ground
<1>2. k \notin Held => MaterialStatus(k) = "no-bytes"
  BY <1>1 DEF Held, MaterialStatus
<1>3. ASSUME k \in Producer!MaterialKeys(TheJob)
      PROVE  MaterialStatus(k) = "ok" /\ Material(k) = k[3]
  <2>1. k \in DOMAIN Index.artifacts /\ ReadStatus(Index.artifacts[k]) = "ok"
        /\ Bytes(Index.artifacts[k]) = k[3]
    BY <1>3, MappedBytes, LaterFacts
  <2>2. MaterialStatus(k) = "ok"
    BY <2>1 DEF MaterialStatus, Later
  <2>3. Material(k) = k[3]
    BY <2>1, MappedMaterial, LaterFacts
  <2> QED BY <2>2, <2>3
<1>4. ASSUME k \in DOMAIN in.request.materials
      PROVE  MaterialStatus(k) = "ok" /\ (SuppliesFit => Material(k) = k[3])
  BY <1>4 DEF MaterialStatus, Later, SuppliesFit, Material
<1> QED BY <1>2, <1>3, <1>4 DEF Held

\* The statements' inputs are the edges of the job's lineage.
LEMMA EdgesOfInputs ==
  ASSUME Later, NEW d \in Producer!Attested(TheJob), NEW i \in Stmt[d].inputs
  PROVE  i \in EdgeInputs(Producer!Lineage(TheJob), d)
<1>1. d \in DOMAIN Stmt
  BY AttestedStatements, LaterFacts
<1>2. Stmt[d].type # "origin"
  BY <1>1, StatementAssumption
<1>3. /\ DOMAIN Producer!Lineage(TheJob) = Producer!Attested(TheJob)
      /\ Producer!Lineage(TheJob)[d] = Stmt[d] /\ Mixed(Producer!Lineage(TheJob)) = {}
  BY LineageFacts, Origin, LaterFacts
<1> QED BY <1>2, <1>3 DEF EdgeInputs

\* A dataset manifest that an input or a member in the bundle needs is in the
\* bundle.
LEMMA NeededDatasets ==
  ASSUME Later, NEW k \in RequiredDatasets
  PROVE  \/ /\ k \in Producer!MaterialKeys(TheJob)
            /\ DatasetProfile(k[2]) \in ArtifactProfiles(k[1], k[2])
         \/ \E m \in DOMAIN in.request.entries : k \in SubjectKey(m[1], m[2])
<1>0. IsJob(TheJob) /\ Producer!Accepts(TheJob)
  BY Origin, LaterFacts
<1>1. ASSUME NEW m \in Producer!ToSet(TheJob.datasets), k \in SubjectKey(m.statement, m.name)
      PROVE  /\ k \in Producer!MaterialKeys(TheJob)
             /\ DatasetProfile(k[2]) \in ArtifactProfiles(k[1], k[2])
  <2>1. k = <<m.statement, m.name, Stmt[m.statement].subjects[m.name]>>
    BY <1>1 DEF SubjectKey
  <2>2. /\ Producer!Signs(m.statement, m.name, m.data)
        /\ DatasetProfile(m.name) \in Stmt[m.statement].profiles
        /\ <<m.statement, m.name, m.data>> \in Producer!MaterialKeys(TheJob)
    BY <1>0, DatasetFacts
  <2>3. DatasetProfile(m.name) \in ArtifactProfiles(m.statement, m.name)
    BY <2>2 DEF ArtifactProfiles, DatasetProfile
  <2> QED BY <2>1, <2>2, <2>3 DEF Producer!Signs
<1>2. ASSUME NEW i \in EntryEdges, k \in SubjectKey(i.pred, i.subject)
      PROVE  \E m \in Producer!ToSet(TheJob.datasets) : k \in SubjectKey(m.statement, m.name)
  <2>1. PICK d \in authorized : i \in Stmt[d].inputs
    BY DEF EntryEdges
  <2>2. d \in Producer!Attested(TheJob) /\ i \in EdgeInputs(Producer!Lineage(TheJob), d)
    BY <2>1, EdgesOfInputs DEF Later
  <2>3. i.entry # NoEntry
    BY DEF EntryEdges
  <2>4. \E m \in Producer!ToSet(TheJob.datasets) : m.statement = i.pred /\ m.name = i.subject
    BY <1>0, <2>2, <2>3, InputFacts
  <2> QED BY <1>2, <2>4
<1>3. ASSUME NEW m \in DOMAIN Index.entries, k \in SubjectKey(m[1], m[2])
      PROVE  \E x \in Producer!ToSet(TheJob.datasets) : k \in SubjectKey(x.statement, x.name)
  <2>1. DOMAIN Index.entries = {Producer!EntryId(x) : x \in Producer!ToSet(TheJob.entries)}
    BY Origin, LaterFacts DEF Producer!CreateIndex
  <2>2. PICK x \in Producer!ToSet(TheJob.entries) : m = <<x.statement, x.name, x.entry>>
    BY <2>1 DEF Producer!EntryId
  <2>3. \E y \in Producer!ToSet(TheJob.datasets) : y.statement = x.statement /\ y.name = x.name
    BY <1>0, EntryFacts
  <2> QED BY <1>3, <2>2, <2>3
<1>4. \/ \E i \in EntryEdges : k \in SubjectKey(i.pred, i.subject)
      \/ \E m \in DOMAIN in.request.entries \cup DOMAIN Index.entries : k \in SubjectKey(m[1], m[2])
  BY DEF RequiredDatasets
<1> QED BY <1>1, <1>2, <1>3, <1>4

\* No subject the consumer holds has two media types.
LEMMA OneMedia ==
  ASSUME Later, ContentHolds, NEW k, k \in Held, IsKey(k), IsExactSubject(k, authorized)
  PROVE  ~Conflicting(k)
<1>0. IsJob(TheJob) /\ Producer!Accepts(TheJob)
  BY Origin, LaterFacts
<1> DEFINE declared == Producer!DeclaredMedia(k[1], k[2])
<1>1. Producer!AtMostOne(declared)
  <2>1. /\ k[1] \in Producer!Attested(TheJob) /\ k[2] \in DOMAIN Stmt[k[1]].subjects
        /\ k = <<k[1], k[2], Stmt[k[1]].subjects[k[2]]>>
    BY DEF IsKey, IsExactSubject, Later
  <2> QED BY <2>1 DEF ContentHolds
<1>2. {p.media : p \in ArtifactProfiles(k[1], k[2])} = declared
  BY DEF ArtifactProfiles, Producer!DeclaredMedia
<1>3. \A b \in FinalArtifacts : FinalKey(b) = k =>
        \E a \in Producer!ToSet(TheJob.finals) :
          Producer!FinalId(a) = k /\ b = AsListed(a) /\ a.head = k[1] /\ a.name = k[2] /\ b.media = a.media
  BY FinalsListed, LaterFacts DEF FinalKey, Producer!FinalId, AsListed
<1> HIDE DEF declared
<1>4. SUFFICES ASSUME NEW m \in MediaTypes(k), NEW n \in MediaTypes(k), m # n PROVE FALSE
  BY DEF Conflicting
<1>5. ASSUME NEW x \in MediaTypes(k)
      PROVE  x \in declared \/ \E b \in FinalArtifacts : FinalKey(b) = k /\ x \in b.media
  BY <1>2 DEF MediaTypes
<1>6. CASE \E b \in FinalArtifacts : FinalKey(b) = k
  <2>1. PICK a \in Producer!ToSet(TheJob.finals) :
          Producer!FinalId(a) = k /\ a.head = k[1] /\ a.name = k[2]
    BY <1>3, <1>6
  <2>2. /\ Producer!AtMostOne(Producer!DeclaredMedia(a.head, a.name) \cup a.media)
        /\ \A c \in Producer!ToSet(TheJob.finals) : Producer!FinalId(c) = Producer!FinalId(a) => c = a
    BY <1>0, FinalsFacts
  <2>3. \A b \in FinalArtifacts : FinalKey(b) = k => b.media = a.media
    BY <1>3, <2>1, <2>2
  <2>4. m \in declared \cup a.media /\ n \in declared \cup a.media
    BY <1>5, <2>3
  <2> QED BY <1>4, <2>1, <2>2, <2>4 DEF Producer!AtMostOne, declared
<1>7. CASE ~\E b \in FinalArtifacts : FinalKey(b) = k
  BY <1>1, <1>4, <1>5, <1>7 DEF Producer!AtMostOne
<1> QED BY <1>6, <1>7

\* The outcomes of a candidate of Step 8.
LEMMA StageNames ==
  ASSUME EvidenceInv, NEW k \in DatasetCandidates, ~DatasetRaises(k)
  PROVE  DatasetStage(k) \in {"profile", "parse", "schema", "semantic", "no-bytes", "absent", "changed",
                             "oserror", "digest", "media", "none"}
<1>1. MaterialStatus(k) \in {"no-bytes", "ok", "absent", "changed", "oserror"}
  BY DEF MaterialStatus, ReadStatus
<1>2. DatasetOf[k[3]].fault \in {"none", "parse", "version", "schema", "semantic"}
  BY CandidateFault DEF EvidenceInv
<1> QED BY <1>1, <1>2 DEF DatasetStage, DatasetRaises

\* Step 8 finds every dataset manifest that a lineage needs.
LEMMA DatasetsFound ==
  ASSUME Later, ~DatasetUnreadable, NEW c \in UNION {DatasetCode(k) : k \in DatasetCandidates}
  PROVE  c \notin Malformed
<1>1. PICK k \in DatasetCandidates : c \in DatasetCode(k)
  OBVIOUS
<1>2. c \in {"E_DATASET_MANIFEST_INVALID", "E_DATASET_MANIFEST_REQUIRED", "E_BUNDLE_UNSAFE_PATH",
             "E_ARTIFACT_DIGEST", "E_PROFILE_INVALID"}
  <2> DEFINE stage == DatasetStage(k)
  <2>1. stage \in {"profile", "parse", "schema", "semantic", "no-bytes", "absent", "changed",
                   "oserror", "digest", "media", "none"}
    BY StageNames, LaterFacts DEF DatasetUnreadable
  <2> HIDE DEF stage
  <2> QED BY <1>1, <2>1 DEF DatasetCode, stage
<1>3. ASSUME c = "E_DATASET_MANIFEST_REQUIRED", DOMAIN in.request.entries = {} PROVE FALSE
  <2>1. k \in RequiredDatasets /\ DatasetStage(k) \in {"no-bytes", "absent"}
    <3> DEFINE stage == DatasetStage(k)
    <3>1. stage \in {"profile", "parse", "schema", "semantic", "no-bytes", "absent", "changed",
                     "oserror", "digest", "media", "none"}
      BY StageNames, LaterFacts DEF DatasetUnreadable
    <3> HIDE DEF stage
    <3> QED BY <1>1, <1>3, <3>1 DEF DatasetCode, stage
  <2>2. k \in Producer!MaterialKeys(TheJob) /\ DatasetProfile(k[2]) \in ArtifactProfiles(k[1], k[2])
    BY <1>3, <2>1, NeededDatasets
  <2>3. MaterialStatus(k) = "ok" /\ Material(k) = k[3]
    BY <2>2, HeldBytes DEF Held
  <2>4. DatasetOf[k[3]].fault \in {"none", "parse", "version", "schema", "semantic"}
    BY CandidateFault, LaterFacts DEF EvidenceInv
  <2> QED BY <2>1, <2>2, <2>3, <2>4 DEF DatasetStage
<1> QED BY <1>2, <1>3 DEF Malformed

\* Under the claims, the dataset manifest of a candidate goes all the way.
LEMMA DatasetsAgree ==
  ASSUME Later, ClaimsHold, NEW k \in DatasetCandidates
  PROVE  k \in Held /\ DatasetStage(k) = "none"
<1>1. /\ IsKey(k) /\ IsExactSubject(k, authorized) /\ k[1] \in Producer!Attested(TheJob)
      /\ k[2] \in DOMAIN Stmt[k[1]].subjects /\ k = <<k[1], k[2], Stmt[k[1]].subjects[k[2]]>>
  BY CandidateFacts DEF IsKey, IsExactSubject, Later
<1>2. ContentHolds /\ SuppliesFit /\ MediaHolds
  BY DEF ClaimsHold
<1> DEFINE profile == DatasetProfile(k[2])
<1>3. profile \in ArtifactProfiles(k[1], k[2])
  <2>0. ASSUME NEW d, NEW n, k \in SubjectKey(d, n), DatasetProfile(n) \in Stmt[d].profiles
        PROVE  profile \in ArtifactProfiles(k[1], k[2])
    <3>1. k[1] = d /\ k[2] = n
      BY <2>0 DEF SubjectKey
    <3> QED BY <2>0, <3>1 DEF ArtifactProfiles, DatasetProfile
  <2>1. CASE k \in RequiredDatasets
    <3>1. CASE \E m \in DOMAIN in.request.entries : k \in SubjectKey(m[1], m[2])
      BY <1>2, <2>0, <3>1 DEF SuppliesFit
    <3> QED BY <2>1, <3>1, NeededDatasets
  <2>2. CASE \E d \in authorized : \E p \in Stmt[d].profiles :
               p.target = "artifact" /\ p.id = DatasetId /\ k \in SubjectKey(d, p.subject)
    <3>0. PICK d \in authorized : \E p \in Stmt[d].profiles :
            p.target = "artifact" /\ p.id = DatasetId /\ k \in SubjectKey(d, p.subject)
      BY <2>2
    <3>1. PICK p \in Stmt[d].profiles :
            p.target = "artifact" /\ p.id = DatasetId /\ k \in SubjectKey(d, p.subject)
      BY <3>0
    <3>2. k[1] = d /\ k[2] = p.subject
      BY <3>1 DEF SubjectKey
    <3>3. p \in ArtifactProfiles(k[1], k[2])
      BY <3>1, <3>2 DEF ArtifactProfiles
    <3>4. p = profile
      BY <1>1, <1>2, <3>1, <3>3 DEF ContentHolds
    <3> QED BY <3>3, <3>4
  <2>3. CASE \E a \in FinalArtifacts : a.media = {DatasetMedia} /\ k \in SubjectKey(a.head, a.name)
    <3>1. PICK b \in FinalArtifacts : b.media = {DatasetMedia} /\ k \in SubjectKey(b.head, b.name)
      BY <2>3
    <3>2. PICK a \in Producer!ToSet(TheJob.finals) : b = AsListed(a)
      BY FinalsListed, LaterFacts
    <3>3. DatasetProfile(a.name) \in Stmt[a.head].profiles
      BY <1>2, <3>1, <3>2 DEF MediaHolds, AsListed
    <3> QED BY <2>0, <3>1, <3>2, <3>3 DEF AsListed
  <2> QED BY <2>1, <2>2, <2>3 DEF DatasetCandidates
<1>4. profile.critical /\ profile.id = DatasetId
  BY DEF DatasetProfile
<1> HIDE DEF profile
<1>5. k \in Held
  BY <1>1, <1>2, <1>3, <1>4 DEF ContentHolds
<1>6. DatasetOf[k[3]].fault = "none"
  <2>1. DatasetOf[Stmt[k[1]].subjects[k[2]]].fault = "none"
    BY <1>1, <1>2, <1>3, <1>4, <1>5 DEF ContentHolds
  <2> QED BY <1>1, <2>1 DEF IsExactSubject
<1>7. MaterialStatus(k) = "ok" /\ Material(k) = k[3]
  BY <1>2, <1>5, HeldBytes
<1>8. ~Conflicting(k)
  BY <1>1, <1>2, <1>5, OneMedia
<1> QED BY <1>3, <1>5, <1>6, <1>7, <1>8 DEF DatasetStage, profile
-----------------------------------------------------------------------------
(* Steps 9 to 11: the lineage. *)

\* A membership is what the parsed manifest says of the member.
LEMMA MemberDigest ==
  ASSUME EvidenceInv, NEW d, NEW n, NEW e, <<d, n, e>> \in DOMAIN Memberships
  PROVE  \E y : DatasetOf[Stmt[d].subjects[n]].members[e].digest = y /\ y = Memberships[<<d, n, e>>]
BY MembershipFacts

\* An edge of the job's lineage is intact, as far as its manifest was parsed.
LEMMA EdgeAgrees ==
  ASSUME Later, NEW d \in Producer!Attested(TheJob), NEW i \in EdgeInputs(UsableStmt, d)
  PROVE  EdgeProblem(UsableStmt, Memberships, {<<k[1], k[2]>> : k \in indexed}, i)
           \subseteq {"E_DATASET_MANIFEST_REQUIRED"}
<1>0. /\ EvidenceInv /\ IsJob(TheJob) /\ Producer!Accepts(TheJob)
      /\ DOMAIN UsableStmt = Producer!Attested(TheJob)
      /\ \A e \in DOMAIN UsableStmt : UsableStmt[e] = Stmt[e]
      /\ i \in EdgeInputs(Producer!Lineage(TheJob), d)
  BY Origin, LaterFacts, UsableFacts
<1> DEFINE bytes == Stmt[i.pred].subjects[i.subject]
           member == <<i.pred, i.subject, i.entry>>
<1>1. /\ i.pred \in Producer!Attested(TheJob) /\ i.subject \in DOMAIN Stmt[i.pred].subjects
      /\ i.entry = NoEntry => Stmt[i.pred].subjects[i.subject] = i.digest
      /\ i.entry # NoEntry => i.entry \in DOMAIN DatasetOf[bytes].members
                              /\ DatasetOf[bytes].members[i.entry].digest = i.digest
  BY <1>0, InputFacts
<1>2. CASE i.entry = NoEntry
  BY <1>0, <1>1, <1>2 DEF EdgeProblem, NamesSubject
<1>3. CASE i.entry # NoEntry /\ member \in DOMAIN Memberships
  <2>1. EvidenceInv /\ <<i.pred, i.subject, i.entry>> \in DOMAIN Memberships
    BY <1>0, <1>3
  <2>2. PICK y : DatasetOf[Stmt[i.pred].subjects[i.subject]].members[i.entry].digest = y
                 /\ Memberships[<<i.pred, i.subject, i.entry>>] = y
    BY <2>1, MemberDigest
  <2>3. Memberships[member] = i.digest
    BY <1>1, <1>3, <2>2
  <2> QED BY <1>0, <1>1, <1>3, <2>3 DEF EdgeProblem, NamesSubject
<1>4. CASE i.entry # NoEntry /\ member \notin DOMAIN Memberships
  <2>1. <<i.pred, i.subject>> \notin {<<k[1], k[2]>> : k \in indexed}
    <3> SUFFICES ASSUME NEW k \in indexed, k[1] = i.pred, k[2] = i.subject PROVE FALSE
      OBVIOUS
    <3>1. have[k] = bytes
      BY <1>0 DEF EvidenceInv, CapturedInv, IsExactSubject
    <3>2. member \in {<<k[1], k[2], e>> : e \in DOMAIN DatasetOf[have[k]].members}
      BY <1>1, <1>4, <3>1
    <3>3. member \in DOMAIN Memberships
      BY <3>2 DEF Memberships
    <3> QED BY <1>4, <3>3
  <2> QED BY <1>0, <1>1, <1>4, <2>1 DEF EdgeProblem, NamesSubject
<1> QED BY <1>2, <1>3, <1>4

\* Step 9 finds no problem in the job's lineage.
LEMMA GraphAgrees ==
  ASSUME Later
  PROVE  GraphProblems \ {"E_DATASET_MANIFEST_REQUIRED"} = {}
<1> DEFINE verified == {<<k[1], k[2]>> : k \in indexed}
<1>1. DOMAIN UsableStmt = Producer!Attested(TheJob)
  BY LaterFacts, UsableFacts
<1>2. \A d \in DOMAIN UsableStmt : \A i \in EdgeInputs(UsableStmt, d) :
        EdgeProblem(UsableStmt, Memberships, verified, i) \subseteq {"E_DATASET_MANIFEST_REQUIRED"}
  BY <1>1, EdgeAgrees
<1>3. /\ DuplicateEvents(UsableStmt) = {} /\ Mixed(UsableStmt) = {}
      /\ Acyclic(Predecessors(UsableStmt))
      /\ \A r \in Roots(UsableStmt) : UsableStmt[r].type = "origin"
  BY LineageFacts, Origin, LaterFacts
<1>4. GraphProblems = ProblemCodes(UsableStmt, Memberships, verified)
  BY DEF GraphProblems
<1> HIDE DEF verified
<1> QED BY <1>2, <1>3, <1>4 DEF ProblemCodes

\* A final artifact's key, as the bundle maps it.
LEMMA FinalMaterial ==
  ASSUME Later, NEW b \in FinalArtifacts
  PROVE  Eligible(b) /\ FinalKey(b) \in Producer!MaterialKeys(TheJob)
<1>0. IsJob(TheJob) /\ Producer!Accepts(TheJob)
  BY Origin, LaterFacts
<1>1. PICK a \in Producer!ToSet(TheJob.finals) : b = AsListed(a)
  BY FinalsListed, LaterFacts
<1>2. FinalKey(b) = Producer!FinalId(a)
  BY <1>1 DEF FinalKey, Producer!FinalId, AsListed
<1>3. /\ a.head \in Producer!Attested(TheJob) /\ Producer!Signs(a.head, a.name, a.data)
      /\ Producer!FinalId(a) \notin ConsumedSubjects(Producer!Lineage(TheJob))
  BY <1>0, FinalsFacts
<1>4. Eligible(b)
  BY <1>1, <1>2, <1>3, LaterFacts DEF Eligible, AsListed, Producer!Signs
<1>5. FinalKey(b) \in Producer!MaterialKeys(TheJob)
  BY <1>2 DEF Producer!MaterialKeys
<1> QED BY <1>4, <1>5

\* Step 11 finds the statement, root and head sets of the handoff.
LEMMA CompletenessAgrees ==
  ASSUME Later
  PROVE  SetsAgree
<1>1. DOMAIN records = Manifest.statements
  BY Listing, LaterFacts
<1>2. Manifest.heads = {a.head : a \in Producer!ToSet(TheJob.finals)}
  BY Listing, LaterFacts
<1>3. {a.head : a \in FinalArtifacts} = Manifest.heads
  <2>1. \A a \in Producer!ToSet(TheJob.finals) : AsListed(a).head = a.head
    BY DEF AsListed
  <2>2. FinalArtifacts = {AsListed(a) : a \in Producer!ToSet(TheJob.finals)}
    BY FinalsListed, LaterFacts
  <2> QED BY <1>2, <2>1, <2>2
<1>4. Reachable = Manifest.statements
  <2>1. Manifest.heads \cap Usable = Manifest.heads
    BY <1>2, HeadsFacts, Origin, LaterFacts
  <2>2. Reached(Predecessors(Producer!Lineage(TheJob)), Manifest.heads) = Producer!Attested(TheJob)
    BY <1>2, HeadsFacts, Origin, LaterFacts
  <2> QED BY <2>1, <2>2, Listing, LaterFacts DEF Reachable
<1>5. Roots(UsableStmt) = Manifest.roots
  BY Listing, LaterFacts
<1> QED BY <1>1, <1>3, <1>4, <1>5 DEF SetsAgree
-----------------------------------------------------------------------------
(* Step 12: exact bytes. *)

\* Step 12 finds the bytes of every final artifact.
LEMMA FinalsAgree ==
  ASSUME Later, NEW b \in FinalArtifacts
  PROVE  /\ Eligible(b) /\ FinalMapped(FinalKey(b)) /\ FinalKey(b) \in Held
         /\ BytesCode(FinalKey(b), Index.artifacts[FinalKey(b)]) = {}
         /\ FinalPasses(FinalKey(b))
<1>1. Eligible(b) /\ FinalKey(b) \in Producer!MaterialKeys(TheJob)
  BY FinalMaterial
<1>2. FinalMapped(FinalKey(b)) /\ BytesCode(FinalKey(b), Index.artifacts[FinalKey(b)]) = {}
  BY <1>1, MappedBytes, LaterFacts DEF FinalMapped, BytesCode, ReadCode
<1> QED BY <1>1, <1>2 DEF FinalPasses, Held

\* It finds those of every historical artifact that it has to find.
LEMMA HistoricalAgrees ==
  ASSUME Later, ClaimsHold, NEW k \in HistoricalKeys
  PROVE  /\ IsExactSubject(k, Usable) /\ HistoricalCode(k) = {}
         /\ MaterialStatus(k) # "no-bytes" => k \in Held
<1>0. IsJob(TheJob) /\ Producer!Accepts(TheJob)
  BY Origin, LaterFacts
<1>1. ContentHolds /\ SuppliesFit
  BY DEF ClaimsHold
<1>2. IsKey(k) /\ IsExactSubject(k, Usable)
  <2>1. CASE k \in DOMAIN Index.artifacts
    <3>1. k \in Producer!MaterialKeys(TheJob)
      BY <2>1, Listing, LaterFacts
    <3>2. /\ k = <<k[1], k[2], k[3]>>
          /\ k[1] \in Producer!Attested(TheJob) /\ Producer!Signs(k[1], k[2], k[3])
      BY <1>0, <3>1, MaterialFacts
    <3> QED BY <3>2, LaterFacts DEF IsKey, IsExactSubject, Producer!Signs
  <2>2. CASE k \in DOMAIN in.request.materials
    <3>1. PICK s \in Scenarios : in = [policy |-> s.policy, request |-> s.request, others |-> s.others]
      BY LaterFacts DEF EvidenceInv, LoadedInv
    <3>2. in.request = s.request
      BY <3>1
    <3>3. IsKey(k)
      BY <2>2, <3>2, KeyAssumption
    <3>4. k[1] \in Producer!Attested(TheJob) /\ Producer!Signs(k[1], k[2], k[3])
      BY <1>1, <2>2 DEF SuppliesFit
    <3> QED BY <3>3, <3>4, LaterFacts DEF IsExactSubject, Producer!Signs
  <2>3. CASE k \in ProfileTargets
    <3>1. \E d, n : d \in Usable /\ k \in SubjectKey(d, n)
      BY <2>3 DEF ProfileTargets
    <3> QED BY <3>1 DEF SubjectKey, IsExactSubject, IsKey
  <2> QED BY <2>1, <2>2, <2>3 DEF HistoricalKeys
<1>3. CASE k \in Held
  <2>1. MaterialStatus(k) = "ok" /\ Material(k) = k[3]
    BY <1>1, <1>3, HeldBytes
  <2>2. k \in DOMAIN Index.artifacts => BytesCode(k, Index.artifacts[k]) = {}
    BY MappedBytes, Listing, LaterFacts DEF BytesCode, ReadCode
  <2> QED BY <1>2, <1>3, <2>1, <2>2 DEF HistoricalCode
<1>4. CASE k \notin Held
  <2>1. MaterialStatus(k) = "no-bytes"
    BY <1>4, HeldBytes
  <2>2. /\ k[1] \in Producer!Attested(TheJob) /\ k[2] \in DOMAIN Stmt[k[1]].subjects
        /\ k = <<k[1], k[2], Stmt[k[1]].subjects[k[2]]>>
    BY <1>2, LaterFacts DEF IsKey, IsExactSubject
  <2>3. \A p \in ArtifactProfiles(k[1], k[2]) : ~p.critical
    BY <1>1, <1>4, <2>2 DEF ContentHolds
  <2> QED BY <1>2, <2>1, <2>3 DEF HistoricalCode
<1> QED BY <1>2, <1>3, <1>4

\* A member whose dataset manifest was parsed.
LEMMA ParsedMember ==
  ASSUME Later, NEW m, IsKey(m), IsIndexed(m), m[3] \in DOMAIN DatasetOf[Stmt[m[1]].subjects[m[2]]].members
  PROVE  m \in DOMAIN Memberships /\ Member(m) = DatasetOf[Stmt[m[1]].subjects[m[2]]].members[m[3]]
<1>1. PICK k \in indexed : k[1] = m[1] /\ k[2] = m[2]
  BY DEF IsIndexed
<1>2. k = <<m[1], m[2], Stmt[m[1]].subjects[m[2]]>> /\ have[k] = Stmt[m[1]].subjects[m[2]]
  BY <1>1, LaterFacts DEF EvidenceInv, CapturedInv, IsExactSubject
<1>3. m \in {<<k[1], k[2], e>> : e \in DOMAIN DatasetOf[have[k]].members}
  BY <1>1, <1>2 DEF IsKey
<1>4. m \in DOMAIN Memberships
  BY <1>3 DEF Memberships
<1>5. Member(m) = DatasetOf[Stmt[m[1]].subjects[m[2]]].members[m[3]]
  BY <1>2 DEF Member
<1> QED BY <1>4, <1>5

\* What a member is supplied with is what its dataset manifest says.
LEMMA EntryAgrees ==
  ASSUME Later, ClaimsHold, NEW m \in EntryMembers, IsIndexed(m), Supplied(m)
  PROVE  EntryCode(m) = {}
<1>0. IsJob(TheJob) /\ Producer!Accepts(TheJob) /\ ~Collision(Index)
  BY Origin, LaterFacts DEF EvidenceInv, LoadedInv
<1> DEFINE member == DatasetOf[Stmt[m[1]].subjects[m[2]]].members[m[3]]
<1>1. CASE m \in DOMAIN Index.entries
  <2>0. /\ DOMAIN Index.entries = {Producer!EntryId(y) : y \in Producer!ToSet(TheJob.entries)}
        /\ Index.entries[m] = [path |-> EntryPath[m],
             digest |-> (CHOOSE y \in Producer!ToSet(TheJob.entries) : Producer!EntryId(y) = m).data]
    BY <1>1, Origin, LaterFacts DEF Producer!CreateIndex
  <2>1. PICK x \in Producer!ToSet(TheJob.entries) :
          Producer!EntryId(x) = m /\ Index.entries[m] = [path |-> EntryPath[m], digest |-> x.data]
    <3> DEFINE x == CHOOSE y \in Producer!ToSet(TheJob.entries) : Producer!EntryId(y) = m
    <3>1. \E y \in Producer!ToSet(TheJob.entries) : Producer!EntryId(y) = m
      BY <1>1, <2>0
    <3>2. x \in Producer!ToSet(TheJob.entries) /\ Producer!EntryId(x) = m
      BY <3>1
    <3>3. Index.entries[m] = [path |-> EntryPath[m], digest |-> x.data]
      BY <2>0
    <3> HIDE DEF x
    <3> QED BY <3>2, <3>3
  <2>2. m = <<x.statement, x.name, x.entry>>
    BY <2>1 DEF Producer!EntryId
  <2>3. /\ m[3] \in DOMAIN DatasetOf[Stmt[m[1]].subjects[m[2]]].members
        /\ member.digest = x.data /\ \A z \in member.size : z = SizeOf(x.data)
    BY <1>0, <2>2, EntryFacts
  <2>4. m \in DOMAIN Memberships /\ Member(m) = member
    BY <2>2, <2>3, ParsedMember DEF IsKey
  <2>5. <<EntryPath[m], x.data>> \in Producer!CreateFiles(TheJob)
    BY <2>1 DEF Producer!CreateFiles
  <2>6. ReadStatus(EntryPath[m]) = "ok" /\ Bytes(EntryPath[m]) = x.data
    BY <2>5, FilesRead, LaterFacts
  <2>7. m \notin DOMAIN in.request.entries
    BY <1>0, <1>1 DEF Collision
  <2>8. SuppliedDigest(m) = x.data /\ EntryBytes(m) = x.data
    BY <1>1, <2>1, <2>6, <2>7 DEF SuppliedDigest, EntryBytes
  <2>9. EntryStatus(m) = "ok"
    BY <2>1, <2>6, <2>7 DEF EntryStatus, ReadStatus, IsInventoriedFile
  <2> HIDE DEF member
  <2> QED BY <2>3, <2>4, <2>8, <2>9 DEF EntryCode
<1>2. CASE m \in DOMAIN in.request.entries
  <2>1. IsKey(m)
    <3>1. PICK s \in Scenarios : in = [policy |-> s.policy, request |-> s.request, others |-> s.others]
      BY LaterFacts DEF EvidenceInv, LoadedInv
    <3>2. in.request = s.request
      BY <3>1
    <3> QED BY <1>2, <3>2, KeyAssumption
  <2> DEFINE supply == in.request.entries[m]
  <2>2. /\ m[3] \in DOMAIN DatasetOf[Stmt[m[1]].subjects[m[2]]].members
        /\ {supply.digest, supply.bytes} = {member.digest}
        /\ \A z \in member.size : z = SizeOf(supply.bytes)
    BY <1>2 DEF ClaimsHold, SuppliesFit
  <2>3. m \in DOMAIN Memberships /\ Member(m) = member
    BY <2>1, <2>2, ParsedMember
  <2>4. m \notin DOMAIN Index.entries
    BY <1>0, <1>2 DEF Collision
  <2>5. SuppliedDigest(m) = supply.digest /\ EntryBytes(m) = supply.bytes /\ EntryStatus(m) = "ok"
    BY <1>2, <2>4 DEF SuppliedDigest, EntryBytes, EntryStatus
  <2>6. supply.digest = member.digest /\ supply.bytes = member.digest
    BY <2>2
  <2> HIDE DEF member, supply
  <2> QED BY <2>2, <2>3, <2>5, <2>6 DEF EntryCode
<1> QED BY <1>1, <1>2 DEF Supplied

\* Nobody supplies a member without the manifest that lists it.
LEMMA EntriesIndexed ==
  ASSUME Later, ClaimsHold, RequiredDatasets \subseteq indexed, NEW m \in DOMAIN in.request.entries
  PROVE  IsIndexed(m)
<1>1. m[1] \in authorized /\ m[2] \in DOMAIN Stmt[m[1]].subjects
  BY DEF ClaimsHold, SuppliesFit, Later
<1>2. <<m[1], m[2], Stmt[m[1]].subjects[m[2]]>> \in RequiredDatasets
  BY <1>1 DEF RequiredDatasets, SubjectKey, Later
<1>3. <<m[1], m[2], Stmt[m[1]].subjects[m[2]]>> \in indexed
  BY <1>2
<1> QED BY <1>3 DEF IsIndexed

\* What may be wrong with a member is not the mark of a malformed bundle.
LEMMA EntryCodes ==
  ASSUME NEW m
  PROVE  EntryCode(m) \subseteq {"E_DATASET_MANIFEST_INVALID", "E_ARTIFACT_MISSING", "E_BUNDLE_UNSAFE_PATH",
                                 "E_ARTIFACT_DIGEST", "E_ARTIFACT_SIZE"}
BY DEF EntryCode
-----------------------------------------------------------------------------
(* Step 13: content profiles, and the freshness anchors. *)

\* Step 13 finds that captured bytes conform, if the signed claims hold.
LEMMA ProfilesAgree ==
  ASSUME Later, ClaimsHold, NEW k \in DOMAIN have, k \in Held
  PROVE  /\ ~Conflicting(k)
         /\ \A p \in ArtifactProfiles(k[1], k[2]) : ProfileCode(k, p) = {}
<1>1. IsKey(k) /\ IsExactSubject(k, authorized)
  BY DEF Later, Ground, HaveInv
<1>2. /\ k[1] \in Producer!Attested(TheJob) /\ k[2] \in DOMAIN Stmt[k[1]].subjects
      /\ k = <<k[1], k[2], Stmt[k[1]].subjects[k[2]]>> /\ k[3] = Stmt[k[1]].subjects[k[2]]
  BY <1>1 DEF IsKey, IsExactSubject, Later
<1>3. ContentHolds
  BY DEF ClaimsHold
<1>4. ~Conflicting(k)
  BY <1>1, <1>3, OneMedia
<1>5. have[k] = k[3]
  BY LaterFacts DEF EvidenceInv, CapturedInv
<1>6. ASSUME NEW p \in ArtifactProfiles(k[1], k[2]) PROVE ProfileCode(k, p) = {}
  <2>1. /\ p.id = DatasetId => p = DatasetProfile(k[2])
        /\ <<k[3], p.media>> \in Parsable
        /\ IF p.id = DatasetId THEN DatasetOf[k[3]].fault = "none"
           ELSE IsResolvable(p) /\ <<k[3], p.dig>> \in Conforms
    <3> DEFINE d == k[1]
               n == k[2]
               q == <<d, n, Stmt[d].subjects[n]>>
    <3>1. d \in Producer!Attested(TheJob) /\ n \in DOMAIN Stmt[d].subjects /\ q \in Held /\ q[3] = k[3]
      BY <1>2
    <3>2. p \in ArtifactProfiles(d, n)
      OBVIOUS
    <3> HIDE DEF d, n
    <3>3. /\ p.id = DatasetId => p = DatasetProfile(n)
          /\ <<q[3], p.media>> \in Parsable
          /\ IF p.id = DatasetId THEN DatasetOf[q[3]].fault = "none"
             ELSE IsResolvable(p) /\ <<q[3], p.dig>> \in Conforms
      BY <1>3, <3>1, <3>2 DEF ContentHolds
    <3> QED BY <3>1, <3>3 DEF n
  <2>2. IsResolvable(p)
    <3>1. CASE p.id = DatasetId
      <4>1. DatasetProfile(k[2]).subject = k[2]
        BY DEF DatasetProfile
      <4>2. p = DatasetProfile(p.subject)
        BY <2>1, <3>1, <4>1
      <4> QED BY <3>1, <4>2 DEF IsResolvable
    <3> QED BY <2>1, <3>1
  <2>3. Resolution(p) = "resolved"
    BY <2>2, Resolvable DEF Later
  <2> QED BY <1>5, <2>1, <2>3 DEF ProfileCode, ArtifactConforms
<1> QED BY <1>4, <1>6

\* It finds the profiles that are required.
LEMMA RequirementsAgree ==
  ASSUME Later, ClaimsHold
  PROVE  RequirementDiagnostics = {}
<1>1. Manifest.required = TheJob.required
  BY Listing, LaterFacts
<1>2. ASSUME NEW q \in TheJob.required \cup in.policy.required PROVE ProfilePresent(q)
  <2> DEFINE final == {a \in Producer!ToSet(TheJob.finals) : a.name = q.subject /\ \A h \in q.head : a.head = h}
             matching == {a \in FinalArtifacts : a.name = q.subject /\ \A h \in q.head : a.head = h}
  <2>1. /\ final # {}
        /\ \A a \in final : \E p \in ArtifactProfiles(a.head, q.subject) :
             p.id = q.id /\ p.dig = q.dig /\ p.media = q.media
    BY <1>2 DEF ClaimsHold, RequirementsHold
  <2>2. matching = {AsListed(a) : a \in final}
    <3>1. FinalArtifacts = {AsListed(a) : a \in Producer!ToSet(TheJob.finals)}
      BY FinalsListed, LaterFacts
    <3>2. \A a : AsListed(a).head = a.head /\ AsListed(a).name = a.name
      BY DEF AsListed
    <3> QED BY <3>1, <3>2
  <2>3. \A a \in final : a.head \in DOMAIN records
    BY FinalsFacts, Origin, LaterFacts
  <2>4. \A a \in final : AsListed(a).head = a.head
    BY DEF AsListed
  <2> HIDE DEF final
  <2>5. matching # {} /\ \A b \in matching :
          /\ b.head \in DOMAIN records
          /\ \E p \in ArtifactProfiles(b.head, q.subject) :
               p.id = q.id /\ p.dig = q.dig /\ p.media = q.media
    BY <2>1, <2>2, <2>3, <2>4
  <2> QED BY <2>5 DEF ProfilePresent
<1> QED BY <1>1, <1>2 DEF RequirementDiagnostics
-----------------------------------------------------------------------------
(* What each step does to the invariant. *)

\* What producer and consumer agree on depends on the manifest and the input.
LEMMA Unmoved ==
  ASSUME UNCHANGED <<in, manifest>>
  PROVE  /\ Agreed' = Agreed /\ TheJob' = TheJob /\ Malformed' = Malformed
         /\ ClaimsHold' = ClaimsHold /\ Tolerated' = Tolerated /\ Held' = Held
<1>1. TheJob' = TheJob
  BY DEF TheJob
<1>2. IsCreated' = IsCreated /\ Malformed' = Malformed
  BY DEF IsCreated, Malformed
<1>3. TrustsProducer' = TrustsProducer
  BY <1>1 DEF TrustsProducer, Endorsed
<1>4. Held' = Held
  BY <1>1 DEF Held
<1>5. \A p : IsResolvable(p)' = IsResolvable(p)
  BY <1>1 DEF IsResolvable
<1>6. SignaturesHold' = SignaturesHold
  BY <1>1 DEF SignaturesHold
<1>7. SuppliesFit' = SuppliesFit
  BY <1>1, <1>4 DEF SuppliesFit
<1>8. MetadataHolds' = MetadataHolds
  BY <1>1, <1>5 DEF MetadataHolds, MetadataProfiles
<1>9. ContentHolds' = ContentHolds
  BY <1>1, <1>4, <1>5 DEF ContentHolds, ArtifactProfiles
<1>10. MediaHolds' = MediaHolds /\ RequirementsHold' = RequirementsHold
  BY <1>1 DEF MediaHolds, RequirementsHold, ArtifactProfiles
<1>11. ClaimsHold' = ClaimsHold
  BY <1>6, <1>7, <1>8, <1>9, <1>10 DEF ClaimsHold
<1>12. FreshnessCodes' = FreshnessCodes
  BY DEF FreshnessCodes, FreshnessMethods, AnchorHolds, AnchorCode, RecipientChecked,
         RecipientHolds, Age, ManifestDigest, Manifest, FinalKeys, FinalKey, FinalArtifacts
<1>13. Tolerated' = Tolerated
  BY <1>12 DEF Tolerated
<1>14. Agreed' = Agreed
  BY <1>2, <1>3 DEF Agreed
<1> QED BY <1>1, <1>2, <1>4, <1>11, <1>13, <1>14

\* A step that adds the errors E.
LEMMA Progress ==
  ASSUME Ground, UNCHANGED <<in, manifest>>,
         NEW E, errors' = errors \cup E, \A e \in E : e.code \notin Malformed,
         pc' \in FromAttestations => handoffOK',
         pc' \in FromAuthorize =>
           /\ DOMAIN records' = Producer!Attested(TheJob)
           /\ \A a \in Producer!ToSet(TheJob.attestations) : records'[a.digest] = a.envelope,
         pc' \in FromDatasets => authorized' = Producer!Attested(TheJob),
         ClaimsHold =>
           /\ E \subseteq Tolerated
           /\ pc' \in FromHandoff \ FromRescan => errors = {} /\ E = {}
           /\ DOMAIN have' \subseteq Held
           /\ pc' \in FromGraph => (RequiredDatasets \subseteq indexed)'
  PROVE  CreatedInv'
<1>1. Agreed
  BY DEF Ground, Undisturbed, Agreed
<1>2. \A e \in errors : e.code \notin Malformed
  BY <1>1 DEF Ground, CreatedInv
<1>3. ClaimsHold => errors \subseteq Tolerated
  BY <1>1 DEF Ground, CreatedInv, Flawless
<1>4. \A e \in errors' : e.code \notin Malformed'
  BY <1>2, Unmoved
<1>5. ClaimsHold' => Flawless'
  BY <1>3, Unmoved DEF Flawless
<1> QED BY <1>4, <1>5, Unmoved DEF CreatedInv

\* The invariant, where a step starts.
LEMMA Start ==
  ASSUME Ground, ClaimsHold
  PROVE  Flawless
BY DEF Ground, Undisturbed, CreatedInv, Agreed

\* The codes of a step that are not the mark of a malformed bundle.
LEMMA Innocent ==
  ASSUME NEW step, NEW c, NEW owner,
         c \in {"E_SIGNATURE_INVALID", "E_SIGNER_UNAUTHORIZED", "E_PROFILE_INVALID", "E_PROFILE_UNRESOLVED",
                "E_MANIFEST_SET", "E_ARTIFACT_DIGEST", "E_ARTIFACT_MISSING", "E_ARTIFACT_SIZE",
                "E_ARTIFACT_FORMAT", "E_BUNDLE_UNSAFE_PATH", "E_DATASET_MANIFEST_INVALID",
                "E_REQUIRED_PROFILE_MISSING", "E_EXPECTED_MANIFEST", "E_EXPECTED_HEAD",
                "E_EXPECTED_ARTIFACT", "E_HANDOFF_NONCE", "E_HANDOFF_STALE", "E_HANDOFF_RECIPIENT",
                "E_FRESHNESS_REQUIRED"}
  PROVE  Diagnostic(step, c, owner).code \notin Malformed
<1>1. Diagnostic(step, c, owner).code = c
  BY DEF Diagnostic
<1> QED BY <1>1 DEF Malformed

\* Each step of the verifier by itself: it adds no error, or none that matters.
LEMMA HandoffStep ==
  ASSUME Ground, AuthorizeHandoff
  PROVE  CreatedInv'
<1> DEFINE sigs == EnvelopeOf(manifest).sigs
<1>1. /\ pc = "handoff" /\ pc' = "attestations" /\ handoffOK' = TRUE
      /\ errors' = errors \cup SignatureDiagnostics(sigs)
      /\ UNCHANGED <<in, manifest, have>>
  BY HandoffAgrees DEF AuthorizeHandoff, Record
<1>2. \A e \in SignatureDiagnostics(sigs) : e.code \notin Malformed
  BY Innocent DEF SignatureDiagnostics
<1>3. ClaimsHold => SignatureDiagnostics(sigs) = {}
  BY HandoffAgrees DEF ClaimsHold
<1>4. /\ pc \in FromHandoff \ FromRescan /\ pc' \in FromAttestations
      /\ pc' \notin FromAuthorize /\ pc' \notin FromDatasets /\ pc' \notin FromGraph
  BY <1>1 DEF FromHandoff, FromAttestations, FromAuthorize, FromMetadata, FromDatasets, FromGraph,
     FromCompleteness, FromFinal, FromHistorical, FromEntries, FromProfiles, FromFreshness, FromRescan
<1>5. ClaimsHold => errors = {} /\ DOMAIN have \subseteq Held
  BY <1>4, Start DEF Flawless
<1> HIDE DEF sigs
<1> QED BY <1>1, <1>2, <1>3, <1>4, <1>5, Progress

LEMMA AttestationsStep ==
  ASSUME Ground, LoadAttestations, pc' = "authorize"
  PROVE  CreatedInv'
<1> DEFINE E == AttestationDiagnostics
<1>1. /\ pc = "attestations" /\ pc' = "authorize"
      /\ records' = [d \in Loaded |-> Bytes(Index.attestations[d])]
      /\ errors' = errors \cup E
      /\ UNCHANGED <<in, manifest, have, handoffOK>>
  BY DEF LoadAttestations, Record, Abort
<1>2. Loaded = Producer!Attested(TheJob) /\ E = {}
  BY <1>1, AttestationsAgree
<1>3. /\ pc \in FromHandoff \ FromRescan /\ pc \in FromAttestations /\ pc \in FromHandoff
      /\ pc' \notin FromDatasets /\ pc' \notin FromGraph
  BY <1>1 DEF FromHandoff, FromAttestations, FromAuthorize, FromMetadata, FromDatasets, FromGraph,
     FromCompleteness, FromFinal, FromHistorical, FromEntries, FromProfiles, FromFreshness, FromRescan
<1>4. handoffOK
  BY <1>3 DEF Ground, Undisturbed, CreatedInv, Agreed
<1>5. /\ DOMAIN records' = Producer!Attested(TheJob)
      /\ \A a \in Producer!ToSet(TheJob.attestations) : records'[a.digest] = a.envelope
  BY <1>1, <1>2, <1>3, AttestationBytes DEF Ground
<1>6. ClaimsHold => errors = {} /\ DOMAIN have \subseteq Held
  BY <1>3, Start DEF Flawless
<1>7. errors' = errors \cup E /\ UNCHANGED <<in, manifest, have, handoffOK>>
  BY <1>1
<1> HIDE DEF E
<1> QED BY <1>2, <1>3, <1>4, <1>5, <1>6, <1>7, Progress

LEMMA StatementsStep ==
  ASSUME Ground, AuthorizeStatements
  PROVE  CreatedInv'
<1> DEFINE none == {d \in DOMAIN records : Candidates(d) = {}}
           E == (UNION {SignatureDiagnostics(Sigs(d)) : d \in DOMAIN records}) \cup
                {Diagnostic(6, "E_SIGNER_UNAUTHORIZED", "authorization-thresholds") : d \in none}
<1>1. /\ pc = "authorize" /\ pc' = "metadata" /\ errors' = errors \cup E
      /\ UNCHANGED <<in, manifest, have, handoffOK, records>>
  BY DEF AuthorizeStatements, evidence
<1>2. /\ pc \in FromHandoff \ FromRescan /\ pc \in FromAttestations /\ pc \in FromAuthorize
      /\ pc' \notin FromDatasets /\ pc' \notin FromGraph
  BY <1>1 DEF FromHandoff, FromAttestations, FromAuthorize, FromMetadata, FromDatasets, FromGraph,
     FromCompleteness, FromFinal, FromHistorical, FromEntries, FromProfiles, FromFreshness, FromRescan
<1>3. /\ handoffOK /\ DOMAIN records = Producer!Attested(TheJob)
      /\ \A a \in Producer!ToSet(TheJob.attestations) : records[a.digest] = a.envelope
  BY <1>2 DEF Ground, Undisturbed, CreatedInv, Agreed
<1>4. \A e \in E : e.code \notin Malformed
  BY Innocent DEF SignatureDiagnostics
<1>5. ClaimsHold => E = {}
  BY <1>2, <1>3, StatementsAgree DEF ClaimsHold
<1>6. ClaimsHold => errors = {} /\ DOMAIN have \subseteq Held
  BY <1>2, Start DEF Flawless
<1> HIDE DEF E
<1> QED BY <1>1, <1>2, <1>3, <1>4, <1>5, <1>6, Progress

LEMMA MetadataStep ==
  ASSUME Ground, ValidateMetadataProfiles, pc' = "datasets"
  PROVE  CreatedInv'
<1> DEFINE E == MetadataDiagnostics \cup
                {Diagnostic(7, "E_PROFILE_UNRESOLVED", "authorization") :
                   d \in {e \in DOMAIN records : Candidates(e) # {} /\ Authorizing(e) = {}}}
<1>1. /\ pc = "metadata" /\ authorized' = {d \in DOMAIN records : Authorizing(d) # {}}
      /\ errors' = errors \cup E /\ UNCHANGED <<in, manifest, have, handoffOK, records>>
  BY DEF ValidateMetadataProfiles, Record, Abort
<1>2. /\ pc \in FromHandoff \ FromRescan /\ pc \in FromAttestations /\ pc \in FromAuthorize
      /\ pc' \notin FromGraph
  BY <1>1 DEF FromHandoff, FromAttestations, FromAuthorize, FromMetadata, FromDatasets, FromGraph,
     FromCompleteness, FromFinal, FromHistorical, FromEntries, FromProfiles, FromFreshness, FromRescan
<1>3. /\ handoffOK /\ DOMAIN records = Producer!Attested(TheJob)
      /\ \A a \in Producer!ToSet(TheJob.attestations) : records[a.digest] = a.envelope
  BY <1>2 DEF Ground, Undisturbed, CreatedInv, Agreed
<1>4. \A e \in E : e.code \notin Malformed
  BY Innocent DEF MetadataDiagnostics
<1>5. ClaimsHold => E = {}
  BY <1>2, MetadataAgree DEF ClaimsHold
<1>6. authorized' = Producer!Attested(TheJob)
  BY <1>1, <1>2, MetadataAgree
<1>7. ClaimsHold => errors = {} /\ DOMAIN have \subseteq Held
  BY <1>2, Start DEF Flawless
<1> HIDE DEF E
<1> QED BY <1>1, <1>2, <1>3, <1>4, <1>5, <1>6, <1>7, Progress

LEMMA DatasetsStep ==
  ASSUME Ground, PrevalidateDatasets, pc' = "graph"
  PROVE  CreatedInv'
<1> DEFINE E == {Diagnostic(8, c, "graph-dependency-artifacts") :
                   c \in UNION {DatasetCode(k) : k \in DatasetCandidates}}
           keys == {k \in DatasetCandidates : DatasetStage(k) \in {"parse", "schema", "semantic", "none"}}
<1>1. /\ pc = "datasets" /\ indexed' = {k \in DatasetCandidates : DatasetStage(k) = "none"}
      /\ errors' = errors \cup E /\ have' = Captured(keys)
      /\ UNCHANGED <<in, manifest, index, handoffOK, records, authorized>>
      /\ ~DatasetUnreadable
  BY DEF PrevalidateDatasets, Record, Abort
<1>2. /\ pc \in FromHandoff \ FromRescan /\ pc \in FromAttestations /\ pc \in FromAuthorize
      /\ pc \in FromDatasets
  BY <1>1 DEF FromHandoff, FromAttestations, FromAuthorize, FromMetadata, FromDatasets, FromGraph,
     FromCompleteness, FromFinal, FromHistorical, FromEntries, FromProfiles, FromFreshness, FromRescan
<1>3. Later
  BY <1>2, LaterSteps
<1>4. /\ handoffOK /\ DOMAIN records = Producer!Attested(TheJob)
      /\ authorized = Producer!Attested(TheJob)
      /\ \A a \in Producer!ToSet(TheJob.attestations) : records[a.digest] = a.envelope
  BY <1>2 DEF Ground, Undisturbed, CreatedInv, Agreed
<1>5. \A e \in E : e.code \notin Malformed
  BY <1>1, <1>3, DatasetsFound DEF Diagnostic
<1>6. ASSUME ClaimsHold
      PROVE  /\ E = {} /\ errors = {} /\ DOMAIN have' \subseteq Held
             /\ (RequiredDatasets \subseteq indexed)'
  <2>1. \A k \in DatasetCandidates : k \in Held /\ DatasetStage(k) = "none"
    BY <1>3, <1>6, DatasetsAgree
  <2>2. \A k \in DatasetCandidates : DatasetCode(k) = {}
    BY <2>1 DEF DatasetCode
  <2>3. errors = {} /\ DOMAIN have \subseteq Held
    BY <1>2, <1>6, Start DEF Flawless
  <2>4. DOMAIN have' \subseteq Held
    BY <1>1, <2>1, <2>3 DEF Captured
  <2>5. RequiredDatasets' = RequiredDatasets
    BY <1>1 DEF RequiredDatasets, SubjectKey, EntryEdges, Index
  <2>6. RequiredDatasets \subseteq DatasetCandidates
    BY DEF DatasetCandidates
  <2>7. (RequiredDatasets \subseteq indexed)'
    BY <1>1, <2>1, <2>5, <2>6
  <2> QED BY <2>2, <2>3, <2>4, <2>7
<1> HIDE DEF E
<1> QED BY <1>1, <1>2, <1>4, <1>5, <1>6, Progress

\* The same for the steps after the dataset manifests were parsed.
LEMMA LateProgress ==
  ASSUME Ground, [Next]_vars, pc \in FromGraph, pc' \in FromGraph \cup Ended,
         pc' \in FromHandoff \ FromRescan => pc \in FromHandoff \ FromRescan,
         NEW E, errors' = errors \cup E, \A e \in E : e.code \notin Malformed,
         ClaimsHold => /\ E \subseteq Tolerated
                       /\ pc' \in FromHandoff \ FromRescan => E = {}
                       /\ DOMAIN have' \subseteq Held
  PROVE  CreatedInv'
<1>1. pc \in FromDatasets /\ pc \in FromAuthorize /\ pc \in FromAttestations /\ pc \in FromHandoff
  BY DEF FromHandoff, FromAttestations, FromAuthorize, FromMetadata, FromDatasets
<1>2. UNCHANGED <<in, index, manifest, handoffOK, records, authorized, indexed>>
  BY <1>1, Frame DEF Ground, Undisturbed
<1>3. Later
  BY <1>1, LaterSteps
<1>4. /\ handoffOK /\ DOMAIN records = Producer!Attested(TheJob)
      /\ authorized = Producer!Attested(TheJob)
      /\ \A a \in Producer!ToSet(TheJob.attestations) : records[a.digest] = a.envelope
  BY <1>1 DEF Ground, Undisturbed, CreatedInv, Agreed
<1>5. RequiredDatasets' = RequiredDatasets
  BY <1>2 DEF RequiredDatasets, SubjectKey, EntryEdges, Index
<1>6. ASSUME ClaimsHold
      PROVE  /\ pc' \in FromHandoff \ FromRescan => errors = {} /\ E = {}
             /\ E \subseteq Tolerated /\ DOMAIN have' \subseteq Held
             /\ (RequiredDatasets \subseteq indexed)'
  BY <1>2, <1>5, <1>6, Start DEF Flawless
<1> QED BY <1>2, <1>4, <1>6, Progress

\* Where a step goes, in terms of what comes later.
LEMMA GraphOn ==
  /\ \A x \in {"graph", "completeness", "final", "historical", "entries", "profiles", "freshness"} :
       x \in FromGraph /\ x \in FromHandoff \ FromRescan /\ x \in FromDatasets
  /\ "rescan" \in FromGraph /\ "rescan" \notin FromHandoff \ FromRescan /\ "rescan" \in FromDatasets
  /\ "done" \in Ended /\ "done" \notin FromHandoff
BY DEF FromHandoff, FromAttestations, FromAuthorize, FromMetadata, FromDatasets, FromGraph,
     FromCompleteness, FromFinal, FromHistorical, FromEntries, FromProfiles, FromFreshness, FromRescan,
     Ended

\* Only bytes that the consumer has are captured.
LEMMA KeepsHeld ==
  ASSUME Ground, ClaimsHold
  PROVE  DOMAIN have \subseteq Held
BY Start DEF Flawless

\* The steps of the verifier from the graph on.
LEMMA GraphStep ==
  ASSUME Ground, [Next]_vars, BuildGraph
  PROVE  CreatedInv'
<1>1. pc = "graph" /\ pc' = "completeness" /\ have' = have
  BY DEF BuildGraph, evidence
<1>2. GraphProblems \ {"E_DATASET_MANIFEST_REQUIRED"} = {}
  BY <1>1, GraphOn, LaterSteps, GraphAgrees
<1> DEFINE E == {Diagnostic(ProblemOwner(c)[1], c, ProblemOwner(c)[2]) :
                   c \in GraphProblems \ {"E_DATASET_MANIFEST_REQUIRED"}}
<1>3. errors' = errors \cup E
  BY DEF BuildGraph
<1>4. E = {}
  BY <1>2
<1> HIDE DEF E
<1> QED BY <1>1, <1>3, <1>4, GraphOn, KeepsHeld, LateProgress

LEMMA CompletenessStep ==
  ASSUME Ground, [Next]_vars, CheckCompleteness
  PROVE  CreatedInv'
<1>1. pc = "completeness" /\ pc' = "final" /\ have' = have
  BY DEF CheckCompleteness, evidence
<1>2. SetsAgree /\ \A a \in FinalArtifacts : Eligible(a)
  BY <1>1, GraphOn, LaterSteps, CompletenessAgrees, FinalMaterial
<1> DEFINE E == {}
<1>3. errors' = errors \cup E
  BY <1>2 DEF CheckCompleteness, Record
<1>4. E = {}
  OBVIOUS
<1> HIDE DEF E
<1> QED BY <1>1, <1>3, <1>4, GraphOn, KeepsHeld, LateProgress

LEMMA FinalStep ==
  ASSUME Ground, [Next]_vars, VerifyFinalArtifacts
  PROVE  CreatedInv'
<1> DEFINE n == Len(Manifest.artifacts)
           A(i) == Manifest.artifacts[i]
           eligible == {i \in 1..n : Eligible(A(i))}
           unmapped == {i \in eligible : ~FinalMapped(FinalKey(A(i)))}
           toRead == {i \in eligible \ unmapped : FinalKey(A(i)) \notin DOMAIN have}
           failing == {i \in eligible : ~FinalPasses(FinalKey(A(i)))}
           E == {Diagnostic(11, "E_MANIFEST_SET", "completeness-anchor") : i \in unmapped}
                \cup {Diagnostic(12, c, "artifact-bytes") :
                        c \in UNION {BytesCode(FinalKey(A(i)), Index.artifacts[FinalKey(A(i))]) :
                                     i \in toRead}}
<1>1. /\ pc = "final" /\ pc' = "historical" /\ errors' = errors \cup E
      /\ have' = Captured({FinalKey(A(i)) : i \in eligible \ failing})
  BY DEF VerifyFinalArtifacts
<1>2. Later
  BY <1>1, GraphOn, LaterSteps
<1>3. \A i \in 1..n : A(i) \in FinalArtifacts
  <2>1. manifest \in Content /\ EnvelopeOf(manifest).fault = "none" /\ EnvelopeOf(manifest).type = "handoff"
    BY <1>2, LaterFacts DEF Undisturbed, IsCreated, EvidenceInv, TypeOK, LoadedInv
  <2>2. DOMAIN Manifest.artifacts = 1..n
    BY <2>1, EnvelopeAssumption DEF Manifest
  <2> QED BY <2>2 DEF FinalArtifacts
<1>4. \A i \in 1..n : /\ FinalMapped(FinalKey(A(i))) /\ FinalKey(A(i)) \in Held
                      /\ BytesCode(FinalKey(A(i)), Index.artifacts[FinalKey(A(i))]) = {}
  BY <1>2, <1>3, FinalsAgree
<1>5. unmapped = {}
  BY <1>4
<1>6. UNION {BytesCode(FinalKey(A(i)), Index.artifacts[FinalKey(A(i))]) : i \in toRead} = {}
  BY <1>4
<1>7. E = {}
  BY <1>5, <1>6
<1>8. \A i \in eligible \ failing : FinalKey(A(i)) \in Held
  BY <1>4
<1>9. ClaimsHold => DOMAIN have' \subseteq Held
  BY <1>1, <1>8, KeepsHeld DEF Captured
<1>10. pc = "final" /\ pc' = "historical" /\ errors' = errors \cup E
  BY <1>1
<1> HIDE DEF E
<1> QED BY <1>7, <1>9, <1>10, GraphOn, LateProgress

LEMMA HistoricalStep ==
  ASSUME Ground, [Next]_vars, VerifyHistorical
  PROVE  CreatedInv'
<1> DEFINE alien == {k \in HistoricalKeys : ~IsExactSubject(k, Usable)}
           supplied == {k \in HistoricalKeys \ alien : MaterialStatus(k) # "no-bytes"}
           passing == {k \in supplied : HistoricalCode(k) = {}}
           E == {Diagnostic(11, "E_MANIFEST_SET", "completeness-anchor") : k \in alien}
                \cup {Diagnostic(12, c, "artifact-bytes") :
                        c \in UNION {HistoricalCode(k) : k \in HistoricalKeys}}
<1>1. /\ pc = "historical" /\ pc' = "entries" /\ errors' = errors \cup E
      /\ have' = Captured(passing)
  BY DEF VerifyHistorical, Record
<1>2. Later
  BY <1>1, GraphOn, LaterSteps
<1>3. \A k \in HistoricalKeys :
        HistoricalCode(k) \subseteq {"E_ARTIFACT_MISSING", "E_ARTIFACT_DIGEST", "E_BUNDLE_UNSAFE_PATH"}
  BY DEF HistoricalCode, BytesCode, ReadCode
<1>4. \A e \in E : e.code \notin Malformed
  BY <1>3, Innocent
<1>5. ASSUME ClaimsHold PROVE E = {} /\ DOMAIN have' \subseteq Held
  <2>1. \A k \in HistoricalKeys : /\ IsExactSubject(k, Usable) /\ HistoricalCode(k) = {}
                                  /\ MaterialStatus(k) # "no-bytes" => k \in Held
    BY <1>2, <1>5, HistoricalAgrees
  <2>2. alien = {} /\ UNION {HistoricalCode(k) : k \in HistoricalKeys} = {}
    BY <2>1
  <2>3. E = {}
    BY <2>2
  <2>4. passing \subseteq Held
    BY <2>1
  <2> QED BY <1>1, <1>5, <2>3, <2>4, KeepsHeld DEF Captured
<1> HIDE DEF E
<1> QED BY <1>1, <1>4, <1>5, GraphOn, LateProgress

LEMMA EntriesStep ==
  ASSUME Ground, [Next]_vars, VerifyDatasetEntries
  PROVE  CreatedInv'
<1> DEFINE missed == {x \in DOMAIN in.request.entries : ~IsIndexed(x)}
           checked == {x \in EntryMembers : IsIndexed(x) /\ Supplied(x)}
           R == {Diagnostic(8, "E_DATASET_MANIFEST_REQUIRED", "graph-dependency-artifacts") : m \in missed}
           D == {Diagnostic(12, c, "artifact-bytes") : c \in UNION {EntryCode(m) : m \in checked}}
           E == R \cup D
<1>1. pc = "entries" /\ pc' = "profiles" /\ errors' = errors \cup E /\ have' = have
  BY DEF VerifyDatasetEntries, Record
<1>2. Later
  BY <1>1, GraphOn, LaterSteps
<1>3. \A e \in D : e.code \notin Malformed
  BY EntryCodes, Innocent
<1>4. ASSUME NEW e \in R PROVE e.code \notin Malformed
  <2>1. e.code = "E_DATASET_MANIFEST_REQUIRED" /\ DOMAIN in.request.entries # {}
    BY <1>4 DEF Diagnostic
  <2> QED BY <2>1 DEF Malformed
<1>5. ASSUME ClaimsHold PROVE E = {}
  <2>1. RequiredDatasets \subseteq indexed
    BY <1>1, <1>5, GraphOn, Start DEF Flawless
  <2>2. missed = {}
    BY <1>2, <1>5, <2>1, EntriesIndexed
  <2>3. \A m \in checked : EntryCode(m) = {}
    BY <1>2, <1>5, EntryAgrees
  <2> QED BY <2>2, <2>3
<1>6. \A e \in E : e.code \notin Malformed
  BY <1>3, <1>4
<1> HIDE DEF E
<1> QED BY <1>1, <1>5, <1>6, GraphOn, KeepsHeld, LateProgress

LEMMA ProfilesStep ==
  ASSUME Ground, [Next]_vars, ValidateArtifactProfiles, pc' = "freshness"
  PROVE  CreatedInv'
<1> DEFINE codes == (UNION {UNION {ProfileCode(k, p) : p \in Evaluated(k)} : k \in Profiled})
                      \cup {"E_PROFILE_INVALID" : k \in {j \in Profiled : Conflicting(j)}}
           E == {Diagnostic(13, c, "artifact-profiles") : c \in codes}
<1>1. pc = "profiles" /\ errors' = errors \cup E /\ have' = have
  BY DEF ValidateArtifactProfiles, Abort, evidence
<1>2. Later
  BY <1>1, GraphOn, LaterSteps
<1>3. codes \subseteq {"E_ARTIFACT_FORMAT", "E_PROFILE_UNRESOLVED", "E_PROFILE_INVALID"}
  <2>1. ASSUME NEW k, NEW p
        PROVE  ProfileCode(k, p) \subseteq {"E_ARTIFACT_FORMAT", "E_PROFILE_UNRESOLVED", "E_PROFILE_INVALID"}
    BY DEF ProfileCode
  <2> QED BY <2>1
<1>4. \A e \in E : e.code \notin Malformed
  BY <1>3, Innocent
<1>5. ASSUME ClaimsHold PROVE E = {}
  <2>1. \A k \in Profiled : /\ ~Conflicting(k)
                            /\ \A p \in ArtifactProfiles(k[1], k[2]) : ProfileCode(k, p) = {}
    <3>1. \A k \in Profiled : k \in DOMAIN have /\ k \in Held
      BY <1>5, KeepsHeld DEF Profiled
    <3> QED BY <1>2, <1>5, <3>1, ProfilesAgree
  <2>2. \A k \in Profiled : Evaluated(k) \subseteq ArtifactProfiles(k[1], k[2])
    BY DEF Evaluated
  <2>3. codes = {}
    BY <2>1, <2>2
  <2> QED BY <2>3
<1> HIDE DEF E
<1> QED BY <1>1, <1>4, <1>5, GraphOn, KeepsHeld, LateProgress

LEMMA FreshnessStep ==
  ASSUME Ground, [Next]_vars, EvaluateFreshness
  PROVE  CreatedInv'
<1> DEFINE E == RequirementDiagnostics \cup Tolerated
<1>1. pc = "freshness" /\ pc' = "rescan" /\ errors' = errors \cup E /\ have' = have
  BY DEF EvaluateFreshness, Record, Tolerated, evidence
<1>2. Later
  BY <1>1, GraphOn, LaterSteps
<1>3. FreshnessCodes \subseteq {"E_EXPECTED_MANIFEST", "E_EXPECTED_HEAD", "E_EXPECTED_ARTIFACT",
        "E_HANDOFF_NONCE", "E_HANDOFF_STALE", "E_HANDOFF_RECIPIENT", "E_FRESHNESS_REQUIRED"}
  BY DEF FreshnessCodes, FreshnessMethods, AnchorCode
<1>4. \A e \in E : e.code \notin Malformed
  <2>1. \A c \in FreshnessCodes : Diagnostic(11, c, "freshness-anchors").code \notin Malformed
    BY <1>3, Innocent
  <2>2. \A e \in RequirementDiagnostics : e.code \notin Malformed
    BY Innocent DEF RequirementDiagnostics
  <2> QED BY <2>1, <2>2 DEF Tolerated
<1>5. ClaimsHold => E \subseteq Tolerated
  BY <1>2, RequirementsAgree
<1> HIDE DEF E
<1> QED BY <1>1, <1>4, <1>5, GraphOn, KeepsHeld, LateProgress

LEMMA RescanStep ==
  ASSUME Ground, [Next]_vars, Rescan
  PROVE  CreatedInv'
<1> DEFINE E == {d \in {Diagnostic(12, "E_BUNDLE_UNSAFE_PATH", "artifact-bytes")} :
                   UnsafeTree \/ Inventory # inventory}
<1>1. pc = "rescan" /\ pc' = "done" /\ errors' = errors \cup E /\ have' = have
  BY DEF Rescan, Finalize, evidence
<1>2. Undisturbed /\ pc \in FromHandoff
  BY <1>1, GraphOn, LaterSteps, LaterFacts
<1>3. E = {}
  BY <1>2 DEF Undisturbed, StillInv
<1> HIDE DEF E
<1> QED BY <1>1, <1>3, GraphOn, KeepsHeld, LateProgress
-----------------------------------------------------------------------------
(* The invariant. *)

\* The invariant, when it starts to speak of anything.
LEMMA EarlyCreated ==
  ASSUME EvidenceInv, StillInv, StillInv', HaveInv', [Next]_vars, pc \in Early, Agreed'
  PROVE  CreatedInv'
<1>1. in' = in /\ in.others.edits = 0
  BY Frame DEF Agreed
<1>2. UNCHANGED <<disk, edits>>
  <2>1. edits = 0
    BY <1>1 DEF StillInv
  <2>2. ~Environment
    BY <1>1, <2>1 DEF Environment
  <2> QED BY <2>2, DiskFrame
<1>3. manifest = NoBytes
  BY <1>1 DEF StillInv
<1>4. manifest' # NoBytes
  BY DEF Agreed, IsCreated
<1>5. pc' = "handoff"
  BY <1>2, <1>3, <1>4, EarlyFacts DEF evidence
<1>6. /\ pc' \notin FromAttestations /\ pc' \notin FromAuthorize /\ pc' \notin FromDatasets
      /\ pc' \notin FromGraph /\ pc' \notin Ended
  BY <1>5 DEF FromAttestations, FromAuthorize, FromMetadata, FromDatasets, FromGraph,
     FromCompleteness, FromFinal, FromHistorical, FromEntries, FromProfiles, FromFreshness, FromRescan, Ended
<1>7. errors' = {}
  BY <1>1, <1>5 DEF StillInv
<1>8. DOMAIN have' = {}
  BY <1>6 DEF HaveInv
<1>9. Flawless'
  BY <1>6, <1>7, <1>8 DEF Flawless
<1> QED BY <1>6, <1>7, <1>9 DEF CreatedInv

\* A step that learns nothing.
LEMMA IdleCreated ==
  ASSUME CreatedInv, Agreed, UNCHANGED <<evidence, errors>>, pc' = pc \/ pc' \in Ended
  PROVE  CreatedInv'
<1>1. UNCHANGED <<in, index, manifest, handoffOK, records, authorized, indexed, have, errors>>
  BY DEF evidence
<1>2. RequiredDatasets' = RequiredDatasets
  BY <1>1 DEF RequiredDatasets, SubjectKey, EntryEdges, Index
<1>3. /\ pc' \in FromAttestations => pc \in FromAttestations
      /\ pc' \in FromAuthorize => pc \in FromAuthorize
      /\ pc' \in FromDatasets => pc \in FromDatasets
      /\ pc' \in FromGraph => pc \in FromGraph
      /\ pc' \in FromHandoff \ FromRescan => pc \in FromHandoff \ FromRescan
  BY DEF FromHandoff, FromAttestations, FromAuthorize, FromMetadata, FromDatasets, FromGraph,
     FromCompleteness, FromFinal, FromHistorical, FromEntries, FromProfiles, FromFreshness, FromRescan, Ended
<1>4. ClaimsHold => Flawless'
  BY <1>1, <1>2, <1>3, Unmoved DEF CreatedInv, Flawless
<1> QED BY <1>1, <1>3, <1>4, Unmoved DEF CreatedInv

\* Each step keeps the invariant.
LEMMA CreatedStep ==
  EvidenceInv /\ HaveInv /\ StillInv /\ CreatedInv /\ HaveInv' /\ StillInv' /\ [Next]_vars => CreatedInv'
<1> SUFFICES ASSUME EvidenceInv, HaveInv, StillInv, CreatedInv, HaveInv', StillInv', [Next]_vars, Agreed'
             PROVE  CreatedInv'
  BY DEF CreatedInv
<1>1. CASE pc \in Early
  BY <1>1, EarlyCreated
<1>2. CASE pc \notin Early
  <2>1. pc \in FromHandoff \cup Ended
    <3>1. pc \in Places
      BY PlaceNames DEF EvidenceInv, TypeOK
    <3> QED BY <1>2, <3>1 DEF Places, FromManifest, Early
  <2>2. UNCHANGED <<in, manifest>>
    BY <2>1, Frame
  <2>3. Agreed
    BY <2>2, Unmoved
  <2>4. Ground
    BY <2>3 DEF Ground, Undisturbed, Agreed
  <2>5. CASE UNCHANGED <<evidence, errors>> /\ (pc' = pc \/ pc' = "aborted")
    BY <2>3, <2>5, IdleCreated DEF Ended
  <2>6. CASE AuthorizeHandoff \/ (LoadAttestations /\ pc' = "authorize") \/ AuthorizeStatements
    BY <2>4, <2>6, HandoffStep, AttestationsStep, StatementsStep
  <2>7. CASE \/ ValidateMetadataProfiles /\ pc' = "datasets"
             \/ PrevalidateDatasets /\ pc' = "graph"
    BY <2>4, <2>7, MetadataStep, DatasetsStep
  <2>8. CASE BuildGraph \/ CheckCompleteness \/ VerifyFinalArtifacts
    BY <2>4, <2>8, GraphStep, CompletenessStep, FinalStep
  <2>9. CASE \/ VerifyHistorical \/ VerifyDatasetEntries
             \/ ValidateArtifactProfiles /\ pc' = "freshness"
    BY <2>4, <2>9, HistoricalStep, EntriesStep, ProfilesStep
  <2>10. CASE EvaluateFreshness \/ Rescan
    BY <2>4, <2>10, FreshnessStep, RescanStep
  <2>11. CASE pc = "completeness" /\ ~handoffOK
    <3>1. pc \in FromAttestations
      BY <2>11, GraphOn DEF FromAttestations, FromAuthorize, FromMetadata
    <3> QED BY <2>3, <2>11, <3>1 DEF CreatedInv
  <2> QED BY <1>2, <2>5, <2>6, <2>7, <2>8, <2>9, <2>10, <2>11, Moves DEF Early
<1> QED BY <1>1, <1>2

\* It holds before the verification starts.
LEMMA CreatedInit == Init => StillInv /\ CreatedInv
<1> SUFFICES ASSUME Init PROVE StillInv /\ CreatedInv
  OBVIOUS
<1>1. manifest = NoBytes /\ index = NoBytes /\ edits = 0 /\ pc = "scan" /\ errors = {}
  BY DEF Init
<1>2. pc \notin (Early \ {"scan"}) \cup FromHandoff
  BY <1>1 DEF Early, FromHandoff, FromAttestations, FromAuthorize, FromMetadata, FromDatasets, FromGraph,
     FromCompleteness, FromFinal, FromHistorical, FromEntries, FromProfiles, FromFreshness, FromRescan
<1>3. \E s \in Scenarios :
         disk = s.disk /\ in = [policy |-> s.policy, request |-> s.request, others |-> s.others]
  BY DEF Init
<1>4. StillInv
  BY <1>1, <1>2, <1>3 DEF StillInv
<1>5. CreatedInv
  BY <1>1 DEF CreatedInv, Agreed, IsCreated
<1> QED BY <1>4, <1>5

\* A handoff that creation accepted, verified where nobody has touched it by a
\* consumer that trusts its signers: no step calls the bundle malformed, and if
\* the signed claims hold no step before the freshness anchors finds fault.
THEOREM CreatedInvHolds == Spec => []CreatedInv
<1>1. Init => StillInv /\ CreatedInv
  BY CreatedInit
<1>2. EvidenceInv /\ HaveInv /\ HaveInv' /\ StillInv /\ CreatedInv /\ [Next]_vars => StillInv' /\ CreatedInv'
  BY StillStep, CreatedStep
<1>3. ConformInv => HaveInv
  BY DEF ConformInv
<1> QED BY <1>1, <1>2, <1>3, EvidenceHolds, ConformInvHolds, PTL DEF Spec

\* Creation and verification agree on what a lineage is: the bundle of an accepted
\* job, which nobody touches, is never called malformed by a consumer that trusts
\* its signers (_verify_bundle), and where the signed claims hold it is allowed,
\* unless a freshness anchor is not met.
THEOREM CreatedIsAllowedHolds == Spec => []CreatedIsAllowed
<1>1. ASSUME CreatedInv, DecisionInv PROVE CreatedIsAllowed
  <2> SUFFICES ASSUME decision # "none", IsCreated, in.others.edits = 0, TrustsProducer
               PROVE  /\ \A e \in errors : e.code \notin Malformed
                      /\ ClaimsHold => decision = "allow" \/ FreshnessCodes # {}
    BY DEF CreatedIsAllowed
  <2>1. /\ \A e \in errors : e.code \notin Malformed
        /\ ClaimsHold => errors \subseteq Tolerated
    BY <1>1 DEF CreatedInv, Agreed, Flawless
  <2>2. ASSUME ClaimsHold, FreshnessCodes = {} PROVE decision = "allow"
    <3>1. errors = {}
      BY <2>1, <2>2 DEF Tolerated
    <3> QED BY <1>1, <3>1 DEF DecisionInv, Decision
  <2> QED BY <2>1, <2>2
<1>2. AllowInv => DecisionInv
  BY DEF AllowInv
<1> QED BY <1>1, <1>2, CreatedInvHolds, AllowInvHolds, PTL
=============================================================================
