------------------------- MODULE VerificationReport -------------------------
(***************************************************************************)
(* The verification report of report.py: the sixteen top-level checks, the *)
(* diagnostics and the decision.  A diagnostic keeps its step, code and    *)
(* owning check; message and context are left out, so equal diagnostics    *)
(* about different items are one element of the set.  Warnings never       *)
(* influence a check or the decision and are left out, as is               *)
(* primaryError, the least error in (step, code) order.                *)
(***************************************************************************)
EXTENDS Integers

CheckIds == << "load-safely", "parse-strictly", "index-payloads",
               "core-schemas", "signatures", "authorization-thresholds",
               "metadata-profiles", "authorization",
               "graph-dependency-artifacts", "graph", "roots-and-heads",
               "completeness-anchor", "freshness-anchors", "artifact-bytes",
               "artifact-profiles", "decision" >>

Checks == {CheckIds[i] : i \in 1..16}

\* The checks that precede c in the fixed report order.
EarlierChecks(c) ==
  {CheckIds[j] : j \in {k \in 1..16 : \E i \in (k+1)..16 : CheckIds[i] = c}}

Status == {"pass", "fail", "skipped", "not_checked"}

CheckRecord == [status : Status, pre : SUBSET Checks]

Diagnostic(step, code, owner) == [step |-> step, code |-> code, owner |-> owner]

\* The codes a verification emits.
Codes == { "E_ARTIFACT_DIGEST", "E_ARTIFACT_FORMAT", "E_ARTIFACT_MISSING",
           "E_ARTIFACT_SIZE", "E_BUNDLE_UNSAFE_PATH", "E_CORE_SCHEMA",
           "E_DATASET_MANIFEST_INVALID", "E_DATASET_MANIFEST_REQUIRED",
           "E_ENVELOPE_MALFORMED", "E_EVENT_ID_DUPLICATE",
           "E_EXPECTED_ARTIFACT", "E_EXPECTED_HEAD", "E_EXPECTED_MANIFEST",
           "E_FRESHNESS_REQUIRED", "E_GRAPH_CYCLE", "E_HANDOFF_NONCE",
           "E_HANDOFF_RECIPIENT", "E_HANDOFF_REQUIRED", "E_HANDOFF_STALE",
           "E_INPUT_DIGEST", "E_JSON_INVALID", "E_MANIFEST_SET",
           "E_PAYLOAD_TYPE", "E_PREDECESSOR_MISSING", "E_PREDECESSOR_SUBJECT",
           "E_PREDICATE_SEMANTICS_UNSUPPORTED", "E_PROFILE_INVALID",
           "E_PROFILE_UNRESOLVED", "E_REQUIRED_PROFILE_MISSING",
           "E_ROOT_INVALID", "E_SIGNATURE_INVALID", "E_SIGNER_UNAUTHORIZED",
           "E_STATEMENT_DIGEST" }

Diagnostics == [step : 1..13, code : Codes, owner : Checks]

\* new_report followed by _verify_bundle's optimistic set_check(..., "pass").
InitialChecks ==
  [c \in Checks |-> [status |-> IF c = "decision" THEN "not_checked" ELSE "pass",
                     pre    |-> {}]]

SetCheck(checks, c, status, pre) ==
  [checks EXCEPT ![c] = [status |-> status, pre |-> pre]]

\* Every add_error of a step followed by set_check(owner, "fail").
FailOwners(checks, errs) ==
  [c \in Checks |-> IF \E e \in errs : e.owner = c
                    THEN [status |-> "fail", pre |-> {}]
                    ELSE checks[c]]

\* Mutant of BlockUnreached: the checks that ran are blocked as well.
BlockAll(checks, retained, prerequisite, notChecked) ==
  [c \in Checks |->
     IF c = "decision" THEN checks[c]
     ELSE IF c \in notChecked THEN [status |-> "not_checked", pre |-> {}]
     ELSE [status |-> "skipped", pre |-> {prerequisite}]]

\* _block_unreached_checks: fold the optimistic defaults after a terminal
\* evidence failure.
BlockUnreached(checks, retained, prerequisite, notChecked) ==
  [c \in Checks |->
     IF c = "decision" \/ c \in retained THEN checks[c]
     ELSE IF c \in notChecked THEN [status |-> "not_checked", pre |-> {}]
     ELSE [status |-> "skipped", pre |-> {prerequisite}]]

Decision(errs) == IF errs = {} THEN "allow" ELSE "deny"
=============================================================================
