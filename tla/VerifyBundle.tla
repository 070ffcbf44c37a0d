---------------------------- MODULE VerifyBundle ----------------------------
(***************************************************************************)
(* verify_bundle (bundle.py): one run of the verifier over a bundle        *)
(* directory that other processes may change while it runs.                *)
(*                                                                         *)
(* Data.  The SHA-256 digest of a byte string is the byte string itself    *)
(* (an element of Content), which is collision resistance.  A signed       *)
(* statement is a constant function of its digest.                         *)
(*   IndexOf(c)    c parsed as bundle.json: [fault, manifest,              *)
(*                 attestations : digest -> path, artifacts : key -> path, *)
(*                 entries : member -> [path, digest], catalog : {path}]   *)
(*   EnvelopeOf(c) c parsed as a DSSE envelope: [fault, type, digest, sigs]*)
(*   CatalogOf(c)  c read as a schema catalog: [fault, pins]               *)
(*   DatasetOf[c]  c parsed as a dataset manifest:                         *)
(*                 [fault, members : entry -> [digest, size]]              *)
(*   Stmt[d]       a statement (see LineageGraph) with its kind and the    *)
(*                 set profiles of [id, dig, target, subject, media,       *)
(*                 critical]                                               *)
(*   HandoffOf(c)  the handoff manifest signed in the envelope c:          *)
(*                 [statements, heads, roots, artifacts (a sequence of     *)
(*                 [head, name, digest, media]), required, recipient,      *)
(*                 nonce, issued]                                          *)
(*   Admits        the <<statement digest, pin>> that validate             *)
(*   Conforms      the <<content, pin>> that validate                      *)
(*   Parsable      the <<content, media type>> _parse_artifact accepts     *)
(* An optional member is a set of at most one value.  A key is <<statement *)
(* digest, subject name, artifact digest>>, a member is <<statement        *)
(* digest, subject name, entry name>>.                                     *)
(*                                                                         *)
(* Steps.  A loop that opens each of several files once is one step: the   *)
(* environment changes one path per step, so it can be scheduled before or *)
(* after the step with the same effect.  Warnings, counters of the summary *)
(* and the per-item records of the report are left out, except arts, which *)
(* later steps read.                                                       *)
(***************************************************************************)
EXTENDS Integers, Sequences, FiniteSets, VerificationReport, TrustPolicy, LineageGraph,
        ContentProfiles

CONSTANTS Path, Content, Digest,
          IndexOf(_), EnvelopeOf(_), CatalogOf(_), HandoffOf(_), DatasetOf, Stmt,
          Admits, Conforms, Parsable, SizeOf(_),
          NoBytes,     \* the value of index and manifest before they are read
          Folded,      \* Path -> the path's NFC case-folded spelling
          Scenarios,   \* the [policy, request, disk, others] a run may start from
          MaxEdits     \* bound on the changes other processes make in any scenario

ASSUME NoBytesAssumption == NoBytes \notin Content
ASSUME MaxEditsAssumption ==
  /\ MaxEdits \in Nat
  /\ \A s \in Scenarios : s.others.edits \in 0..MaxEdits

\* Digests and subject names are ordered as the code sorts them; a statement
\* names finitely many subjects, and an origin has no inputs (schema.py).
\* Whatever bytes a subject names, parsing them as a dataset manifest has one
\* of five outcomes, one of them a version no release has, and only bytes that
\* are not JSON fail to parse as an artifact of its media type (dataset.py,
\* _parse_artifact).
ASSUME StatementAssumption ==
  /\ Digest \subseteq Int
  /\ \A d \in DOMAIN Stmt :
       /\ Stmt[d].type = "origin" => Stmt[d].inputs = {}
       /\ DOMAIN Stmt[d].subjects \subseteq Int /\ IsFiniteSet(DOMAIN Stmt[d].subjects)
       /\ \A n \in DOMAIN Stmt[d].subjects :
            LET c == Stmt[d].subjects[n]
            IN  /\ DatasetOf[c].fault \in {"none", "parse", "version", "schema", "semantic"}
                /\ DatasetOf[c].fault # "parse" => <<c, DatasetMedia>> \in Parsable

\* Any bytes are or are not an envelope; one that is well formed has a list of
\* signatures, and holds a statement, or a handoff whose artifacts are a list.
ASSUME EnvelopeAssumption ==
  \A c \in Content :
    /\ EnvelopeOf(c).fault \in {"none", "json", "version", "envelope", "payload", "schema"}
    /\ EnvelopeOf(c).fault = "none" =>
         /\ IsFiniteSet(EnvelopeOf(c).sigs)
         /\ EnvelopeOf(c).type = "statement" => EnvelopeOf(c).digest \in Digest \cap DOMAIN Stmt
         /\ EnvelopeOf(c).type = "handoff" =>
              /\ HandoffOf(c).issued \in Int
              /\ Len(HandoffOf(c).artifacts) \in Nat
              /\ DOMAIN HandoffOf(c).artifacts = 1..Len(HandoffOf(c).artifacts)

\* The key of a mapped artifact or entry has three parts, in the bundle's index
\* and in the consumer's request.
IsKey(k) == k = <<k[1], k[2], k[3]>>

ASSUME KeyAssumption ==
  /\ \A c \in Content : IndexOf(c).fault = "none" => \A k \in DOMAIN IndexOf(c).artifacts : IsKey(k)
  /\ \A s \in Scenarios :
       /\ \A k \in DOMAIN s.request.materials : IsKey(k)
       /\ \A m \in DOMAIN s.request.entries : IsKey(m)

\* What a path of the directory holds.
IsNode(n) ==
  /\ n = [kind |-> n.kind, inode |-> n.inode, bytes |-> n.bytes]
  /\ n.kind \in {"file", "dir", "link", "absent"}
  /\ n.bytes \in Content

\* Key IDs are hashes of public keys, identity IDs hashes of identities, both
\* recomputed when the policy is loaded, so no ID is both, and a threshold is a
\* number (policy.py).
ASSUME ScenarioAssumption ==
  \A s \in Scenarios :
    /\ s.disk = [p \in Path |-> s.disk[p]] /\ \A p \in Path : IsNode(s.disk[p])
    /\ s.others.paths \subseteq Path /\ s.others.writes \subseteq Content
    /\ s.request.time \in Int
    /\ s.policy.handoff.maxSkew \in Int /\ s.policy.handoff.maxAge \subseteq Int
    /\ s.policy.identities \cap DOMAIN s.policy.keys = {}
    /\ \A r \in s.policy.rules \cup {s.policy.handoff} : r.minimum \in Nat

VARIABLES
  in,         \* the trust policy and the VerificationRequest, and what the other
              \* processes may do: [edits, paths, writes, inodes]; never changes
  disk,       \* Path -> [kind, inode, bytes], the bundle directory
  edits,      \* how often another process has changed it
  pc,
  inventory,  \* first scan: path -> [kind, inode]
  index,      \* bytes of bundle.json
  manifest,   \* bytes of the handoff envelope
  handoffOK,  \* handoff_authorized
  records,    \* statement_records: digest -> bytes of its envelope
  authorized, \* statements with an authorizing rule
  indexed,    \* keys whose dataset manifest was parsed (indexes)
  states,     \* profile_states of Step 8: <<statement, pin>> -> state
  have,       \* artifact_bytes: key -> captured bytes
  arts,       \* report["artifacts"] as [role, key, status]
  opened,     \* material paths of the bundle opened so far
  errors, checks, decision

vars == <<in, disk, edits, pc, inventory, index, manifest, handoffOK, records,
          authorized, indexed, states, have, arts, opened, errors, checks, decision>>

evidence == <<in, inventory, index, manifest, handoffOK, records, authorized,
              indexed, states, have, arts, opened>>

IndexPath == "bundle.json"

EmptyMap == [x \in {} |-> x]

Init ==
  /\ \E s \in Scenarios :
       /\ in = [policy |-> s.policy, request |-> s.request, others |-> s.others]
       /\ disk = s.disk
  /\ edits = 0
  /\ pc = "scan"
  /\ inventory = EmptyMap
  /\ index = NoBytes /\ manifest = NoBytes
  /\ handoffOK = FALSE
  /\ records = EmptyMap
  /\ authorized = {} /\ indexed = {} /\ states = EmptyMap
  /\ have = EmptyMap /\ arts = {} /\ opened = {}
  /\ errors = {} /\ checks = InitialChecks /\ decision = "none"
-----------------------------------------------------------------------------
(* The report. *)

\* Mutant of Record: add_error without its set_check.
RecordOnly(errs) ==
  /\ errors' = errors \cup errs
  /\ checks' = checks

\* add_error and set_check(owner, "fail") for a set of diagnostics.
Record(errs) ==
  /\ errors' = errors \cup errs
  /\ checks' = FailOwners(checks, errs)

\* finalize_report; its check "decision" always passes.
Finalize(errs, chks) ==
  /\ errors' = errs
  /\ checks' = SetCheck(chks, "decision", "pass", {})
  /\ decision' = Decision(errs)
  /\ pc' = "done"

\* A terminal evidence failure: _block_unreached_checks, then the report.
Terminate(errs, retained, prerequisite, notChecked) ==
  /\ Finalize(errors \cup errs,
              BlockUnreached(FailOwners(checks, errs), retained, prerequisite, notChecked))
  /\ UNCHANGED <<evidence, disk, edits>>

\* An exception nothing catches: no report is returned.
Abort ==
  /\ pc' = "aborted"
  /\ UNCHANGED <<evidence, disk, edits, errors, checks, decision>>
-----------------------------------------------------------------------------
(* The bundle directory. *)

Present == {p \in Path : disk[p].kind # "absent"}

\* _scan_bundle raises: a link, a hard link, or two names that fold together.
UnsafeTree ==
  \/ \E p \in Present : disk[p].kind = "link"
  \/ \E p, q \in Present : p # q /\ (disk[p].inode = disk[q].inode \/ Folded[p] = Folded[q])

Inventory == [p \in Present |-> [kind |-> disk[p].kind, inode |-> disk[p].inode]]

IsInventoriedFile(p) == p \in DOMAIN inventory /\ inventory[p].kind = "file"

\* _safe_read: "ok", or why it raises.  Opening a link with O_NOFOLLOW or a
\* missing name is an OSError, a directory or another inode a BundleError.
ReadStatus(p) ==
  IF ~IsInventoriedFile(p) THEN "absent"
  ELSE IF disk[p].kind \in {"absent", "link"} THEN "oserror"
  ELSE IF disk[p].kind # "file" \/ disk[p].inode # inventory[p].inode THEN "changed"
  ELSE "ok"

Bytes(p) == disk[p].bytes

\* validate_core infers the version of the schema from the member "version" of
\* the envelope and raises a ValueError if no release has that version, which is
\* no EnvelopeLoadFailure: no caller catches it.
EnvelopeRaises(p) == ReadStatus(p) = "ok" /\ EnvelopeOf(Bytes(p)).fault = "version"

\* _load_envelope: the step and the code of an EnvelopeLoadFailure, if any.
LoadFault(p, type) ==
  LET e == EnvelopeOf(Bytes(p))
  IN  IF ReadStatus(p) # "ok"      THEN {<<2, "E_BUNDLE_UNSAFE_PATH">>}
      ELSE IF e.fault = "json"     THEN {<<2, "E_JSON_INVALID">>}
      ELSE IF EnvelopeRaises(p)    THEN {}
      ELSE IF e.fault = "envelope" THEN {<<2, "E_ENVELOPE_MALFORMED">>}
      ELSE IF e.type # type        THEN {<<2, "E_PAYLOAD_TYPE">>}
      ELSE IF e.fault = "payload"  THEN {<<3, "E_JSON_INVALID">>}
      ELSE IF e.fault = "schema"   THEN {<<4, "E_CORE_SCHEMA">>}
      ELSE {}

LoadOwner == [s \in 2..4 |-> IF s = 2 THEN "parse-strictly"
                             ELSE IF s = 3 THEN "index-payloads" ELSE "core-schemas"]

LoadDiagnostics(p, type) ==
  {Diagnostic(f[1], f[2], LoadOwner[f[1]]) : f \in LoadFault(p, type)}
-----------------------------------------------------------------------------
(* Step 1: scan, snapshot the consumer's files, read the index. *)

ScanBundle ==
  /\ pc = "scan"
  /\ \/ /\ UnsafeTree
        /\ Terminate({Diagnostic(1, "E_BUNDLE_UNSAFE_PATH", "load-safely")},
                     {"load-safely"}, "load-safely", {})
     \/ /\ ~UnsafeTree
        /\ inventory' = Inventory
        /\ pc' = "snapshot"
        /\ UNCHANGED <<in, index, manifest, handoffOK, records, authorized, indexed, states,
                       have, arts, opened, disk, edits, errors, checks, decision>>

\* _snapshot_consumer_materials: any consumer file may turn out to be a link,
\* to lie in the bundle, to alias another file or to change while copied.
SnapshotConsumer ==
  /\ pc = "snapshot"
  /\ \/ Terminate({Diagnostic(1, "E_BUNDLE_UNSAFE_PATH", "load-safely")},
                  {"load-safely"}, "load-safely", {})
     \/ /\ pc' = "index"
        /\ UNCHANGED <<evidence, disk, edits, errors, checks, decision>>

IndexUnavailable ==
  /\ pc = "index"
  /\ ReadStatus(IndexPath) # "ok"
  /\ Terminate({Diagnostic(1, IF IsInventoriedFile(IndexPath) THEN "E_BUNDLE_UNSAFE_PATH"
                              ELSE "E_HANDOFF_REQUIRED", "load-safely")},
               {"load-safely"}, "load-safely", {})

\* A material or a dataset entry named by both the bundle and the consumer.
Collision(ix) ==
  \/ DOMAIN ix.artifacts \cap DOMAIN in.request.materials # {}
  \/ DOMAIN ix.entries \cap DOMAIN in.request.entries # {}

ReadIndex ==
  /\ pc = "index"
  /\ ReadStatus(IndexPath) = "ok"
  /\ LET ix == IndexOf(Bytes(IndexPath))
     IN  \/ /\ ix.fault = "json"
            /\ Terminate({Diagnostic(2, "E_JSON_INVALID", "parse-strictly")},
                         {"load-safely", "parse-strictly"}, "parse-strictly", {})
         \/ /\ ix.fault = "schema" \/ (ix.fault = "none" /\ Collision(ix))
            /\ Terminate({Diagnostic(2, "E_CORE_SCHEMA", "core-schemas")},
                         {"load-safely", "parse-strictly", "core-schemas"},
                         "core-schemas", {"index-payloads"})
         \/ /\ ix.fault = "none" /\ ~Collision(ix)
            /\ index' = Bytes(IndexPath)
            /\ pc' = "manifest"
            /\ UNCHANGED <<in, inventory, manifest, handoffOK, records, authorized, indexed,
                           states, have, arts, opened, disk, edits, errors, checks, decision>>

Index == IndexOf(index)
-----------------------------------------------------------------------------
(* Steps 2 to 4: the handoff envelope, then every indexed attestation. *)

ManifestAbsent ==
  /\ pc = "manifest"
  /\ ~IsInventoriedFile(Index.manifest)
  /\ Terminate({Diagnostic(2, "E_HANDOFF_REQUIRED", "parse-strictly")},
               {"load-safely", "parse-strictly"}, "parse-strictly", {})

ManifestRejected ==
  /\ pc = "manifest"
  /\ IsInventoriedFile(Index.manifest)
  /\ \E f \in LoadFault(Index.manifest, "handoff") :
       Terminate({Diagnostic(f[1], f[2], LoadOwner[f[1]])},
                 {"load-safely", "parse-strictly"}
                   \cup {LoadOwner[s] : s \in 3..f[1]},
                 LoadOwner[f[1]], {})

LoadManifest ==
  /\ pc = "manifest"
  /\ \/ EnvelopeRaises(Index.manifest) /\ Abort
     \/ /\ ~EnvelopeRaises(Index.manifest)
        /\ IsInventoriedFile(Index.manifest)
        /\ LoadFault(Index.manifest, "handoff") = {}
        /\ manifest' = Bytes(Index.manifest)
        /\ pc' = "handoff"
        /\ UNCHANGED <<in, inventory, index, handoffOK, records, authorized, indexed, states,
                       have, arts, opened, disk, edits, errors, checks, decision>>

ManifestDigest == EnvelopeOf(manifest).digest
Manifest == HandoffOf(manifest)

\* _record_signature_diagnostics.
SignatureDiagnostics(sigs) ==
  IF \E s \in sigs : Cryptographic(in.policy, s) = "fail"
  THEN {Diagnostic(5, "E_SIGNATURE_INVALID", "signatures")} ELSE {}

AuthorizeHandoff ==
  /\ pc = "handoff"
  /\ LET sigs == EnvelopeOf(manifest).sigs
         ok   == HandoffAuthorized(in.policy, sigs, in.request.time)
     IN  /\ handoffOK' = ok
         /\ Record(SignatureDiagnostics(sigs) \cup
                   (IF ok THEN {}
                    ELSE {Diagnostic(6, "E_SIGNER_UNAUTHORIZED", "authorization-thresholds")}))
  /\ pc' = "attestations"
  /\ UNCHANGED <<in, inventory, index, manifest, records, authorized, indexed, states,
                 have, arts, opened, disk, edits, decision>>

\* The indexed attestations that load and have the digest they are filed under.
Loaded ==
  {d \in DOMAIN Index.attestations :
     /\ LoadFault(Index.attestations[d], "statement") = {}
     /\ EnvelopeOf(Bytes(Index.attestations[d])).digest = d}

AttestationDiagnostics ==
  UNION {LET p == Index.attestations[d]
         IN  IF LoadFault(p, "statement") = {}
             THEN {Diagnostic(3, "E_STATEMENT_DIGEST", "index-payloads")}
             ELSE LoadDiagnostics(p, "statement") :
         d \in DOMAIN Index.attestations \ Loaded}

AttestationRaises == \E d \in DOMAIN Index.attestations : EnvelopeRaises(Index.attestations[d])

LoadAttestations ==
  /\ pc = "attestations"
  /\ \/ AttestationRaises /\ Abort
     \/ /\ ~AttestationRaises
        /\ records' = [d \in Loaded |-> Bytes(Index.attestations[d])]
        /\ Record(AttestationDiagnostics)
        /\ pc' = "authorize"
        /\ UNCHANGED <<in, inventory, index, manifest, handoffOK, authorized, indexed, states,
                       have, arts, opened, disk, edits, decision>>
-----------------------------------------------------------------------------
(* Steps 5 to 7: signatures, thresholds, metadata profiles, authorization. *)

\* load_catalog_resources on the bundle's catalog, which is opened by name on
\* every use: no inventory, no identity, and links are followed.
CatalogFault ==
  IF Index.catalog = {} THEN "none"
  ELSE LET p == CHOOSE q \in Index.catalog : TRUE
       IN  IF disk[p].kind \in {"absent", "dir"} THEN "oserror" ELSE CatalogOf(Bytes(p)).fault

CatalogPins ==
  in.request.catalogs \cup UNION {CatalogOf(Bytes(p)).pins : p \in Index.catalog}

\* validate_with_catalog before it looks at the instance.
Resolution(p) ==
  IF p.id \in {DatasetId, LicenseProfile.id}
  THEN IF p \in {DatasetProfile(p.subject), LicenseProfile} THEN "resolved" ELSE "unresolved"
  ELSE IF CatalogFault \in {"oserror", "malformed"} THEN CatalogFault
  ELSE IF CatalogFault = "mismatch" \/ p.dig \notin CatalogPins THEN "unresolved"
  ELSE "resolved"

\* Mutant of Sigs: the envelope is opened again for its signatures.
SigsOnDisk(d) == EnvelopeOf(Bytes(Index.attestations[d])).sigs

Sigs(d) == EnvelopeOf(records[d]).sigs

Candidates(d) == CandidateRules(in.policy, Stmt[d], Sigs(d), in.request.time)

AuthorizeStatements ==
  /\ pc = "authorize"
  /\ LET none == {d \in DOMAIN records : Candidates(d) = {}}
         errs == (UNION {SignatureDiagnostics(Sigs(d)) : d \in DOMAIN records}) \cup
                 {Diagnostic(6, "E_SIGNER_UNAUTHORIZED", "authorization-thresholds") : d \in none}
     IN  /\ errors' = errors \cup errs
         /\ checks' = IF none = {} THEN FailOwners(checks, errs)
                      ELSE SetCheck(FailOwners(checks, errs), "authorization", "fail", {})
  /\ pc' = "metadata"
  /\ UNCHANGED <<evidence, disk, edits, decision>>

MetadataProfiles(d) == {p \in Stmt[d].profiles : p.target # "artifact"}

\* Only manifest-listed statements have their metadata profiles evaluated.
Listed == DOMAIN records \cap Manifest.statements

PassedProfiles(d) ==
  IF d \notin Listed THEN {}
  ELSE {p \in MetadataProfiles(d) : Resolution(p) = "resolved" /\ <<d, p.dig>> \in Admits}

MetadataUnreadable ==
  \E d \in Listed : \E p \in MetadataProfiles(d) : Resolution(p) \in {"oserror", "malformed"}

MetadataDiagnostics ==
  UNION {{Diagnostic(7, IF Resolution(p) = "resolved" THEN "E_PROFILE_INVALID"
                        ELSE "E_PROFILE_UNRESOLVED", "metadata-profiles") :
            p \in {q \in MetadataProfiles(d) \ PassedProfiles(d) :
                      Resolution(q) = "unresolved" => q.critical}} : d \in Listed}

Authorizing(d) == AuthorizingRules(Candidates(d), Stmt[d], PassedProfiles(d))

ValidateMetadataProfiles ==
  /\ pc = "metadata"
  /\ \/ MetadataUnreadable /\ Abort
     \/ /\ ~MetadataUnreadable
        /\ authorized' = {d \in DOMAIN records : Authorizing(d) # {}}
        /\ Record(MetadataDiagnostics \cup
                  {Diagnostic(7, "E_PROFILE_UNRESOLVED", "authorization") :
                     d \in {e \in DOMAIN records : Candidates(e) # {} /\ Authorizing(e) = {}}})
        /\ pc' = "datasets"
        /\ UNCHANGED <<in, inventory, index, manifest, handoffOK, records, indexed, states,
                       have, arts, opened, disk, edits, decision>>
-----------------------------------------------------------------------------
(* Step 8: _prevalidate_dataset_manifests. *)

\* The key of a subject of an authorized statement, if there is one.
SubjectKey(d, name) ==
  IF d \in authorized /\ name \in DOMAIN Stmt[d].subjects
  THEN {<<d, name, Stmt[d].subjects[name]>>} ELSE {}

EntryEdges ==
  {i \in UNION {Stmt[d].inputs : d \in authorized} :
     i.entry # NoEntry /\ i.pred \in authorized}

RequiredDatasets ==
  (UNION {SubjectKey(i.pred, i.subject) : i \in EntryEdges}) \cup
  (IF handoffOK
   THEN UNION {SubjectKey(m[1], m[2]) :
                 m \in DOMAIN in.request.entries \cup DOMAIN Index.entries}
   ELSE {})

ArtifactProfiles(d, name) ==
  {p \in Stmt[d].profiles : p.target = "artifact" /\ p.subject = name}

FinalKey(a) == <<a.head, a.name, a.digest>>
FinalArtifacts == {Manifest.artifacts[i] : i \in DOMAIN Manifest.artifacts}
FinalKeys == {FinalKey(a) : a \in FinalArtifacts}

MediaTypes(k) ==
  {p.media : p \in ArtifactProfiles(k[1], k[2])} \cup
  UNION {a.media : a \in {b \in FinalArtifacts : FinalKey(b) = k}}

\* More than one media type.
Conflicting(k) == \E m, n \in MediaTypes(k) : m # n

DatasetCandidates ==
  RequiredDatasets \cup
  (UNION {UNION {SubjectKey(d, p.subject) :
                   p \in {q \in Stmt[d].profiles : q.target = "artifact" /\ q.id = DatasetId}} :
          d \in authorized}) \cup
  (IF handoffOK
   THEN UNION {SubjectKey(a.head, a.name) : a \in {b \in FinalArtifacts : b.media = {DatasetMedia}}}
   ELSE {})

\* Mutant of MaterialStatus: the mappings are trusted before the handoff is.
UntimelyMaterialStatus(k) ==
  IF k \notin DOMAIN Index.artifacts \cup DOMAIN in.request.materials THEN "no-bytes"
  ELSE IF k \in DOMAIN in.request.materials THEN "ok"
  ELSE ReadStatus(Index.artifacts[k])

\* Where the bytes of a key come from.  Collision has excluded both sources
\* at once, and an unauthorized handoff makes neither available.
MaterialStatus(k) ==
  IF ~handoffOK \/ k \notin DOMAIN Index.artifacts \cup DOMAIN in.request.materials
  THEN "no-bytes"
  ELSE IF k \in DOMAIN in.request.materials THEN "ok"
  ELSE ReadStatus(Index.artifacts[k])

Material(k) ==
  IF k \in DOMAIN in.request.materials THEN in.request.materials[k] ELSE Bytes(Index.artifacts[k])

\* Mutants of Captured: captured bytes are replaced by a second read; Step 8
\* does not hand its snapshots on.
CapturedAgain(keys) ==
  [k \in DOMAIN have \cup keys |-> IF k \in keys THEN Material(k) ELSE have[k]]

CapturedNothing(keys) == have

\* artifact_bytes after the bytes of more keys were captured.
Captured(keys) ==
  [k \in DOMAIN have \cup keys |-> IF k \in DOMAIN have THEN have[k] ELSE Material(k)]

\* Mutant of DatasetStage: the bytes are parsed without being hashed.
DatasetStageUnhashed(k) ==
  IF DatasetProfile(k[2]) \notin ArtifactProfiles(k[1], k[2]) THEN "profile"
  ELSE IF MaterialStatus(k) # "ok" THEN MaterialStatus(k)
  ELSE IF Conflicting(k) THEN "media"
  ELSE DatasetOf[Material(k)].fault

\* How far the dataset manifest of a key gets; "none" is all the way.
DatasetStage(k) ==
  IF DatasetProfile(k[2]) \notin ArtifactProfiles(k[1], k[2]) THEN "profile"
  ELSE IF MaterialStatus(k) # "ok" THEN MaterialStatus(k)
  ELSE IF Material(k) # k[3] THEN "digest"
  ELSE IF Conflicting(k) THEN "media"
  ELSE DatasetOf[Material(k)].fault

\* Mutant of DatasetCode: absent bytes are never an error.
DatasetCodeLenient(k) ==
  IF DatasetStage(k) \in {"none", "no-bytes", "absent", "changed"} THEN {}
  ELSE {"E_DATASET_MANIFEST_INVALID"}

DatasetCode(k) ==
  LET stage == DatasetStage(k)
      required == k \in RequiredDatasets
  IN  CASE stage \in {"profile", "parse", "schema", "semantic"} -> {"E_DATASET_MANIFEST_INVALID"}
        [] stage \in {"no-bytes", "absent"} ->
             IF required THEN {"E_DATASET_MANIFEST_REQUIRED"} ELSE {}
        [] stage = "changed" -> IF required THEN {"E_BUNDLE_UNSAFE_PATH"} ELSE {}
        [] stage = "oserror" -> {"E_BUNDLE_UNSAFE_PATH"}
        [] stage = "digest"  -> {"E_ARTIFACT_DIGEST"}
        [] stage = "media"   -> {"E_PROFILE_INVALID"}
        [] stage = "none"    -> {}

\* profile_identity, within a statement.
PinOf(p) == <<p.id, p.dig>>

\* The profile states a key leaves.  Their identity has no subject name, so
\* of two subjects of one statement the one later in the loop prevails.
WrittenPins(k) ==
  IF DatasetStage(k) = "media" THEN {PinOf(p) : p \in ArtifactProfiles(k[1], k[2])}
  ELSE IF DatasetStage(k) \in {"digest", "parse", "schema", "semantic", "none"}
  THEN {PinOf(DatasetProfile(k[2]))} ELSE {}

WrittenState(k) ==
  IF DatasetStage(k) \in {"digest", "parse"} THEN "skipped"
  ELSE IF DatasetStage(k) \in {"schema", "media"} THEN "fail" ELSE "pass"

DatasetStates ==
  [w \in UNION {{k[1]} \X WrittenPins(k) : k \in DatasetCandidates} |->
     LET writers == {k \in DatasetCandidates : k[1] = w[1] /\ w[2] \in WrittenPins(k)}
     IN  WrittenState(CHOOSE k \in writers : \A j \in writers : j[2] <= k[2])]

\* What nothing in the loop catches: the ValueError for a manifest with a version
\* no release has, and a catalog that cannot be opened.
DatasetRaises(k) ==
  \/ DatasetStage(k) = "version"
  \/ /\ DatasetStage(k) = "media"
     /\ \E p \in ArtifactProfiles(k[1], k[2]) : Resolution(p) = "oserror"

DatasetUnreadable == \E k \in DatasetCandidates : DatasetRaises(k)

\* The paths _safe_read opens for a set of keys.
OpenedFor(keys) ==
  {Index.artifacts[k] :
     k \in {j \in keys \cap DOMAIN Index.artifacts : IsInventoriedFile(Index.artifacts[j])}}

PrevalidateDatasets ==
  /\ pc = "datasets"
  /\ \/ DatasetUnreadable /\ Abort
     \/ /\ ~DatasetUnreadable
        /\ indexed' = {k \in DatasetCandidates : DatasetStage(k) = "none"}
        /\ have' = Captured({k \in DatasetCandidates :
                               DatasetStage(k) \in {"parse", "schema", "semantic", "none"}})
        /\ states' = DatasetStates
        /\ opened' = opened \cup
                     OpenedFor({k \in DatasetCandidates : DatasetStage(k) \notin {"profile", "no-bytes"}}
                               \ DOMAIN in.request.materials)
        /\ Record({Diagnostic(8, c, "graph-dependency-artifacts") :
                     c \in UNION {DatasetCode(k) : k \in DatasetCandidates}})
        /\ pc' = "graph"
        /\ UNCHANGED <<in, inventory, index, manifest, handoffOK, records, authorized,
                       arts, disk, edits, decision>>
-----------------------------------------------------------------------------
(* Steps 9 and 10: the lineage graph over the usable statements. *)

Usable == Listed \cap authorized
UsableStmt == [d \in Usable |-> Stmt[d]]

\* The parsed member of an indexed dataset manifest.
Member(m) == DatasetOf[have[<<m[1], m[2], Stmt[m[1]].subjects[m[2]]>>]].members[m[3]]

Memberships ==
  [m \in UNION {{<<k[1], k[2], e>> : e \in DOMAIN DatasetOf[have[k]].members} : k \in indexed} |->
     Member(m).digest]

GraphProblems ==
  ProblemCodes(UsableStmt, Memberships, {<<k[1], k[2]>> : k \in indexed})

Reachable == Reached(Predecessors(UsableStmt), Manifest.heads \cap Usable)

UnavailableHeads == Manifest.heads \ Usable

BuildGraph ==
  /\ pc = "graph"
  /\ LET effective == GraphProblems \ {"E_DATASET_MANIFEST_REQUIRED"}
         errs == {Diagnostic(ProblemOwner(c)[1], c, ProblemOwner(c)[2]) : c \in effective}
     IN  /\ errors' = errors \cup errs
         /\ checks' =
              IF effective # {} THEN SetCheck(FailOwners(checks, errs), "graph", "fail", {})
              ELSE IF UnavailableHeads # {}
              THEN SetCheck(SetCheck(checks, "graph", "skipped",
                                     {IF d \in DOMAIN records THEN "authorization"
                                      ELSE "index-payloads" : d \in UnavailableHeads}),
                            "roots-and-heads", "skipped", {"graph"})
              ELSE checks
  /\ pc' = "completeness"
  /\ UNCHANGED <<evidence, disk, edits, decision>>
-----------------------------------------------------------------------------
(* Step 11: the completeness anchor. *)

\* An exact subject of its usable head that no edge consumes.
Eligible(a) ==
  /\ a.head \in Usable
  /\ a.name \in DOMAIN Stmt[a.head].subjects
  /\ Stmt[a.head].subjects[a.name] = a.digest
  /\ FinalKey(a) \notin ConsumedSubjects(UsableStmt)

\* Mutant of SetsAgree: the heads are not compared with the artifacts.
SetsAgreeButHeads ==
  /\ DOMAIN records = Manifest.statements
  /\ Reachable = Manifest.statements
  /\ Roots(UsableStmt) = Manifest.roots

SetsAgree ==
  /\ DOMAIN records = Manifest.statements
  /\ Reachable = Manifest.statements
  /\ Roots(UsableStmt) = Manifest.roots
  /\ {a.head : a \in FinalArtifacts} = Manifest.heads

CheckCompleteness ==
  /\ pc = "completeness"
  /\ handoffOK
  /\ Record(IF SetsAgree /\ \A a \in FinalArtifacts : Eligible(a) THEN {}
            ELSE {Diagnostic(11, "E_MANIFEST_SET", "completeness-anchor")})
  /\ pc' = "final"
  /\ UNCHANGED <<evidence, disk, edits, decision>>

IsExactSubject(k, usable) ==
  k[1] \in usable /\ k[2] \in DOMAIN Stmt[k[1]].subjects /\ Stmt[k[1]].subjects[k[2]] = k[3]

\* _verify_unauthorized_consumer_historical: what the consumer supplied is
\* hashed "without trusting bundle mappings".
ConsumerChecked ==
  {k \in DOMAIN in.request.materials : IsExactSubject(k, Listed) /\ k \notin FinalKeys}

ConsumerDiagnostics ==
  {Diagnostic(11, "E_MANIFEST_SET", "completeness-anchor") :
     k \in DOMAIN in.request.materials \ ConsumerChecked}
  \cup {Diagnostic(12, "E_ARTIFACT_DIGEST", "artifact-bytes") :
          k \in {j \in ConsumerChecked : in.request.materials[j] # j[3]}}

\* The unauthorized handoff: nothing of the bundle is opened any more.
HashConsumerOnly ==
  /\ pc = "completeness"
  /\ ~handoffOK
  /\ LET skipped == SetCheck(SetCheck(checks, "completeness-anchor", "skipped",
                                      {"authorization-thresholds"}),
                             "freshness-anchors", "skipped", {"authorization-thresholds"})
         hashed == FailOwners(skipped, ConsumerDiagnostics)
     IN  /\ errors' = errors \cup ConsumerDiagnostics
         /\ checks' = SetCheck(IF ConsumerChecked # {} THEN hashed
                               ELSE SetCheck(hashed, "artifact-bytes", "not_checked", {}),
                               "artifact-profiles", "not_checked", {})
  /\ pc' = "rescan"
  /\ UNCHANGED <<evidence, disk, edits, decision>>
-----------------------------------------------------------------------------
(* Step 12: exact bytes. *)

\* Why the mapped file of a key is refused, as a set of at most one code.
ReadCode(p) ==
  IF ReadStatus(p) = "ok" THEN {}
  ELSE IF ReadStatus(p) = "absent" THEN {"E_ARTIFACT_MISSING"} ELSE {"E_BUNDLE_UNSAFE_PATH"}

\* Mutant of BytesCode: the bytes are captured without being hashed.
BytesCodeUnhashed(k, p) == ReadCode(p)

BytesCode(k, p) == IF ReadStatus(p) = "ok" /\ Bytes(p) # k[3] THEN {"E_ARTIFACT_DIGEST"} ELSE ReadCode(p)

FinalMapped(k) == k \in DOMAIN Index.artifacts

\* An eligible final artifact whose bytes were captured, now or at Step 8.
FinalPasses(k) ==
  FinalMapped(k) /\ (k \in DOMAIN have \/ BytesCode(k, Index.artifacts[k]) = {})

\* The loop over the manifest's artifacts, in order: an ineligible one marks
\* both artifact checks skipped, over whatever an earlier one left there.
VerifyFinalArtifacts ==
  /\ pc = "final"
  /\ LET n == Len(Manifest.artifacts)
         A(i) == Manifest.artifacts[i]
         eligible == {i \in 1..n : Eligible(A(i))}
         unmapped == {i \in eligible : ~FinalMapped(FinalKey(A(i)))}
         toRead == {i \in eligible \ unmapped : FinalKey(A(i)) \notin DOMAIN have}
         failing == {i \in eligible : ~FinalPasses(FinalKey(A(i)))}
         marks == failing \cup (1..n \ eligible)
         last == CHOOSE i \in marks : \A j \in marks : j <= i
         mapped == IF unmapped = {} THEN checks
                   ELSE SetCheck(checks, "completeness-anchor", "fail", {})
         bytes == IF marks = {} THEN mapped
                  ELSE IF last \in eligible THEN SetCheck(mapped, "artifact-bytes", "fail", {})
                  ELSE SetCheck(mapped, "artifact-bytes", "skipped", {"completeness-anchor"})
     IN  /\ errors' = errors
               \cup {Diagnostic(11, "E_MANIFEST_SET", "completeness-anchor") : i \in unmapped}
               \cup {Diagnostic(12, c, "artifact-bytes") :
                       c \in UNION {BytesCode(FinalKey(A(i)), Index.artifacts[FinalKey(A(i))]) :
                                    i \in toRead}}
         /\ checks' = IF eligible = 1..n THEN bytes
                      ELSE SetCheck(bytes, "artifact-profiles", "skipped", {"completeness-anchor"})
         /\ have' = Captured({FinalKey(A(i)) : i \in eligible \ failing})
         /\ opened' = opened \cup OpenedFor({FinalKey(A(i)) : i \in toRead})
         /\ arts' = {[role |-> "final", key |-> FinalKey(A(i)),
                      status |-> IF i \notin eligible THEN "skipped"
                                 ELSE IF i \in failing THEN "fail" ELSE "pass"] : i \in 1..n}
  /\ pc' = "historical"
  /\ UNCHANGED <<in, inventory, index, manifest, handoffOK, records, authorized, indexed,
                 states, disk, edits, decision>>

\* Subjects of usable reachable statements that carry an artifact profile.
ProfileTargets ==
  UNION {UNION {SubjectKey(d, p.subject) :
                  p \in {q \in Stmt[d].profiles : q.target = "artifact"}} :
         d \in Reachable \cap Usable}

HistoricalKeys ==
  (DOMAIN Index.artifacts \cup DOMAIN in.request.materials \cup ProfileTargets) \ FinalKeys

HistoricalCode(k) ==
  IF ~IsExactSubject(k, Usable) THEN {}
  ELSE IF MaterialStatus(k) = "no-bytes"
    THEN IF \E p \in ArtifactProfiles(k[1], k[2]) : p.critical THEN {"E_ARTIFACT_MISSING"} ELSE {}
  ELSE IF k \in DOMAIN have THEN {}
  ELSE IF k \in DOMAIN Index.artifacts THEN BytesCode(k, Index.artifacts[k])
  ELSE IF Material(k) = k[3] THEN {} ELSE {"E_ARTIFACT_DIGEST"}

VerifyHistorical ==
  /\ pc = "historical"
  /\ LET alien == {k \in HistoricalKeys : ~IsExactSubject(k, Usable)}
         supplied == {k \in HistoricalKeys \ alien : MaterialStatus(k) # "no-bytes"}
         passing == {k \in supplied : HistoricalCode(k) = {}}
     IN  /\ Record({Diagnostic(11, "E_MANIFEST_SET", "completeness-anchor") : k \in alien}
                   \cup {Diagnostic(12, c, "artifact-bytes") :
                           c \in UNION {HistoricalCode(k) : k \in HistoricalKeys}})
         /\ have' = Captured(passing)
         /\ opened' = opened \cup OpenedFor(supplied \ DOMAIN have)
         /\ arts' = arts \cup
              {[role |-> "historical", key |-> k,
                status |-> IF k \in alien THEN "skipped"
                           ELSE IF k \in passing THEN "pass"
                           ELSE IF HistoricalCode(k) = {} THEN "not_checked" ELSE "fail"] :
               k \in HistoricalKeys}
  /\ pc' = "entries"
  /\ UNCHANGED <<in, inventory, index, manifest, handoffOK, records, authorized, indexed,
                 states, disk, edits, decision>>

EntryMembers ==
  {<<i.pred, i.subject, i.entry>> : i \in EntryEdges}
    \cup DOMAIN Index.entries \cup DOMAIN in.request.entries

Supplied(m) == m \in DOMAIN Index.entries \cup DOMAIN in.request.entries
IsIndexed(m) == \E k \in indexed : k[1] = m[1] /\ k[2] = m[2]

SuppliedDigest(m) ==
  IF m \in DOMAIN Index.entries THEN Index.entries[m].digest ELSE in.request.entries[m].digest

EntryStatus(m) ==
  IF m \in DOMAIN in.request.entries THEN "ok"
  ELSE IF Index.entries[m].path \notin DOMAIN inventory THEN "missing"
  ELSE ReadStatus(Index.entries[m].path)

EntryBytes(m) ==
  IF m \in DOMAIN in.request.entries THEN in.request.entries[m].bytes
                                     ELSE Bytes(Index.entries[m].path)

EntryCode(m) ==
  IF m \notin DOMAIN Memberships THEN {"E_DATASET_MANIFEST_INVALID"}
  ELSE IF SuppliedDigest(m) # Member(m).digest THEN {"E_DATASET_MANIFEST_INVALID"}
  ELSE IF EntryStatus(m) = "missing" THEN {"E_ARTIFACT_MISSING"}
  ELSE IF EntryStatus(m) # "ok" THEN {"E_BUNDLE_UNSAFE_PATH"}
  ELSE {c \in {"E_ARTIFACT_DIGEST"} : EntryBytes(m) # Member(m).digest}
         \cup {c \in {"E_ARTIFACT_SIZE"} : \E z \in Member(m).size : SizeOf(EntryBytes(m)) # z}

VerifyDatasetEntries ==
  /\ pc = "entries"
  /\ Record({Diagnostic(8, "E_DATASET_MANIFEST_REQUIRED", "graph-dependency-artifacts") :
               m \in {x \in DOMAIN in.request.entries : ~IsIndexed(x)}}
            \cup {Diagnostic(12, c, "artifact-bytes") :
                    c \in UNION {EntryCode(m) : m \in {x \in EntryMembers : IsIndexed(x) /\ Supplied(x)}}})
  /\ opened' = opened \cup
       {Index.entries[m].path :
          m \in {x \in DOMAIN Index.entries : /\ x \in DOMAIN Memberships
                                              /\ Index.entries[x].digest = Memberships[x]
                                              /\ IsInventoriedFile(Index.entries[x].path)}}
  /\ pc' = "profiles"
  /\ UNCHANGED <<in, inventory, index, manifest, handoffOK, records, authorized, indexed,
                 states, have, arts, disk, edits, decision>>
-----------------------------------------------------------------------------
(* Step 13: content profiles, required profiles; then the freshness anchors. *)

ArtifactConforms(k, p) ==
  IF p.id = DatasetId THEN DatasetOf[have[k]].fault = "none" ELSE <<have[k], p.dig>> \in Conforms

\* Artifact records whose profiles are evaluated.
Profiled ==
  {r.key : r \in {x \in arts : /\ x.key[1] \in DOMAIN records
                               /\ x.status # "skipped"
                               /\ x.key \in DOMAIN have
                               /\ ArtifactProfiles(x.key[1], x.key[2]) # {}}}

IsCached(k, p) == <<k[1], PinOf(p)>> \in DOMAIN states

\* Mutant of Evaluated: only critical profiles are evaluated.
EvaluatedCritical(k) ==
  IF Conflicting(k) THEN {}
  ELSE {p \in ArtifactProfiles(k[1], k[2]) : ~IsCached(k, p) /\ p.critical}

Evaluated(k) ==
  IF Conflicting(k) THEN {} ELSE {p \in ArtifactProfiles(k[1], k[2]) : ~IsCached(k, p)}

\* _parse_artifact runs before the profile is resolved; every ValueError that
\* is not a ProfileResolutionError counts as a format error.
ProfileCode(k, p) ==
  IF <<have[k], p.media>> \notin Parsable THEN {"E_ARTIFACT_FORMAT"}
  ELSE IF Resolution(p) = "malformed" THEN {"E_ARTIFACT_FORMAT"}
  ELSE IF Resolution(p) = "unresolved" THEN {"E_PROFILE_UNRESOLVED"}
  ELSE IF ArtifactConforms(k, p) THEN {} ELSE {"E_PROFILE_INVALID"}

ProfileUnreadable ==
  \E k \in Profiled : \E p \in ArtifactProfiles(k[1], k[2]) :
    /\ Resolution(p) = "oserror"
    /\ Conflicting(k) \/ (p \in Evaluated(k) /\ <<have[k], p.media>> \in Parsable)

ValidateArtifactProfiles ==
  /\ pc = "profiles"
  /\ \/ ProfileUnreadable /\ Abort
     \/ /\ ~ProfileUnreadable
        /\ LET codes == (UNION {UNION {ProfileCode(k, p) : p \in Evaluated(k)} : k \in Profiled})
                        \cup {"E_PROFILE_INVALID" : k \in {j \in Profiled : Conflicting(j)}}
               errs == {Diagnostic(13, c, "artifact-profiles") : c \in codes}
               stale == \E k \in Profiled : \E p \in ArtifactProfiles(k[1], k[2]) :
                          IsCached(k, p) /\ states[<<k[1], PinOf(p)>>] # "pass"
           IN  /\ errors' = errors \cup errs
               /\ checks' = IF stale THEN SetCheck(checks, "artifact-profiles", "fail", {})
                            ELSE FailOwners(checks, errs)
        /\ pc' = "freshness"
        /\ UNCHANGED <<evidence, disk, edits, decision>>

\* _enforce_required_profiles for one requirement.
ProfilePresent(q) ==
  LET matching == {a \in FinalArtifacts : a.name = q.subject /\ \A h \in q.head : a.head = h}
  IN  /\ matching # {}
      /\ \A a \in matching :
           /\ a.head \in DOMAIN records
           /\ \E p \in ArtifactProfiles(a.head, q.subject) :
                p.id = q.id /\ p.dig = q.dig /\ p.media = q.media

RequirementDiagnostics ==
  {Diagnostic(11, "E_REQUIRED_PROFILE_MISSING", "completeness-anchor") :
     q \in {x \in Manifest.required : ~ProfilePresent(x)}}
  \cup {Diagnostic(13, "E_REQUIRED_PROFILE_MISSING", "artifact-profiles") :
          q \in {x \in in.policy.required : ~ProfilePresent(x)}}

\* _evaluate_freshness: the codes of the anchors that were asked for, by the
\* consumer or by its policy, and do not hold.
Age == in.request.time - Manifest.issued

FreshnessMethods ==
  LET rule == in.policy.handoff
      req  == in.request
  IN  {m \in {"expected-manifest", "expected-heads", "expected-artifacts", "nonce", "max-age"} :
         CASE m = "expected-manifest"  -> req.manifest # {} \/ rule.requireManifest
           [] m = "expected-heads"     -> req.heads # {} \/ rule.requireHead
           [] m = "expected-artifacts" -> req.artifacts # {} \/ rule.requireArtifacts
           [] m = "nonce"              -> req.nonce # {} \/ rule.requireNonce
           [] m = "max-age"            -> rule.maxAge # {}}

AnchorHolds(m) ==
  CASE m = "expected-manifest"  -> in.request.manifest = {ManifestDigest}
    [] m = "expected-heads"     -> in.request.heads = Manifest.heads
    [] m = "expected-artifacts" -> in.request.artifacts = FinalKeys
    [] m = "nonce"              -> in.request.nonce # {} /\ in.request.nonce = Manifest.nonce
    [] m = "max-age"            -> \A x \in in.policy.handoff.maxAge :
                                     -in.policy.handoff.maxSkew <= Age /\ Age <= x

AnchorCode(m) ==
  CASE m = "expected-manifest"  -> "E_EXPECTED_MANIFEST"
    [] m = "expected-heads"     -> "E_EXPECTED_HEAD"
    [] m = "expected-artifacts" -> "E_EXPECTED_ARTIFACT"
    [] m = "nonce"              -> "E_HANDOFF_NONCE"
    [] m = "max-age"            -> "E_HANDOFF_STALE"

RecipientChecked == in.request.recipient # {} \/ in.policy.handoff.requireRecipient
RecipientHolds == in.request.recipient # {} /\ in.request.recipient = Manifest.recipient

\* Mutant of FreshnessCodes: one anchor that holds makes up for the others.
FreshnessByAnyAnchor ==
  IF \E m \in FreshnessMethods : AnchorHolds(m) THEN {}
  ELSE {AnchorCode(m) : m \in FreshnessMethods}
       \cup {c \in {"E_FRESHNESS_REQUIRED"} : FreshnessMethods = {} /\ ~in.policy.handoff.allowReplay}

FreshnessCodes ==
  {AnchorCode(m) : m \in {x \in FreshnessMethods : ~AnchorHolds(x)}}
  \cup {c \in {"E_HANDOFF_RECIPIENT"} : RecipientChecked /\ ~RecipientHolds}
  \cup {c \in {"E_FRESHNESS_REQUIRED"} : FreshnessMethods = {} /\ ~in.policy.handoff.allowReplay}

EvaluateFreshness ==
  /\ pc = "freshness"
  /\ Record(RequirementDiagnostics
            \cup {Diagnostic(11, c, "freshness-anchors") : c \in FreshnessCodes})
  /\ pc' = "rescan"
  /\ UNCHANGED <<evidence, disk, edits, decision>>

\* _record_final_rescan and _complete_report.
Rescan ==
  /\ pc = "rescan"
  /\ LET errs == {d \in {Diagnostic(12, "E_BUNDLE_UNSAFE_PATH", "artifact-bytes")} :
                    UnsafeTree \/ Inventory # inventory}
     IN  Finalize(errors \cup errs, FailOwners(checks, errs))
  /\ UNCHANGED <<evidence, disk, edits>>

Verifier ==
  \/ ScanBundle \/ SnapshotConsumer \/ IndexUnavailable \/ ReadIndex
  \/ ManifestAbsent \/ ManifestRejected \/ LoadManifest \/ AuthorizeHandoff
  \/ LoadAttestations \/ AuthorizeStatements \/ ValidateMetadataProfiles
  \/ PrevalidateDatasets \/ BuildGraph \/ CheckCompleteness \/ HashConsumerOnly
  \/ VerifyFinalArtifacts \/ VerifyHistorical \/ VerifyDatasetEntries
  \/ ValidateArtifactProfiles \/ EvaluateFreshness \/ Rescan
-----------------------------------------------------------------------------
(* Other processes, until the report is made.  A replaced file may come back *)
(* with the inode it had before.                                             *)

Edit(p, node) ==
  /\ node # disk[p]
  /\ disk' = [disk EXCEPT ![p] = node]
  /\ edits' = edits + 1
  /\ UNCHANGED <<evidence, pc, errors, checks, decision>>

Rewrite(p, c) == disk[p].kind = "file" /\ Edit(p, [disk[p] EXCEPT !.bytes = c])

Replace(p, c, i) ==
  /\ \A q \in Present : disk[q].inode # i
  /\ Edit(p, [kind |-> "file", inode |-> i, bytes |-> c])

ReplaceByLink(p) == Edit(p, [disk[p] EXCEPT !.kind = "link"])

Remove(p) == Edit(p, [disk[p] EXCEPT !.kind = "absent"])

Environment ==
  /\ pc \notin {"done", "aborted"} /\ edits < in.others.edits
  /\ \E p \in in.others.paths :
       \/ \E c \in in.others.writes : Rewrite(p, c)
       \/ \E c \in in.others.writes, i \in in.others.inodes : Replace(p, c, i)
       \/ ReplaceByLink(p)
       \/ Remove(p)

Reported == pc \in {"done", "aborted"} /\ UNCHANGED vars

Next == Verifier \/ Environment \/ Reported

Spec == Init /\ [][Next]_vars
-----------------------------------------------------------------------------
(* Properties. *)

\* The values the verifier's variables take; parsed dataset manifests are
\* among the captured bytes, authorized statements among the loaded ones.
TypeOK ==
  /\ DOMAIN disk = Path
  /\ edits \in 0..MaxEdits
  /\ pc \in {"scan", "snapshot", "index", "manifest", "handoff", "attestations", "authorize",
             "metadata", "datasets", "graph", "completeness", "final", "historical", "entries",
             "profiles", "freshness", "rescan", "done", "aborted"}
  /\ DOMAIN inventory \subseteq Path
  /\ index \in Content \cup {NoBytes} /\ manifest \in Content \cup {NoBytes}
  /\ handoffOK \in BOOLEAN
  /\ DOMAIN records \subseteq Digest
  /\ authorized \subseteq DOMAIN records
  /\ indexed \subseteq DOMAIN have
  /\ opened \subseteq Path
  /\ errors \subseteq Diagnostics
  /\ checks \in [Checks -> CheckRecord]
  /\ decision \in {"none", "allow", "deny"}

\* Enough different signers of a rule have made a good signature with a key
\* the policy configures and that is valid at the evaluation time.
Endorsed(rule, sigs) ==
  \E K \in SUBSET rule.signers :
    /\ Cardinality(K) >= rule.minimum
    /\ \A k \in K : \E s \in sigs :
         /\ s.keyid = k /\ s.good
         /\ IF s.keyless THEN k \in in.policy.identities /\ in.policy.trustRoot
            ELSE /\ k \in DOMAIN in.policy.keys
                 /\ \A b \in in.policy.keys[k].validFrom : in.request.time >= b
                 /\ \A b \in in.policy.keys[k].validUntil : in.request.time < b

\* An allowed handoff and every statement it lists carry the signatures the
\* policy asks for: some rule matches the statement, its threshold is met at
\* the evaluation time, and the profiles the rule pins validate.
AllowMeansAuthorized ==
  decision = "allow" =>
    /\ EnvelopeOf(manifest).type = "handoff"
    /\ Endorsed(in.policy.handoff, EnvelopeOf(manifest).sigs)
    /\ \A d \in Manifest.statements :
         /\ d \in DOMAIN records /\ EnvelopeOf(records[d]).digest = d
         /\ \E r \in in.policy.rules :
              /\ RuleMatches(r, Stmt[d])
              /\ Endorsed(r, EnvelopeOf(records[d]).sigs)
              /\ \A c \in r.constraints : c.dig # {} =>
                   \E p \in Stmt[d].profiles :
                     ProfileConstraintMatches(c, p) /\ <<d, p.dig>> \in Admits

\* An allowed handoff lists a whole lineage: the signed statement set is
\* closed under predecessors, acyclic, rooted in exactly the listed roots, all
\* origins, and every statement is upstream of a listed head.
AllowMeansComplete ==
  decision = "allow" =>
    LET S == [d \in Manifest.statements |-> Stmt[d]]
    IN  /\ DOMAIN Index.attestations = Manifest.statements
        /\ Manifest.heads \subseteq Manifest.statements
        /\ Manifest.roots = {d \in Manifest.statements : S[d].type = "origin"}
        /\ Acyclic(Predecessors(S))
        /\ Reached(Predecessors(S), Manifest.heads) = Manifest.statements
        /\ \A d, e \in Manifest.statements : S[d].event = S[e].event => d = e

\* Every input of an allowed lineage is what its predecessor signed: a subject
\* with that digest, or a member of a dataset manifest whose exact bytes were
\* captured and parsed.
AllowMeansLineageIntact ==
  decision = "allow" =>
    \A d \in Manifest.statements : \A i \in Stmt[d].inputs :
      /\ i.pred \in Manifest.statements
      /\ i.subject \in DOMAIN Stmt[i.pred].subjects
      /\ LET subject == Stmt[i.pred].subjects[i.subject]
             key == <<i.pred, i.subject, subject>>
         IN  IF i.entry = NoEntry THEN subject = i.digest
             ELSE /\ key \in DOMAIN have /\ have[key] = subject
                  /\ DatasetOf[subject].fault = "none"
                  /\ i.entry \in DOMAIN DatasetOf[subject].members
                  /\ DatasetOf[subject].members[i.entry].digest = i.digest

\* Every final artifact of an allowed handoff is a subject of its head that
\* nothing downstream consumed, its captured bytes have the signed digest, and
\* the bytes behind every critical content profile were captured too.
AllowMeansBytesVerified ==
  decision = "allow" =>
    /\ \A a \in FinalArtifacts :
         /\ a.head \in Manifest.heads
         /\ a.name \in DOMAIN Stmt[a.head].subjects
         /\ FinalKey(a) \in DOMAIN have /\ have[FinalKey(a)] = a.digest
         /\ \A d \in Manifest.statements : \A i \in Stmt[d].inputs :
              i.entry = NoEntry => <<i.pred, i.subject, i.digest>> # FinalKey(a)
    /\ \A d \in Manifest.statements : \A p \in Stmt[d].profiles :
         p.target = "artifact" /\ p.critical /\ p.subject \in DOMAIN Stmt[d].subjects =>
           LET key == <<d, p.subject, Stmt[d].subjects[p.subject]>>
           IN  key \in DOMAIN have /\ have[key] = key[3]

\* Captured bytes of an allowed handoff parse and conform under every content
\* profile their statement declares for them, even if one change was made to
\* the directory: a single change cannot be undone before the final rescan.
AllowMeansConforming ==
  decision = "allow" /\ edits <= 1 =>
    \A k \in DOMAIN have : \A p \in ArtifactProfiles(k[1], k[2]) :
      <<have[k], p.media>> \in Parsable /\ ArtifactConforms(k, p)

\* Bytes are captured once: no later step replaces what an earlier one hashed,
\* whatever has become of the file.
CapturedOnce ==
  [][\A k \in DOMAIN have : k \in DOMAIN have' /\ have'[k] = have[k]]_vars

\* Whatever anchor the consumer supplied, or its policy demands, holds of an
\* allowed handoff; one without any is allowed only by explicit policy.
AllowMeansFresh ==
  decision = "allow" =>
    /\ \A m \in in.request.manifest : m = ManifestDigest
    /\ in.request.heads \in {{}, Manifest.heads}
    /\ in.request.artifacts \in {{}, FinalKeys}
    /\ in.request.nonce \in {{}, Manifest.nonce}
    /\ in.request.recipient \in {{}, Manifest.recipient}
    /\ in.policy.handoff.requireNonce => Manifest.nonce # {}
    /\ in.policy.handoff.requireRecipient => in.request.recipient # {}
    /\ \A x \in in.policy.handoff.maxAge :
         in.request.time - Manifest.issued \in -in.policy.handoff.maxSkew..x
    /\ \/ \E m \in FreshnessMethods : AnchorHolds(m)
       \/ in.policy.handoff.allowReplay

\* The decision and the checks of a report tell the same story: allow exactly
\* when all sixteen checks pass, and no check passes that owns an error.
DecisionMatchesChecks ==
  decision # "none" =>
    /\ decision = "allow" <=> \A c \in Checks : checks[c].status = "pass"
    /\ \A e \in errors : checks[e.owner].status # "pass"

\* Every finished report satisfies the report schema's prerequisite rules: a
\* check names prerequisites exactly when it is skipped, and only earlier ones.
PrerequisitesWellFormed ==
  decision # "none" =>
    \A c \in Checks : /\ checks[c].status = "skipped" <=> checks[c].pre # {}
                      /\ checks[c].pre \subseteq EarlierChecks(c)

\* The graph problem E_DATASET_MANIFEST_REQUIRED, which _verify_bundle drops,
\* is never the only trace of a missing dataset manifest: Step 8 denied it.
DatasetGapReported ==
  /\ pc \in {"completeness", "final", "historical", "entries", "profiles", "freshness", "rescan"}
  /\ "E_DATASET_MANIFEST_REQUIRED" \in GraphProblems
  => \E e \in errors : e.step = 8

\* No artifact or dataset entry of the bundle is opened on behalf of a handoff
\* that is not authorized ("without trusting bundle mappings").
UnauthorizedOpensNothing ==
  ~handoffOK => opened = {}

\* What makes it inductive: nothing is opened before the handoff is judged,
\* and the steps that open without asking come after an authorized one.
OpeningInv ==
  /\ UnauthorizedOpensNothing
  /\ pc \in {"scan", "snapshot", "index", "manifest", "handoff"} => opened = {}
  /\ pc \in {"final", "historical", "entries"} => handoffOK
-----------------------------------------------------------------------------
(* What the repository's specification says of the report, and the code does *)
(* not do.                                                                   *)

\* "Once Step 1 recorded a target as present, disappearance, replacement [...]
\* is a detected source mutation": however often a file is swapped, captured
\* bytes of an allowed handoff were evaluated under their content profiles.
ConformsDespiteEdits ==
  decision = "allow" =>
    \A k \in DOMAIN have : \A p \in ArtifactProfiles(k[1], k[2]) :
      <<have[k], p.media>> \in Parsable /\ ArtifactConforms(k, p)
=============================================================================
