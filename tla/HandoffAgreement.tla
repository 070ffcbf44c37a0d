--------------------------- MODULE HandoffAgreement ---------------------------
(***************************************************************************)
(* Creation and verification composed: VerifyBundle over directories that  *)
(* HandoffCreate made.  A creation is over before anybody verifies its     *)
(* bundle, since the directory is renamed into place whole                 *)
(* (BundlePublish).                                                        *)
(***************************************************************************)
EXTENDS VerifyBundle

CONSTANTS ManifestPath, CatalogPath, AttestationPath, ArtifactPath, EntryPath,
          JobsOf(_)  \* the job that made the handoff in an envelope, if one did

Producer == INSTANCE HandoffCreate

\* A list of arguments.
IsList(s) == s \in Seq(Producer!ToSet(s))

\* The arguments of a creation: lists, of attestations that were parsed.
IsJob(j) ==
  /\ \A f \in {"attestations", "heads", "finals", "historical", "datasets", "entries"} : IsList(j[f])
  /\ \A a \in Producer!ToSet(j.attestations) :
       LET e == EnvelopeOf(a.envelope)
       IN  e.fault = "none" /\ e.type = "statement" /\ e.digest = a.digest

\* A directory with everything a job has written besides the handoff.
Published(files, j) ==
  /\ files[IndexPath].kind = "file"
  /\ IndexOf(files[IndexPath].bytes) = Producer!CreateIndex(j)
  /\ Producer!Exported(j) # {} =>
       /\ files[CatalogPath].kind = "file"
       /\ CatalogOf(files[CatalogPath].bytes).fault = "none"
       /\ CatalogOf(files[CatalogPath].bytes).pins = {r[2] : r \in Producer!Exported(j)}
  /\ \A f \in Producer!CreateFiles(j) :
       f[1] \in Path /\ files[f[1]].kind = "file" /\ files[f[1]].bytes = f[2]

\* Nobody moves files between bundles: unless other processes may change the
\* directory, a handoff that a job made comes with all that job published, and
\* the job is one that creation accepts.
ASSUME PublishedAssumption ==
  /\ {IndexPath, ManifestPath, CatalogPath} \subseteq Path
  /\ \A s \in Scenarios : s.others.edits = 0 =>
       \A p \in Path : s.disk[p].kind = "file" =>
         \A j \in JobsOf(s.disk[p].bytes) :
           /\ JobsOf(s.disk[p].bytes) = {j}
           /\ IsJob(j) /\ Producer!Accepts(j)
           /\ HandoffOf(s.disk[p].bytes) = Producer!CreateHandoff(j)
           /\ Published(s.disk, j)
-----------------------------------------------------------------------------
IsCreated == manifest # NoBytes /\ JobsOf(manifest) # {}
TheJob == CHOOSE j \in JobsOf(manifest) : TRUE

\* The consumer trusts whoever signed the manifest and the statements.
TrustsProducer ==
  /\ Endorsed(in.policy.handoff, EnvelopeOf(manifest).sigs)
  /\ \A a \in Producer!ToSet(TheJob.attestations) :
       \E r \in in.policy.rules : /\ r.constraints = {}
                                  /\ RuleMatches(r, Stmt[a.digest])
                                  /\ Endorsed(r, EnvelopeOf(a.envelope).sigs)

\* None of their signatures is a bad one.
SignaturesHold ==
  \A c \in {manifest} \cup {a.envelope : a \in Producer!ToSet(TheJob.attestations)} :
    \A s \in EnvelopeOf(c).sigs : Cryptographic(in.policy, s) # "fail"

\* The schema of a profile, which its digest tells, is one the verifier owns, or
\* the producer brought along, or the consumer has.
IsResolvable(p) ==
  IF p.id \in {DatasetId, LicenseProfile.id} THEN p \in {DatasetProfile(p.subject), LicenseProfile}
  ELSE p.dig \in in.request.catalogs \cup {r[2] : r \in Producer!Exported(TheJob)}

\* The subjects whose bytes the consumer has, from the bundle or on its own.
Held == Producer!MaterialKeys(TheJob) \cup DOMAIN in.request.materials

\* What creation leaves unasked: the metadata is valid.
MetadataHolds ==
  \A d \in Producer!Attested(TheJob) : \A p \in MetadataProfiles(d) :
    IF IsResolvable(p) THEN <<d, p.dig>> \in Admits ELSE ~p.critical

\* The bytes of each subject with a content profile are there, and conform to
\* it, or the profile is not critical; there is one profile of datasets.
ContentHolds ==
  \A d \in Producer!Attested(TheJob) : \A n \in DOMAIN Stmt[d].subjects :
    LET k == <<d, n, Stmt[d].subjects[n]>>
        profiles == ArtifactProfiles(d, n)
    IN  /\ \A p \in profiles : p.id = DatasetId => p = DatasetProfile(n)
        /\ IF k \in Held
           THEN /\ Producer!AtMostOne(Producer!DeclaredMedia(d, n))
                /\ \A p \in profiles :
                     /\ <<k[3], p.media>> \in Parsable
                     /\ IF p.id = DatasetId THEN DatasetOf[k[3]].fault = "none"
                        ELSE IsResolvable(p) /\ <<k[3], p.dig>> \in Conforms
           ELSE \A p \in profiles : ~p.critical

\* A final artifact that is said to be a dataset manifest declares to be one.
MediaHolds ==
  \A a \in Producer!ToSet(TheJob.finals) :
    a.media = {DatasetMedia} => DatasetProfile(a.name) \in Stmt[a.head].profiles

\* The profiles the manifest and the policy require of final artifacts are
\* declared by the artifacts' statements.
RequirementsHold ==
  \A q \in TheJob.required \cup in.policy.required :
    LET matching == {a \in Producer!ToSet(TheJob.finals) : a.name = q.subject /\ \A h \in q.head : a.head = h}
    IN  /\ matching # {}
        /\ \A a \in matching : \E p \in ArtifactProfiles(a.head, q.subject) :
             p.id = q.id /\ p.dig = q.dig /\ p.media = q.media

\* What the consumer adds are the right bytes of subjects of the lineage, and
\* of members of its datasets.
SuppliesFit ==
  /\ \A k \in DOMAIN in.request.materials :
       /\ k[1] \in Producer!Attested(TheJob) /\ Producer!Signs(k[1], k[2], k[3])
       /\ in.request.materials[k] = k[3]
  /\ \A m \in DOMAIN in.request.entries :
       /\ m[1] \in Producer!Attested(TheJob) /\ m[2] \in DOMAIN Stmt[m[1]].subjects
       /\ DatasetProfile(m[2]) \in Stmt[m[1]].profiles
       /\ LET supply == in.request.entries[m]
              manifestBytes == Stmt[m[1]].subjects[m[2]]
              members == DatasetOf[manifestBytes].members
          IN  /\ <<m[1], m[2], manifestBytes>> \in Held
              /\ m[3] \in DOMAIN members
              /\ {supply.digest, supply.bytes} = {members[m[3]].digest}
              /\ \A z \in members[m[3]].size : z = SizeOf(supply.bytes)

\* Only a malformed bundle explains these codes, the last one unless the
\* consumer adds members of datasets that it does not have.
Malformed ==
  {"E_JSON_INVALID", "E_ENVELOPE_MALFORMED", "E_PAYLOAD_TYPE", "E_CORE_SCHEMA",
   "E_STATEMENT_DIGEST", "E_PREDECESSOR_MISSING", "E_PREDECESSOR_SUBJECT", "E_INPUT_DIGEST",
   "E_GRAPH_CYCLE", "E_ROOT_INVALID", "E_EVENT_ID_DUPLICATE",
   "E_PREDICATE_SEMANTICS_UNSUPPORTED"}
  \cup {c \in {"E_DATASET_MANIFEST_REQUIRED"} : DOMAIN in.request.entries = {}}

ClaimsHold ==
  /\ SignaturesHold /\ SuppliesFit /\ MetadataHolds /\ ContentHolds /\ MediaHolds
  /\ RequirementsHold

\* Producer and consumer agree on what a lineage is.  A bundle that creation
\* accepted and nobody touched is never called malformed by a consumer who
\* trusts its signers: its lineage is closed, rooted, acyclic and complete, and
\* every file is where the index says.  The consumer allows it, unless the
\* signed claims do not hold, which creation does not look into, or a freshness
\* anchor is not met.
CreatedIsAllowed ==
  decision # "none" /\ IsCreated /\ in.others.edits = 0 /\ TrustsProducer =>
    /\ \A e \in errors : e.code \notin Malformed
    /\ ClaimsHold => decision = "allow" \/ FreshnessCodes # {}
==============================================================================
