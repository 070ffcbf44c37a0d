---------------------------- MODULE HandoffCreate ----------------------------
(***************************************************************************)
(* What handoff create puts into a bundle: the checks and the contents of  *)
(* write_handoff_bundle (bundle.py) up to the rename that BundlePublish    *)
(* models, with create_handoff (model.py), as operators.                   *)
(*                                                                         *)
(* A job is the arguments of one call:                                     *)
(*   attestations : a sequence of [digest, envelope], the envelope's bytes *)
(*   version      : protocol_version                                       *)
(*   heads        : a sequence of statement digests                        *)
(*   finals       : a sequence of [head, name, data, media]                *)
(*   historical, datasets : sequences of [statement, name, data]           *)
(*   entries      : a sequence of [statement, name, entry, data]           *)
(*   catalogs     : {} or {the <<id, digest>> the given catalogs resolve}  *)
(*   external     : a sequence of profiles the consumer is to resolve      *)
(*   required, recipient, nonce, issued : as in a handoff manifest         *)
(* Every refusal is an exception before the output path is touched, so the *)
(* order of the checks is not seen from outside.  Paths are derived from   *)
(* identities by hashing; here they are constant functions of them.        *)
(***************************************************************************)
EXTENDS Integers, Sequences, SequencesExt, LineageGraph, ContentProfiles

CONSTANTS Stmt, DatasetOf, SizeOf(_),   \* as in VerifyBundle
          ManifestPath, CatalogPath, AttestationPath, ArtifactPath, EntryPath

Distinct(s) == IsInjective(s)

\* s with Op applied to every element.
Each(s, Op(_)) == [i \in DOMAIN s |-> Op(s[i])]
-----------------------------------------------------------------------------
(* What is refused. *)

Digests(j) == Each(j.attestations, LAMBDA a : a.digest)
Attested(j) == ToSet(Digests(j))
AttestationsFit(j) ==
  Distinct(Digests(j)) /\ \A d \in Attested(j) : Stmt[d].version = j.version

\* Attestation.subject finds the name, and the bytes have its digest.
Signs(d, name, data) == name \in DOMAIN Stmt[d].subjects /\ Stmt[d].subjects[name] = data

MaterialKey(m) == <<m.statement, m.name, m.data>>

\* One statement of the bundle and one use per material, whichever list it is in.
MaterialsFit(j) ==
  LET supplied == j.historical \o j.datasets
  IN  /\ \A m \in ToSet(supplied) : m.statement \in Attested(j) /\ Signs(m.statement, m.name, m.data)
      /\ Distinct(Each(supplied, MaterialKey))

DatasetsFit(j) ==
  \A m \in ToSet(j.datasets) :
    /\ DatasetProfile(m.name) \in Stmt[m.statement].profiles
    /\ DatasetOf[m.data].fault = "none"

\* dataset_memberships: <<statement, subject, entry>> -> member digest.
DatasetMemberships(j) ==
  [e \in UNION {{<<m.statement, m.name, x>> : x \in DOMAIN DatasetOf[m.data].members} :
                m \in ToSet(j.datasets)} |->
     DatasetOf[Stmt[e[1]].subjects[e[2]]].members[e[3]].digest]

EntryId(x) == <<x.statement, x.name, x.entry>>

EntriesFit(j) ==
  /\ \A x \in ToSet(j.entries) :
       \E m \in ToSet(j.datasets) :
         /\ m.statement = x.statement /\ m.name = x.name
         /\ x.entry \in DOMAIN DatasetOf[m.data].members
         /\ LET member == DatasetOf[m.data].members[x.entry]
            IN  member.digest = x.data /\ \A z \in member.size : z = SizeOf(x.data)
  /\ Distinct(Each(j.entries, EntryId))

Lineage(j) == [d \in Attested(j) |-> Stmt[d]]

\* The statements are exactly the valid graph the heads lead to.  build_graph
\* is not told which manifests were parsed; either way an unknown entry is a
\* problem.
LineageFits(j) ==
  /\ ProblemCodes(Lineage(j), DatasetMemberships(j), {}) = {}
  /\ Reached(Predecessors(Lineage(j)), ToSet(j.heads)) = Attested(j)

HeadsFit(j) ==
  Distinct(j.heads) /\ ToSet(j.heads) = {a.head : a \in ToSet(j.finals)}

FinalId(a) == <<a.head, a.name, a.data>>

DeclaredMedia(d, name) ==
  {p.media : p \in {q \in Stmt[d].profiles : q.target = "artifact" /\ q.subject = name}}

AtMostOne(T) == \A x, y \in T : x = y

\* Mutant of FinalsFit: a final artifact may have been consumed.
FinalsFitConsumed(j) ==
  \A a \in ToSet(j.finals) : AtMostOne(DeclaredMedia(a.head, a.name) \cup a.media)

\* Nothing downstream consumed a final artifact, and one media type is said of it.
FinalsFit(j) ==
  \A a \in ToSet(j.finals) :
    /\ FinalId(a) \notin ConsumedSubjects(Lineage(j))
    /\ AtMostOne(DeclaredMedia(a.head, a.name) \cup a.media)

\* What create_handoff asks before it signs, the core schema's rule that no
\* artifact is listed twice included.
HandoffFits(j) ==
  /\ j.attestations # << >> /\ j.finals # << >> /\ Roots(Lineage(j)) # {}
  /\ \A a \in ToSet(j.finals) : Signs(a.head, a.name, a.data)
  /\ Distinct(Each(j.finals, FinalId))
-----------------------------------------------------------------------------
(* The catalog of the bundle: _select_exported_schema_resources. *)

Pin(p) == <<p.id, p.dig>>
CorePin == Pin(DatasetProfile(1))

Exporting(j) == j.catalogs # {} \/ j.external # << >>
Resources(j) == UNION j.catalogs
SelectedProfiles(j) == UNION {Stmt[d].profiles : d \in Attested(j)}

\* The profiles whose schemas the bundle has to bring along.
Embedded(j) ==
  {p \in SelectedProfiles(j) \ ToSet(j.external) : p.id # LicenseProfile.id}

ShadowsCore(pin) == pin[1] = CorePin[1] /\ pin # CorePin

ExportFits(j) ==
  Exporting(j) =>
    /\ \A r \in Resources(j) : ~ShadowsCore(r)
    /\ Distinct(j.external) /\ ToSet(j.external) \subseteq SelectedProfiles(j)
    /\ \A p \in Embedded(j) : Pin(p) \in Resources(j) \cup {CorePin}

Exported(j) == IF Exporting(j) THEN {Pin(p) : p \in Embedded(j)} \ {CorePin} ELSE {}

Accepts(j) ==
  /\ AttestationsFit(j) /\ MaterialsFit(j) /\ DatasetsFit(j) /\ EntriesFit(j)
  /\ HeadsFit(j) /\ HandoffFits(j) /\ ExportFits(j)
  /\ FinalsFit(j) /\ LineageFits(j)
-----------------------------------------------------------------------------
(* What is written. *)

Precedes(a, b) == a.head < b.head \/ (a.head = b.head /\ a.name < b.name)

\* The final artifacts, sorted.
Arranged(finals) ==
  CHOOSE s \in [1..Len(finals) -> ToSet(finals)] :
    /\ \A a \in ToSet(finals) : \E i \in DOMAIN s : s[i] = a
    /\ \A i, k \in DOMAIN s : i < k => ~Precedes(s[k], s[i])

\* create_handoff: the manifest that is signed.
CreateHandoff(j) ==
  [statements |-> Attested(j),
   heads      |-> {a.head : a \in ToSet(j.finals)},
   roots      |-> Roots(Lineage(j)),
   artifacts  |-> Each(Arranged(j.finals),
                       LAMBDA a : [head |-> a.head, name |-> a.name, digest |-> a.data, media |-> a.media]),
   required   |-> j.required,
   recipient  |-> j.recipient,
   nonce      |-> j.nonce,
   issued     |-> j.issued]

\* A material that is also a final artifact is written once, as the latter.
MaterialKeys(j) ==
  {FinalId(a) : a \in ToSet(j.finals)} \cup {MaterialKey(m) : m \in ToSet(j.historical \o j.datasets)}

CreateIndex(j) ==
  [fault        |-> "none",
   manifest     |-> ManifestPath,
   attestations |-> [d \in Attested(j) |-> AttestationPath[d]],
   artifacts    |-> [k \in MaterialKeys(j) |-> ArtifactPath[k]],
   entries      |-> [e \in {EntryId(x) : x \in ToSet(j.entries)} |->
                       [path |-> EntryPath[e],
                        digest |-> (CHOOSE x \in ToSet(j.entries) : EntryId(x) = e).data]],
   catalog      |-> IF Exported(j) = {} THEN {} ELSE {CatalogPath}]

\* The files besides the index, the manifest and the catalog: <<path, bytes>>.
CreateFiles(j) ==
  {<<AttestationPath[a.digest], a.envelope>> : a \in ToSet(j.attestations)}
  \cup {<<ArtifactPath[k], k[3]>> : k \in MaterialKeys(j)}
  \cup {<<EntryPath[EntryId(x)], x.data>> : x \in ToSet(j.entries)}
-----------------------------------------------------------------------------
(* The command line: a material that carries the dataset profile is a       *)
(* dataset manifest, any other a historical artifact.                       *)

IsDataset(m) == DatasetProfile(m.name) \in Stmt[m.statement].profiles

DatasetBindings(materials) == SelectSeq(materials, IsDataset)
HistoricalBindings(materials) == SelectSeq(materials, LAMBDA m : ~IsDataset(m))
==============================================================================
