# A TLA+ model of Makoto

Makoto is a Python library and command line tool for handing data over between
organisations with signed provenance.  A *producer* signs statements (origins
and transforms), each committing to the digests of the statements and artifacts
it was made from, and a *handoff manifest* that lists the statements, heads,
roots and final artifacts of a lineage.  `create-handoff` writes all of it into
a *bundle* directory.  A *consumer* runs the verifier over such a directory with
a trust policy and a request; the answer is a report with sixteen checks, a list
of diagnostics and one decision, `allow` or `deny`.

What matters is that `allow` means what it says, although the bundle comes from
somebody else, may be broken in any part, and may change while it is read; and
that the producer never publishes half a bundle, nor one a consumer has to call
malformed.

Source paths below are relative to `src/src/makoto/`.

## 1. Inventory

| component | state it keeps | operations | modelled in |
|---|---|---|---|
| Bundle verifier (`bundle.py`) | first inventory of the directory, index, manifest, statement records, authorized statements, dataset indexes, profile states, captured bytes, artifact records | `verify_bundle`, thirteen protocol steps with many early returns | `VerifyBundle`, `MCVerifyBundle`, `VerifyBundleProofs` |
| Verification report (`report.py`) | checks with status and prerequisites, errors, decision | `new_report`, `set_check`, `add_error`, `_block_unreached_checks`, `finalize_report` | `VerificationReport`, `VerifyBundleProofs` |
| Trust policy (`policy.py`) | keys with validity windows, keyless identities, rules, handoff rule | signature evaluation, `authorize_statement`, `finalize_statement_authorization`, `authorize_handoff` | `TrustPolicy` |
| Lineage graph (`graph.py`) | nodes, predecessors, problems | `build_graph`, `_cycle_members`, `reachable_from_heads` | `LineageGraph`, `LineageWalk`, `LineageWalkProofs` |
| Handoff creation, publication (`bundle.py` 346-470) | staged directory, output path | staging, removal of the old output, rename, clean-up | `BundlePublish`, `BundlePublishProofs` |
| Handoff creation, assembly (`bundle.py` 203-345, `model.py`) | - | what `write_handoff_bundle` and `create_handoff` refuse, and the index, manifest, catalog and files they write | `HandoffCreate`, `ContentProfiles`; with the verifier in `HandoffAgreement`, `VerifyBundleProofs` |
| Dataset manifests (`dataset.py`) | parsed members | `parse_dataset_manifest` | a constant of `VerifyBundle` |
| Catalogs and profiles (`schema.py`, `schema_catalog.py`) | resources by pin | `load_catalog_resources`, `validate_with_catalog`, the two built-in profiles | `Resolution` in `VerifyBundle`, `ContentProfiles`; validation itself is a constant |
| Profile patterns (`pattern.py`) | parse position, state list, open ends; active states and operations of a search | `compile_pattern`, `CompiledPattern.search` | `PatternSyntax`, `PatternMatch`, `PatternLanguage`, `MCPattern`, `PatternMatchProofs` |
| Assurance, VSAs (`assurance.py`) | evidence of a run and its repetitions, best level and groups per track, diagnostics, properties | `load_run_evidence`, `evaluate_summary`, `create_summary_vsa`, `create_assessment_vsa` | `Assurance`, `MCAssurance`, `AssuranceProofs` |
| Record Merkle proofs (`records.py`) | tree level, audit path; index, last and value of a verification | `merkle_root`, `merkle_audit_path`, `verify_record_inclusion_proof` | `RecordMerkle`, `RecordMerkleProofs` |
| Record commands (`cli.py` 881-1045) | the bundle's files, read a second time | `_verified_record_entry`, count check of `record verify` | `RecordEntry`, `MCRecordEntry`, `RecordEntryProofs`, `RecordMerkle` |
| Command line (`cli.py`) | output files, temporary files | `_write_json`, `_atomic_write`, `key generate`, `vsa summarize` | `OutputFiles`, `OutputCommits`, `MCOutputFiles`, `OutputFilesProofs` |
| Strict JSON, core schemas (`schema.py`, `protocol.py`) | - | predicates on documents | the `fault` of a parsed byte string |
| DSSE, Ed25519, Sigstore (`dsse.py`, `digest.py`, `sigstore.py`) | - | encodings and cryptography | a Boolean per signature |
| Licence expressions, tables, benchmark, demos, scripts | - | - | no |

**Interaction.**  `cli.py` calls `verify_bundle`, `write_handoff_bundle` and
`evaluate_summary`.  The
verifier calls the policy twice per statement (candidates at Step 6, final
authorization at Step 7, after the metadata profiles), the dataset parser at
Step 8, `build_graph` at Step 9 with the members Step 8 produced, and writes the
report as it goes.  Steps are coupled by shared variables: bytes captured at
Step 8 are judged at Steps 9, 12 and 13, and profile states of Step 8 are
trusted at Step 13.  The bundle directory is shared with everybody else on the
machine, as is the output path of a creation and of every other command.
Creation runs a `build_graph` of its own; the directory it makes is what a
verifier elsewhere judges.  The record commands call the verifier and then read
the index, a dataset manifest and an envelope of the same directory once more
before they fold an audit path.  A summary is made from reports that
verifications wrote earlier and from envelopes that are loaded anew, each read
twice.

**What is hard.**  A verification is one thread, but its directory is not its
own: between any two opens a file may be rewritten, replaced, linked or removed,
and put back before the final rescan.  Checks start out as `pass` and are folded
by assignment, so early returns and later items must not leave or restore a
`pass`.  Producer and consumer decide independently what a well-formed lineage
is, and have to agree.  Creations race on one output path with check-then-act,
and may be killed at any point; so do all commands that write a file.  The level
of a summary must not depend on the order in which assessments are given.  The
pattern compiler counts the states of an automaton before it builds it, and
patches dangling ends in place.  `PROJECT.json` lists these places by line as
hazards, each with the properties that watch it.

**What makes it correct.**

* verifier: an allowed handoff and each of its statements are endorsed by the
  policy; the lineage is closed, acyclic, rooted in origins and exactly the
  listed one; every input is what its predecessor signed; all bytes that count
  were hashed, and once captured are not read again; content profiles hold;
  every requested anchor holds; nothing is opened for an unauthorized handoff.
* report: the decision and the checks agree, and prerequisites are well formed.
* creation: what it accepts, a consumer who trusts the signers never calls
  malformed, and allows when the signed claims hold.
* lineage graph: a cycle is found iff there is one, only statements on a cycle
  are blamed, reachability is the least closed set, both walks end on every
  graph.
* publication: what is at the output path is whole; success is not undone by a
  late step of a competitor; failure leaves nothing behind; an old bundle is
  safe without `--force`, as long as it was there before the creations began;
  every creation ends.
* patterns: the parser accepts every text of the documented grammar and, but for
  class ranges that end in a hyphen, nothing else; the state count is exact, and
  a search matches what the pattern's language contains.
* assurance: a level is claimed iff a trusted assessment supports it, whatever
  else is supplied; "reproduced" means another run, by somebody else.
* output files: a path holds a whole output at all times, private keys are
  readable by their owner only, nothing is left behind but by a killed command.
* records: the tree is RFC 6962's; the honest proof is accepted, and no proof is
  about anything but the committed record at its index; the commitment a command
  uses is one the named statement signs, and that statement was verified.

## 2. Modules and their correspondence to the code

`VerificationReport` - the sixteen checks in report order, diagnostics as
(step, code, owner) and the report operations as operators on the check map.
`FailOwners` is "every `add_error` followed by `set_check(owner, "fail")`", the
pattern of the whole verifier.

`TrustPolicy` - `_key_valid_at`, signature states, thresholds over *distinct*
passing signers, rule matching and the two authorization stages.

`LineageGraph` - `build_graph` as operators on a map of statements: the edge
problems in the order of the code's early `continue`s, consumed subjects, roots,
duplicate events, mixed versions.  Cycle and reachability appear here by their
mathematical definition; `LineageWalk` shows that the loops compute them.

`LineageWalk` - the two loops one iteration at a time.  `state`, `stack`,
`cyclic`, `pending`, `reached` are the code's variables; `left` is what each open
`for` loop has yet to yield, in sorted order.  Actions: a root is visited, a
predecessor is skipped, visited or closes a cycle, a visit is left; then one
iteration of the reachability loop.

`VerifyBundle` - one action per protocol step (several where the code has
several outcomes with early returns): `ScanBundle`, `SnapshotConsumer`,
`IndexUnavailable`/`ReadIndex`, `ManifestAbsent`/`ManifestRejected`/
`LoadManifest`, `AuthorizeHandoff`, `LoadAttestations`, `AuthorizeStatements`,
`ValidateMetadataProfiles`, `PrevalidateDatasets`, `BuildGraph`,
`CheckCompleteness` or (unauthorized) `HashConsumerOnly`,
`VerifyFinalArtifacts`, `VerifyHistorical`, `VerifyDatasetEntries`,
`ValidateArtifactProfiles`, `EvaluateFreshness`, `Rescan`.  An exception nobody
catches is the outcome `aborted`: one of the bundle's catalog, or the
`ValueError` for a version no release has, which `LoadManifest` and
`LoadAttestations` meet in an envelope (`EnvelopeRaises`) and
`PrevalidateDatasets` in a dataset manifest (`DatasetRaises`).  The environment changes one path at a time:
`Rewrite` (same inode), `Replace` (any free inode, its former one included),
`ReplaceByLink`, `Remove`.  The module header says how documents are abstracted:
bytes are their own digest, and parsers (`IndexOf`, `EnvelopeOf`, `CatalogOf`,
`HandoffOf`, `DatasetOf`) are constant operators on bytes.

`ContentProfiles` - the dataset manifest's and the licence claim's profile, whose
schemas come with the program.

`HandoffCreate` - `write_handoff_bundle` up to the rename, with `create_handoff`
and `_select_exported_schema_resources`, as operators on a job (the arguments of
one call): `Accepts` is the conjunction of everything that is refused with an
exception, and `CreateIndex`, `CreateHandoff`, `Exported` and `CreateFiles` are
what an accepted job leaves in the directory.  All refusals come before the output path is
touched, so their order is not visible from outside.

`HandoffAgreement` - creation composed with the verifier.  The directories are
those `HandoffCreate` makes; nothing more has to be said about their interaction,
since a bundle appears by one rename.  `JobsOf` tells which job signed a handoff,
if one did, and `PublishedAssumption` says what that means: where nobody changes
the directory, the handoff comes with the index, the catalog and the files its job
wrote (`Published`), and the job was accepted.

`MCVerifyBundle` - the instance: one origin with a raw subject and a dataset, a
transform that consumes a subject and a dataset entry, a handoff of its model;
23 transforms and a chain of three statements, 14 indexes, 12 handoffs, 16 policies,
17 requests and the file faults to combine.  Next to these, which are put
together by hand, it has the jobs of `HandoffCreate`: one for each lineage, with
up to two departures, 330 in all, of which creation accepts somewhat more than half.

`BundlePublish` - creations with one output path.  A directory is known by who
made it; `rmtree` is opening and listing, one unlink at a time relative to the
open directory, and an `rmdir` by name; `os.replace` succeeds on an absent or
empty directory.  Any step may fail and any creation may be killed.

`RecordMerkle` - `Climb` is one iteration of the loops that build a level and an
audit path, `Present` the checks before a fold, `Fold` one iteration over the
proof's `auditPath`, with the inner loop as the recursive function `OddPart`, `Conclude`
the two checks at its end.  A hash is the term that was hashed.  `TreeHash` and
`AuditPath` are the recursive definitions of RFC 6962 it is compared with.

`RecordEntry` - `_verified_record_entry`, one action per read of the directory:
`Verify` (all of `verify_bundle` in one step), `ReadIndexAgain`, `ReadManifest`,
`LoadStatement`; `Edit` is another process.  `MCRecordEntry` is its instance: a
trusted and an untrusted statement that sign the same dataset.

`PatternSyntax` - the recursive-descent parser of `pattern.py` over an alphabet
of 25 characters in code point order, which has all that are special, three
digits, four letters, a line feed and one character beyond ASCII.  The methods
that call each other are one function of the method and its arguments,
`Parser(t)[h]`, where `h` bounds how deep the calls nest; trees are likewise the
sets `Node[h]`.  At `Height(t)` the bound makes no difference to a text `t`
(`HeightSuffices`, section 4).

`PatternMatch` - typing a pattern, `compile_pattern` (`_state_count` against the
limit, then the fragments with their `_patch`ed ends, states numbered in the
order of `_add`), and `search`, one position of the value per step, with its
budget of operations.

`PatternLanguage` - what it is compared with: `GPattern`, the grammar as sets of
derivations, and `Ends`, the language of a pattern.

`Assurance` - `load_run_evidence` one file and one read at a time (each file is
read twice, once for its digest and once for its statement), `evaluate_summary`
one assessment at a time, the reproduction one candidate at a time, and the
summary.  `Edit` is another process that changes a file while they are loaded.
Signatures and validity windows are `TrustPolicy`'s.  The sorted lists that
`_run_fingerprint` compares are functions from a value to how often it occurs
(`Roots`, `Nodes`), and `Listings` is the sorted listing of a directory.  `MCAssurance` is its
instance: a run of a capture and a training, its repetition, and 24 assessments
by six platforms and a stranger.

`OutputFiles` - `_write_json` and `_atomic_write` call by call for concurrent
commands: `Check`, `Create`, `Chmod`, `Write`, `Sync`, `Replace`; any call may
`Fail` (the temporary file is removed) and any command may be `Kill`ed (it is
not).  A path has a file as processes see it and one as the disk has it; `Settle`
brings a directory entry to the disk, and after `PowerLoss` only the disk is
left, with unsynced data possibly torn.  `OutputCommits` is what the commands
promise, without temporary files: outputs are committed one by one, each whole.
`Commits` is the refinement mapping: it forgets the temporary files and the
synced flags, and `done` becomes `written`.

## 3. Runs

Passing runs (distinct states; `verify` and `record_merkle` take a minute or two,
the others less):

| run | instance | states | shows |
|---|---|---|---|
| `lineage_walk` | every graph on 3 statements with a fourth, absent name, every set of heads | 1,100,638 | `CycleReportedIffCyclic`, `ReportedOnCycle`, `ReachedIsLeastClosed`, `WalkEnds` |
| `verify` | bundles put together by hand with at most two departures, and split between producer and consumer with at most one; bundles of which any file changes between any two steps, one of them twice; every bundle an accepted job makes, with several policies and requests | 219,195 | all of `AllowMeans...`, `DecisionMatchesChecks`, `PrerequisitesWellFormed`, `DatasetGapReported`, `UnauthorizedOpensNothing`, `CapturedOnce`, `CreatedIsAllowed` |
| `publish` | 3 creations, every combination of `--force`, old output absent, empty or full | 192,352 | `PublishedWhole`, `SuccessStays`, `FailureLeavesNothing`, `UnforcedKeepsOld`, `CreationEnds` |
| `record_merkle` | 1 to 6 records, every index, count and digest, audit paths of up to 4 hashes of the tree and a foreign one | 2,795,774 | `TreeIsRFC6962`, `AcceptedIffHonest` |
| `record_entry` | every proof identity over two statements, two subjects and two entries; any three changes | 157,874 | `MemberIsSigned` |
| `pattern` | 17 seeds with up to three more characters of 13, each pattern searched in six values | 115,582 | `ParsesTheGrammar`, `CountIsExact`, `SearchIsExact` |
| `assurance` | a run, its assessments and a repetition with at most two departures from a summary that passes, or with one file changed while it is loaded | 130,123 | `LevelIffAssessed`, `ReproducedMeansIndependent`, `NotItsOwnReproduction` |
| `output` | two `key generate` over an old pair; `vsa summarize` with one or two more commands at its paths, guarded and forced; failures, kills and power losses anywhere | 442,643 | `SecretStaysPrivate`, `OnlyKilledLitter`, `PairsBelongTogether`, `UnforcedKeepsOthers`, `CommitsWhole` (the refinement) |

`CreatedIsAllowed` is the one that spans two components: for a bundle that
creation made and nobody touched, and a consumer who trusts its signers, no code
of the verifier that speaks of a malformed bundle is reported, and the decision
is `allow` unless a signed claim does not hold or an anchor of the request is not
met.  The claims (`ClaimsHold`) are what creation does not look into: bad
signatures next to the good ones, metadata and contents that their profiles'
schemas reject, required profiles nobody declares, files the consumer adds that
are not the signed ones.

Some properties name the outcomes they leave out, since the code has them.
`PairsBelongTogether` says when two key pairs can get mixed at the same paths:
only while, or after, a command was between its two outputs, or when two of them
overlapped, or the power was lost; what it excludes is that key generations one
after the other mix them, as they would if a failed first output did not end a
command.  `UnforcedKeepsOthers` leaves out a file written by a command that
overlaps; it excludes a write past the look for an existing output.
`LevelIffAssessed` pairs the statement of an envelope with the digest the code
has for it, so it says nothing against a file replaced between its two reads.
`UnforcedKeepsOld` is about the bundle that was there at the start; one that
appears later is `publish_unforced`'s.  `ParsesTheGrammar` leaves out class
ranges that end in a hyphen, `SearchIsExact` branches that compile to no state.

Runs that end in a violation compare the code with `src/spec/v0.3.md`:

| run | the text | what happens |
|---|---|---|
| `twins_conform` | a target that changed after the scan is `E_BUNDLE_UNSAFE_PATH` (line 993) | a replaced optional dataset manifest is passed over at Step 8; put back later it is hashed and allowed, and its profile is never evaluated, because Step 8's state of a sibling subject stands for it |
| `publish_unforced` | "reject an existing output path unless `--force` is explicitly supplied" (1454) | the second look at the path ignores `force`, so the later of two creations removes the earlier one's bundle |
| `record_stale` | `record verify` "matches the proof identity to that verified entry" (836) | an index and an envelope written after verification name a statement that is not of the report; its signatures are never evaluated, and its commitment is used |
| `pattern_zero` | "Zero bounds are deliberate: decoded `a{0}` and `a{0,0}` are valid and match the empty string" (657) | a branch of an alternation that compiles to no state has no start to split to and is lost (`pattern.py` 439): `^(a{0}\|b)$` does not match the empty string |

More differences were met while modelling and have no run of their own.

* An ineligible artifact later in the list turns `artifact-bytes` from `fail` to
  `skipped` (`bundle.py` 1133, against "A check is `fail` when any eligible
  folded item failed.", line 1262); the decision stays `deny`.
* An exception of the bundle's catalog escapes `verify_bundle` and there is no
  report (`schema.py` 1669, against "An absent safe bundle-catalog target or
  declared catalog resource is `E_CATALOG_INVALID` here.", line 1240).  It is the
  outcome `aborted` of the model.
* `_cycle_members` (`graph.py` 231) reports the closed part of its stack, not the
  whole strongly connected component of line 1266; digests cannot form a cycle,
  so only other callers of `build_graph` can tell.
* A head without a loaded statement makes `graph` skipped with the prerequisite
  `index-payloads` even when that check passed (`bundle.py` 989, against
  line 1262).
* With `--force` a nonempty output directory is removed (`bundle.py` 461), which
  line 1454 rules out; `key generate` overwrites its two files without `--force`.
* One execution that was verified twice, and assessed by platforms of two groups,
  counts as reproduced: nothing in a report tells a second execution from a
  second verification, as long as the two reports differ in a byte.
* `vsa assess` makes an Origin level 2 assessment that lists control evidence,
  which `vsa summarize` then rejects, since it expects exactly the envelopes.
* `vsa summarize --evaluation-out` writes the evaluation before it makes the
  summary, which may still raise: the first file is then there without the second.
* A file replaced between its two reads (`assurance.py` 214-215) pairs the digest
  of what it was with the statement of what it is.  The statement has to be one
  of the report (`MatchesReport`), but the first read may have been of anything:
  an assessment whose evidence is the digest of some other file then gives its
  level to the run.
* A class range may end in an unescaped hyphen: `[(--]` is parsed as the range
  from `(` to `-` (`pattern.py` 221-231, where only the first of three tokens is
  tested).  "An unescaped `-` inside a class is always a range operator and never
  an ordinary literal" (line 653), and an inside-class literal is every character
  "except unescaped `]`, `-`, and `\\`" (line 659), so the text is in no
  derivation.  The seeds `[(-` and `[(-)-` of `pattern` lead to such texts, and
  `ParsesTheGrammar` has them as its only exception.
* A version no release has, in the member `version` of an envelope or of a dataset
  manifest, is a `ValueError` of `require_protocol_version` that the verifier does
  not catch, and there is no report (`bundle.py` 1383, where only
  `CoreValidationError` is caught, and `dataset.py` 65, called at `bundle.py`
  1905, where only `DatasetManifestError` is).  The specification has
  `E_ENVELOPE_MALFORMED` for an envelope whose "shape fails after strict JSON"
  (line 2903), and `E_DATASET_MANIFEST_INVALID` where "Dataset-manifest JSON/core
  schema/profile identity or mapping target is invalid" (line 2916).  It is the
  outcome `aborted` of the model.

**Bounds and why they are enough.**  A cycle search goes wrong on the shape of a
cycle and on how it is entered; with three nodes there are self loops, cycles of
two and three, two cycles that share a node, cycles entered from outside, and
absent predecessors.  `verify` combines departures in pairs since a fault hides
another only by an early return or by overwriting a check, which takes two; the
jobs of creation are combined likewise, so that one flaw meets another that could
make up for it.  Every outcome of every step is reached (TLC's coverage shows no
action or disjunct without a state).  Two changes (`MaxEdits = 2`) suffice to
swap a file and put it back; more changes to other paths only add diagnostics.
Three creations are a
remover, a victim and a third whose late `rmdir` or rename meets what the second
published; three files are the index, one staged before it and one to be left
over from an interrupted removal.  Six records contain every shape the fold
distinguishes: balanced and unbalanced trees, right edges at which the inner loop
shifts once (three and six records) and twice (five records); a path of four
hashes is one longer than any honest one.  Three changes to the directory of
`record_entry` replace index, envelope and one file more.

In `pattern` the quantifier bound is 2 (`MaxBound`, 1000 in the code), so a bound
that is exceeded, counted down or equal to the other one occurs in short texts;
the limits `MaxLength = 9`, `MaxStates = 6` and `MaxOperations = 24` are low
enough that patterns and searches hit each of them and high enough that most do
not.  The seeds start inside a quantifier, class, group or alternation, where three
more characters close and continue them in every way; two of them start inside a
class range whose end is yet to come.  In `output` three commands
are two that mix their outputs and one that comes between; two paths are the
outputs of the commands that have two.  In `assurance` one change (`MaxEdits`)
falls between any two reads, in particular between the two of one file.
No bound is on the length of a behaviour.

**Fairness.**  `LineageWalk` assumes weak fairness of `Walk`: both loops run on
one thread that nothing blocks.  `BundlePublish` assumes it of each creation's
`Step`: every creation is a process of its own, and a step of it never waits for
another.  Failures and kills are never assumed to happen.  `VerifyBundle` states
no liveness: its thirteen steps are a straight line.  `OutputFiles` and
`Assurance` state none either, for the same reason.

**Deadlock** is checked in every run; finished behaviours stutter explicitly.

## 4. Proofs

All proofs are checked by TLAPS; they hold for every value of the constants.

`LineageWalkProofs` (from `NodeAssumption`: names are naturals, statements are
names; finiteness is not needed)

* `TypeCorrect`;
* `CycleReportedIffCyclicHolds`, from `CycleInv`.  `StackIsOpenVisits`: the
  stack has no repetition, holds exactly the nodes in state 1, and each entry is
  a predecessor of the one below it.  Hence every reported node has a reported
  predecessor (`ReportedHavePredecessor`), and a nonempty report is a set without
  an end: a cycle.  For the other direction, as long as nothing is reported, the
  predecessors an open visit has dealt with are left for good (`ScannedAreLeft`),
  and the nodes left for good are closed under predecessors and acyclic
  (`LeftIsAcyclic`): a node that is left adds no cycle because all its
  predecessors were left before it.  At the end all nodes are left (`PhaseInv`).
* `ReportedOnCycleHolds`, from `StackIsPath`: what is higher on the stack is
  upstream of what is lower.  The invariant carries the induction along the
  stack: a new top is a predecessor of the old one, which is upstream of
  everything below.  A predecessor met on the stack closes the path, so every
  node from it to the top is upstream of itself.
* `ReachedIsLeastClosedHolds`: `reached` and `pending` stay inside every closed
  set, and predecessors of reached nodes are reached or pending.

`VerifyBundleProofs` (from the assumptions of `VerifyBundle`, below)

* `CapturedOnceHolds`: no step replaces captured bytes.
* `UnauthorizedOpensNothingHolds`: `OpeningInv` adds that nothing is opened
  before the handoff is judged, and that Steps 12 and 13 are entered only with an
  authorized one; at Step 8, where the code asks per key, every key of an
  unauthorized handoff is at stage `profile` or `no-bytes`.
* `EvidenceHolds` and `TypeCorrect`: `EvidenceInv` is the type invariant with
  `LoadedInv` (the index has no collision, statements are filed under their own
  digests, the manifest is a well-formed handoff) and `CapturedInv` (captured
  bytes have the digest of their key; a parsed dataset manifest belongs to an
  exact subject of an authorized statement).  It is what later steps may rely on
  about evidence that other processes cannot touch any more.

* `AllowInvHolds`, and from it `AllowMeansAuthorizedHolds`,
  `AllowMeansCompleteHolds`, `AllowMeansLineageIntactHolds`,
  `AllowMeansBytesVerifiedHolds`, `AllowMeansFreshHolds` and
  `DatasetGapReportedHolds`.  None of the properties is inductive, since nothing
  says `allow` before the end.  But errors are never taken back, and only the
  final rescan ends a verification without one.  So `CleanInv` says for each step
  what it has established if there is no error so far: all statements are loaded,
  each has a candidate rule, each is authorized, every required dataset is
  parsed, the lineage is sound, the sets agree, the final and the critical bytes
  are captured, the anchors hold.  Each part is about evidence and is kept
  by every later step; an allowed report has all parts.  Thresholds become sets
  of distinct signers (`ThresholdEndorses`): key IDs and identity IDs are
  disjoint, so the signers that pass are counted once each.
* `DatasetsInOrder` is about Step 8's loop, which goes through the candidates in
  sorted order and in which a later one overwrites the profile state of an
  earlier one.  What the last writer wrote is found by taking the largest key of
  a finite set (`FiniteMaximum`, by a minimal counterexample).
* `ConformInvHolds`, `AllowMeansConformingHolds`.  Step 13 trusts the states of
  Step 8, so it matters that a manifest Step 8 did not see is not seen by Step 12
  either.  `QuietInv` says that without a change the directory is as it was
  scanned; `Settled` that each candidate was parsed, or is unavailable after a
  change.  With one change in all, nothing can undo it.  With two it can, and
  `twins_conform` shows what happens: the bound in the property is necessary.

* `ReportInvHolds`, `DecisionMatchesChecksHolds`, `PrerequisitesWellFormedHolds`.
  `ReportSound` is kept by each operation of the report (`SoundFail`, `SoundSet`,
  `SoundSkip`, `SoundBlock`, `SoundFinalize`), and each step of the verifier is a
  composition of these.  For `allow` implying sixteen passes, `CleanChecks` says
  that without an error all checks pass.  There is one exception: Step 9 may skip
  the graph for a head that is not usable, without an error; Step 11 then always
  records one, because heads and statements have to agree with the handoff.

The assumptions of `VerifyBundle` are about parsed documents: digests and subject
names are ordered, subjects are finitely many and origins have no inputs
(`StatementAssumption`); parsing has the outcomes the code distinguishes, an
unsupported version among them, and an envelope has finitely many signatures
(`StatementAssumption`, `EnvelopeAssumption`); keys of mapped
artifacts and members have three parts (`KeyAssumption`); times are integers,
thresholds natural numbers, and no ID is both a key's and an identity's, as both
are hashes the policy loader recomputes (`ScenarioAssumption`).

`VerifyBundleProofs`, its last part, about `HandoffAgreement` (from these and
`PublishedAssumption`)

* `CreatedInvHolds`, `CreatedIsAllowedHolds`.  The proof relates what creation
  refuses to what the verifier reports, in three layers.  `StillInv` is about the
  directory: if nobody else writes, what was read of it is still there, so the
  index and the manifest are the job's (`Origin`) and every path of the index has
  the bytes the job wrote (`MappedBytes`, `AttestationBytes`).  The facts about
  an accepted job (`HeadsFacts`, `FinalsFacts`, `DatasetFacts`, `InputFacts`,
  `LineageFacts`, `EntryFacts`) then hold of what the verifier computes from
  them, one lemma for each step (`AttestationsAgree` ... `RequirementsAgree`).
  `CreatedInv` is what the steps hand on: the handoff is authorized, then all
  statements are loaded, then all are authorized, so that the usable statements
  are the job's lineage (`LaterFacts`) and the two calls of `build_graph` have
  one answer.
* Two things make `CreatedInv` more than the property.  Step 8 has to have parsed
  every dataset manifest that Steps 9 and 12 ask for, which needs that creation
  put it into the bundle (`NeededDatasets`); and without the claims Step 8 may
  leave one out, so the graph of the consumer then has fewer members than the
  producer's, and it must be shown that no code of a malformed bundle comes of
  it (`EdgeAgrees`: at most the problem that Step 9 drops).
* `Arranged` is a choice of a sorted list; that there is one is proved
  (`OrderExists`, by taking the last position of a finite set), since otherwise
  nothing would be known of the artifacts in the handoff.

`RecordMerkleProofs` (from `BoundsAssumption`: the bounds are natural numbers)

* `ReferenceDefinitions`: `SplitAt`, `TreeHash` and `AuditPath` satisfy the
  equations of RFC 6962, and the split is at the largest power of two.  A
  recursive definition is a choice of a function that satisfies its equation, so
  there has to be one: a function that satisfies it on blocks up to some length
  is extended by the blocks that are one longer.
* `MerkleInvHolds`, `TypeCorrect`, `TreeIsRFC6962Holds`, `AcceptedIffHonestHolds`.
  The loops go level by level and RFC 6962 divides from the top, so both are
  compared at the blocks of `w` records each, for a power of two `w`.  On a tree
  with a ragged right edge the nodes of a level are still such blocks, the last
  one cut short, and two neighbours are the two parts of their parent (`Parent`);
  hence `BuiltTo`.  `FoldedTo` says of the verifier that `index` and `last` are
  block numbers at width `w` and that `value` is the tree hash of block `index`
  exactly if digest and siblings were the honest ones.  That alone is not
  inductive, because nobody knows how long a path is: a value from a wrong path
  must not become right later.  So `FoldedTo` adds that a value is no tree hash
  of a narrower block (`NoBlock`), at the right edge none of a later end of the
  list (`NoTail`), and `Overrun` that after a fold at the root it is none at all.
  The honest path is not refused since `last` reaches 0 with its last sibling
  (`PathGrows`).  The inner loop is needed in `FoldEdge`, where the last block has
  to widen until it has a left neighbour; without it the widths disagree.
* Induction is first-order here: a set of numbers that has each number all smaller
  numbers of which it has is `Nat` (`StrongInduction`, from the library's theorem
  on minimal elements).

`RecordEntryProofs` (from `DiskAssumption`, `MappedAssumption`: an index maps to
paths of the bundle)

* `TypeCorrect`, `MemberIsSignedHolds`, from `EntryInv`.  Each of the three files
  that are read again is tied to the one read before it: the mapping is the one
  the second index has for the proof, the bytes have its digest, the statement
  signs them.  Only the index ties them to the verified directory, and only until
  somebody changes it (`QuietInv`); `record_stale` is the other case.

`PatternMatchProofs` (from `BoundAssumption`, `LimitsAssumption`: the bounds are
natural numbers; `TextsAssumption`: texts and values are sequences of `Chars`)

* `ParseTyped`: what the parser accepts is a tree of at most the height of its
  text, with the bounds of every repetition in order.  Nothing else is needed of
  the parser to compile safely.
* `HeightSuffices`: with more nested calls the outermost alternation comes out
  the same.  `Need` says how many calls a method still needs at an index: every
  call of another method goes on in the text, or goes to a method further down,
  so `HigherAgrees` follows by induction on the height.
* `BuildExact`: a call of `_node` adds as many states to the list as
  `_state_count` counted for its tree, every state it adds or patches leads to a
  state of the list or to none, and so does its start.  The induction is over the height of the tree, with one more over the iterations of
  the loops over children and copies.  `_patch` is what makes it delicate: it
  writes fields of states that earlier calls made, so the claim is about any list
  the builder is given, not only about what a call adds to it.
* `CountMatchesTheBuild` and `AutomatonIsClosed` are the invariants `CountIsExact`
  and `TypeOK`, from `SpecInv`, of `Inv`: before a pattern is compiled nothing is
  searched, afterwards the start is a state.
* A recursive function is a choice of one that satisfies its equation, so there
  has to be one; `RecursionExists` and `LoopExists` show it for those that go by
  height and for the loops.

`AssuranceProofs` (from `RunsAssumption`; `PolicyAssumption`: what the policy
schema and its semantic rules demand, `schema.py` 1329-1338 and 1545-1575;
`LevelsAssumption`: a VSA has at most one level of a track, `assurance.py`
413-417; `ReportAssumption`: reports were made by the verifier, so an `allow` has
no check that did not pass, which `DecisionMatchesChecksHolds` proves - the report
schema itself does not ask for it)

* `AssuranceInvHolds`, `TypeCorrect`, `LevelIffAssessedHolds`,
  `ReproducedMeansIndependentHolds`, `NotItsOwnReproductionHolds`.
  `AssuranceInv` has five parts.  `LoadInv`: what is read twice is the same while
  nobody has changed a file.  `ResultInv`: types.  `JudgedInv`: the best level and
  the groups of a run are exactly those of the assessments looked at so far, in
  whatever order (`JudgeOne` adds one of them); a candidate for reproduction that
  has not come up yet has none.  `OutcomeInv`: what is verified and summarized
  follows from that.
* `AcceptedIffSupports`: the loop's nested conditions accept an assessment for a
  level exactly when `Supports`, the declarative definition, holds.  It needs that
  matching rules are counted and signers are compared as sets.
* `SameNodes`: equal fingerprints have equal counts of alike transformations, and
  the one-to-one match of `ReproducedMeansIndependent` is put together from a
  bijection for each class of them.

`BundlePublishProofs` (from `DirAssumption`, `IndexAssumption`)

* `TypeCorrect`, `PublishedWholeHolds`, `SuccessStaysHolds`,
  `FailureLeavesNothingHolds`, `UnforcedKeepsOldHolds`, all from `PublishInv`:
  only a creation that is done is at the output path or open in a removal, what
  is about to be renamed is whole, and a published directory loses files only to
  a removal that has it open.

`OutputFilesProofs` (from `DataAssumption`: a torn file holds no output's data;
`AbsentAssumption`; `ScenarioAssumption`: private keys are planned with mode 600,
as `key generate` does, and what is there at the start is synced and, if it is a
private key, private; `FreshAssumption`: data are known by who wrote them, as keys
drawn at random are)

* `TypeCorrect` and `Invariance`, of `IInv`: `TypeOK` and `Prepared`, which says
  what a temporary file holds at each call - the planned mode from `Chmod` on,
  the planned data from `Write` on, synced before `Replace` - and that whatever
  has a final name is synced.  The last part is why a power loss tears nothing:
  `Fragile` is empty.
* `SecretsPrivate`, from `IInv`: the planned mode is in place whenever the data
  are.  `mkstemp` makes the file with mode 600 to begin with, so it is the mode a
  caller plans, not the order of `fchmod` and `write`, that a private key depends
  on.
* `Refinement`: `Spec => CommitsWhole`.  Every call but `Start`, `Replace`,
  `Succeed`, `Fail`, `Kill`, `Settle` and `PowerLoss` stutters; `Replace` is a
  `Commit` because `IInv` says the temporary file is the planned output.
* `LitterOnlyByKilled`.
* `UnforcedKeeps`, an action property, from `Guarded`: once a guarded command has
  found its path free, the path is free or was taken since, by a command that
  overlaps.
* `PairsTogether`, from `PairInv`: a file that holds an output was written by its
  command (`Known`); a command that has overlapped with nobody finds at its first
  path what it wrote itself (`Alone`); so the only way to a mixed pair is that the
  later command has written its first output and not its second (`Mixed`).

The type invariants of `LineageWalk`, `BundlePublish` and `OutputFiles` are
proved and not part of the runs.

TLC also checks every inductive invariant on the instance of its run (those of
`VerifyBundle` in parts, as together they take too long; that the request in use
is one of `Scenarios` is left to the proof).

Only model-checked:

* `WalkEnds` and `CreationEnds`: fairness and ENABLED are beyond the prover.
* `ParsesTheGrammar` and `SearchIsExact`: they compare the parser and the search
  with `PatternLanguage`, whose grammar and language are recursive operators over
  texts and syntax trees, which the provers do not support.
* The properties of the four violation runs, which do not hold.

## 5. Abstractions and limits

* Digests are injective and signatures are a Boolean; documents are constant
  functions of their bytes, classified by how far parsing gets.
* A loop that opens each of several files once is one step.  A change during the
  loop has the effect of one before or after it.  All uses of the bundle catalog
  within one step see one version of it; the code opens it at each use.
* The case distinctions in `SnapshotConsumer` (why a consumer's file is refused)
  are one nondeterministic outcome.  `_validate_consumer_configuration` has
  accepted the request before the model starts.
* Equal diagnostics about different items are one element; warnings, summary
  counters, `primaryError` and the order of errors are left out.
* The removal of a staged directory is one step, since nobody else knows its
  name.  A removed or renamed file at the output path that is not a directory is
  not modelled.
* Bundle paths, which creation derives from identities by hashing, are constant
  functions of identities.
* A pattern is a sequence of characters of a small alphabet; every `PatternError`
  is one outcome, whatever its message.
* The wire form of a VSA, its URIs, timestamps and descriptors are left out; an
  assessment is what the evaluation compares.
* The directories `_atomic_write` makes are there; nothing syncs a directory in
  the code, so a rename is durable only when the file system gets to it
  (`Settle`).
* Python's recursion limit, memory and the interpreter's other limits are not
  part of any module.

**Not modelled.**  `create_origin` and `create_transform` sign one statement each
and keep no state; loading attestations from a directory, argument parsing and
exit codes are plain translation.  Strict JSON, the core schema rules, the schema
dialect and the licence expression parser are predicates on documents with no
order or state to explore.  DSSE encoding, Ed25519 and Sigstore are bytes and
cryptography.  Unicode tables are data, and the benchmark, demos and scripts are
drivers.

## 6. Plan

Done: the verifier, its report, policy and graph; publication; record proofs and
commands; assembly composed with the verifier; patterns; assurance; output files
with an abstract specification and its refinement; theorems for all safety
properties but those listed at the end of section 4.  Left, in this order:

1. A run of `VerifyBundle` with a changing catalog, each use of it a step.
2. The declaration side of `record prove`, composed with `RecordMerkle`.
3. An abstract verifier (a decision about fixed bytes) that `VerifyBundle` with
   an undisturbed directory implements.
4. Verification of a signed summary, composed with `Assurance`.
