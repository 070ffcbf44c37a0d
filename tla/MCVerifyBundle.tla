--------------------------- MODULE MCVerifyBundle ---------------------------
(***************************************************************************)
(* Instances of VerifyBundle.  The bundles are variations of one: origin 1 *)
(* has the subjects "raw" and "set", a dataset with the entry "row"; a     *)
(* transform, the tail, consumes "raw" and "row" and makes "model"; the    *)
(* handoff passes "model" on.  Some bundles are made by hand, others are   *)
(* what HandoffCreate makes of a job.  A content is a triple <<what, of    *)
(* what, flaw>>: of an index the index, of a handoff [digest, manifest,    *)
(* jobs], of a catalog the pins, of a statement its digest, else 0.        *)
(***************************************************************************)
EXTENDS HandoffAgreement, TLC

AllPath == {"bundle.json", "handoff", "s1", "s2", "s3", "raw", "set", "row", "model", "aux",
           "catalog", "MODEL"}

FoldedTable == [p \in AllPath |-> IF p = "MODEL" THEN "model" ELSE p]

C(what) == <<what, 0, "none">>
Tails == (2..23) \cup {25}

\* A third statement, downstream of statement 2, in some of the created bundles.
Chain == 24

Flaws == {"torn", "odd", "vague", "wrong", "forged", "foreign", "doubly", "half", "keyless",
          "late"}

Materials == {"raw", "set", "row", "model", "junk", "torn set", "odd set", "dull set",
              "twin set", "late set"}

MaterialContent == Materials \X {0} \X {"none", "torn", "odd"}
-----------------------------------------------------------------------------
(* Statements. *)

Whole(name, c) == [pred |-> 1, subject |-> name, entry |-> NoEntry, digest |-> C(c)]
Entry(e, c) == [pred |-> 1, subject |-> 2, entry |-> e, digest |-> C(c)]

Shape(name, pin, media, critical) ==
  [id |-> "schema", dig |-> pin, target |-> "artifact", subject |-> name,
   media |-> media, critical |-> critical]

Quality(pin, critical) ==
  [id |-> "quality", dig |-> pin, target |-> "statement", subject |-> 0,
   media |-> "none", critical |-> critical]

ModelProfile == Shape(1, "model pin", "json", TRUE)

\* A second subject of some tails.
SecondSubject ==
  17 :> "junk" @@ 18 :> "torn set" @@ 19 :> "odd set" @@ 20 :> "dull set" @@ 21 :> "set"
  @@ 25 :> "late set"

StmtTable ==
  [d \in {1, Chain} \cup Tails |->
     [type     |-> IF d \in {1, 23} THEN "origin" ELSE "transform",
      version  |-> IF d = 9 THEN "0.2" ELSE "0.3",
      event    |-> IF d \in {1, 8} THEN 1 ELSE IF d = Chain THEN 3 ELSE 2,
      kind     |-> IF d = 1 THEN "crawl" ELSE "train",
      subjects |-> IF d = 1 THEN 1 :> C("raw") @@ 2 :> C("set")
                   ELSE IF d \in DOMAIN SecondSubject
                   THEN 1 :> C("model") @@ 2 :> C(SecondSubject[d])
                   ELSE IF d = 23
                   THEN 1 :> C("model") @@ 2 :> C("odd set") @@ 3 :> C("set")
                   ELSE 1 :> C(IF d = Chain THEN "junk" ELSE "model"),
      inputs   |-> CASE d \in {1, 23} -> {}
                     [] d = 3  -> {Whole(1, "junk")}
                     [] d = 4  -> {Whole(9, "raw")}
                     [] d = 5  -> {Entry(1, "row"), [Whole(1, "raw") EXCEPT !.pred = 30]}
                     [] d = 6  -> {Entry(7, "row")}
                     [] d = 7  -> {Entry(1, "junk")}
                     [] d = 10 -> {[Entry(1, "row") EXCEPT !.subject = 1]}
                     [] d = Chain -> {[Whole(1, "model") EXCEPT !.pred = 2]}
                     [] OTHER  -> {Whole(1, "raw"), Entry(1, "row")},
      profiles |-> CASE d = 1  -> {DatasetProfile(2), LicenseProfile}
                     [] d = 11 -> {ModelProfile, Quality("strict pin", FALSE)}
                     [] d = 12 -> {ModelProfile, Quality("lost pin", FALSE)}
                     [] d = 13 -> {Shape(1, "strict pin", "json", FALSE)}
                     [] d = 14 -> {Shape(1, "lost pin", "json", FALSE)}
                     [] d = 15 -> {Shape(1, "model pin", "parquet", TRUE)}
                     [] d = 16 -> {ModelProfile, [LicenseProfile EXCEPT !.dig = "model pin"]}
                     [] d = 17 -> {ModelProfile, Shape(2, "model pin", "json", FALSE)}
                     [] d \in (18..20) \cup {25} -> {ModelProfile, DatasetProfile(2)}
                     [] d = 21 -> {ModelProfile, DatasetProfile(2), Shape(2, "model pin", "json", TRUE)}
                     [] d = 22 -> {}
                     [] d = 23 -> {DatasetProfile(2), DatasetProfile(3)}
                     [] OTHER  -> {ModelProfile, Quality("quality pin", TRUE)}]]

AdmitsTable == ({1, Chain} \cup Tails) \X {"standard pin", "quality pin"}
ConformsTable == {C("model"), C("junk"), C("torn set")} \X {"model pin"}
ParsableTable ==
  ({C("model"), C("junk")} \X {"json"}) \cup
  ({C("set"), C("odd set"), C("dull set"), C("twin set"), C("late set")} \X {DatasetMedia})
-----------------------------------------------------------------------------
(* Handoffs and their variants. *)

ModelOf(t) == [head |-> t, name |-> 1, digest |-> C("model"), media |-> {}]
RawOf == [head |-> 1, name |-> 1, digest |-> C("raw"), media |-> {}]
SetOf == [head |-> 1, name |-> 2, digest |-> C("set"), media |-> {DatasetMedia}]

Need(h, pin) == [head |-> h, subject |-> 1, id |-> "schema", dig |-> pin, media |-> "json"]

HandoffVariant(v, t) ==
  [statements |-> CASE v = 2 -> {1, t, 30} [] v \in {3, 12} -> {t} [] OTHER -> {1, t},
   heads      |-> CASE v \in {6, 11} -> {1, t} [] v = 10 -> {t, 30} [] OTHER -> {t},
   roots      |-> {IF v \in {4, 12} THEN t ELSE 1},
   artifacts  |-> CASE v = 5  -> <<ModelOf(t), [ModelOf(t) EXCEPT !.name = 3]>>
                    [] v = 6  -> <<RawOf, ModelOf(t)>>
                    [] v = 7  -> <<[ModelOf(t) EXCEPT !.digest = C("junk")]>>
                    [] v = 9  -> <<[ModelOf(t) EXCEPT !.media = {"csv"}]>>
                    [] v = 11 -> <<SetOf, ModelOf(t)>>
                    [] OTHER  -> <<ModelOf(t)>>,
   required   |-> IF v = 8 THEN {Need({t}, "model pin"), Need({t}, "strict pin")} ELSE {},
   recipient  |-> IF v = 10 THEN {} ELSE {"us"},
   nonce      |-> IF v = 11 THEN {} ELSE {"n1"},
   issued     |-> 10]

HandoffBytes(v, t, flaw) ==
  <<"handoff", [digest |-> 100 * v + t, manifest |-> HandoffVariant(v, t), jobs |-> {}], flaw>>
-----------------------------------------------------------------------------
(* Indexes and their variants. *)

RawKey == <<1, 1, C("raw")>>
SetKey == <<1, 2, C("set")>>
ModelKey(t) == <<t, 1, C("model")>>
Second(t) == {<<t, 2, C(SecondSubject[u])>> : u \in {t} \cap DOMAIN SecondSubject}

RowEntry == <<1, 2, 1>>

PathOf(k) ==
  CASE k[1] = 1     -> IF k[2] = 1 THEN "raw" ELSE "set"
    [] k[1] = Chain -> "aux"
    [] OTHER        -> IF k[2] = 1 THEN "model" ELSE IF k[2] = 2 THEN "aux" ELSE "set"

Mapping(ks) == [k \in ks |-> PathOf(k)]

IndexVariant(v, t) ==
  [fault        |-> "none",
   manifest     |-> IF v = 8 THEN "MODEL" ELSE "handoff",
   attestations |-> CASE v = 4  -> 1 :> "s1"
                      [] v = 10 -> 1 :> "s2" @@ t :> "s1"
                      [] v = 13 -> 1 :> "s1" @@ t :> "handoff"
                      [] v = 14 -> t :> "s2"
                      [] OTHER  -> 1 :> "s1" @@ t :> "s2",
   artifacts    |-> Mapping(CASE v = 2  -> {RawKey, SetKey}
                              [] v = 3  -> {RawKey, SetKey, ModelKey(t), <<1, 1, C("junk")>>}
                              [] v = 7  -> {RawKey, ModelKey(t)} \cup Second(t)
                              [] v = 11 -> {ModelKey(t)} \cup Second(t)
                              [] v = 12 -> {SetKey, ModelKey(t)}
                              [] v = 14 -> {ModelKey(t), <<t, 2, C("odd set")>>, <<t, 3, C("set")>>}
                              [] OTHER  -> {RawKey, SetKey, ModelKey(t)} \cup Second(t)),
   entries      |-> LET At(path, c) == [path |-> path, digest |-> C(c)]
                    IN  CASE v = 5  -> RowEntry :> At("row", "junk")
                          [] v = 6  -> RowEntry :> At("row", "row") @@ <<1, 2, 7>> :> At("raw", "row")
                          [] v \in {11, 14} -> EmptyMap
                          [] v = 12 -> <<1, 2, 2>> :> At("raw", "raw")
                          [] OTHER  -> RowEntry :> At("row", "row"),
   catalog      |-> IF v \in {9, 14} THEN {} ELSE {"catalog"}]

IndexBytes(v, t, flaw) == <<"index", IndexVariant(v, t), flaw>>

CatalogBytes(flaw) == <<"catalog", {"model pin", "quality pin", "strict pin"}, flaw>>
ThinCatalog == <<"catalog", {"strict pin"}, "none">>
-----------------------------------------------------------------------------
(* Envelopes, catalogs and datasets. *)

Sig(k) == [keyid |-> k, keyless |-> FALSE, good |-> TRUE]

SigsOf(flaw) ==
  CASE flaw = "forged"  -> {[Sig("k1") EXCEPT !.good = FALSE]}
    [] flaw = "foreign" -> {Sig("k9")}
    [] flaw = "doubly"  -> {Sig("k1"), Sig("k2")}
    [] flaw = "half"    -> {Sig("k1"), [Sig("k2") EXCEPT !.good = FALSE]}
    [] flaw = "keyless" -> {[Sig("id1") EXCEPT !.keyless = TRUE]}
    [] OTHER            -> {Sig("k1")}

DatasetTable ==
  [c \in MaterialContent |->
     [fault |-> CASE c \in {C("set"), C("twin set")} -> "none"
                  [] c = C("odd set")  -> "schema"
                  [] c = C("dull set") -> "semantic"
                  [] c = C("late set") -> "version"
                  [] OTHER             -> "parse",
      members |-> IF c \in {C("set"), C("twin set")}
                  THEN 1 :> [digest |-> C("row"), size |-> {3}]
                       @@ 2 :> [digest |-> C("raw"), size |-> {5}]
                  ELSE EmptyMap]]

MCSizeOf(c) == IF c = C("row") THEN 3 ELSE 4
-----------------------------------------------------------------------------
(* Jobs: bundles that are created, and the ones creation refuses.            *)

MCAttestationPath ==
  [d \in {1, Chain} \cup Tails |-> IF d = 1 THEN "s1" ELSE IF d = Chain THEN "s3" ELSE "s2"]

MCArtifactPath ==
  Mapping(({1, Chain} \cup Tails) \X (1..3) \X {C(what) : what \in Materials})

MCEntryPath == [e \in {1} \X {2} \X {1, 2, 7} |-> IF e = RowEntry THEN "row" ELSE "raw"]

Make ==
  INSTANCE HandoffCreate WITH
    Stmt <- StmtTable, DatasetOf <- DatasetTable, SizeOf <- MCSizeOf,
    ManifestPath <- "handoff", CatalogPath <- "catalog", AttestationPath <- MCAttestationPath,
    ArtifactPath <- MCArtifactPath, EntryPath <- MCEntryPath

Att(d, flaw) == [digest |-> d, envelope |-> <<"statement", d, flaw>>]
Final(h, n, what, media) == [head |-> h, name |-> n, data |-> C(what), media |-> media]
Mat(d, n, what) == [statement |-> d, name |-> n, data |-> C(what)]
Row(e, what) == [statement |-> 1, name |-> 2, entry |-> e, data |-> C(what)]

AllPins == {<<"schema", "model pin">>, <<"quality", "quality pin">>, <<"schema", "strict pin">>,
            <<"quality", "strict pin">>}

\* handoff create with these statements, final artifacts and materials.
Create(statements, finals, materials, entries) ==
  [attestations |-> Make!Each(statements, LAMBDA d : Att(d, "none")),
   version |-> "0.3", heads |-> Make!Each(finals, LAMBDA a : a.head), finals |-> finals,
   historical |-> Make!HistoricalBindings(materials), datasets |-> Make!DatasetBindings(materials),
   entries |-> entries, catalogs |-> {AllPins}, external |-> << >>, required |-> {},
   recipient |-> {"us"}, nonce |-> {"n1"}, issued |-> 10]

OriginMaterials == <<Mat(1, 1, "raw"), Mat(1, 2, "set")>>

\* Base 24 is a chain of three statements, base 23 an origin with two dataset
\* manifests, any other base the bundle with that tail.
BaseJob(b) ==
  CASE b = Chain -> Create(<<Chain, 1, 2>>, <<Final(Chain, 1, "junk", {})>>,
                           Append(OriginMaterials, Mat(2, 1, "model")), <<Row(1, "row")>>)
    [] b = 23    -> [Create(<<23>>, <<Final(23, 3, "set", {}), Final(23, 1, "model", {})>>,
                            <<Mat(23, 3, "set")>>, << >>) EXCEPT !.heads = <<23>>]
    [] OTHER     -> Create(<<1, b>>, <<Final(b, 1, "model", {})>>,
                           OriginMaterials \o (IF b \in DOMAIN SecondSubject
                                               THEN <<Mat(b, 2, SecondSubject[b])>> ELSE << >>),
                           <<Row(1, "row")>>)

Twice(s) == s \o s

\* A departure changes one argument of the call.
Depart(i, j) ==
  CASE i \in {0, 1} -> j
    [] i = 2  -> [j EXCEPT !.attestations = Twice(@)]
    [] i = 3  -> [j EXCEPT !.attestations = Tail(@)]
    [] i = 4  -> [j EXCEPT !.attestations = Append(@, Att(Chain, "none"))]
    [] i = 5  -> [j EXCEPT !.version = "0.2"]
    [] i = 6  -> [j EXCEPT !.heads = Twice(@)]
    [] i = 7  -> [j EXCEPT !.heads = Append(@, 1)]
    [] i = 8  -> [j EXCEPT !.heads = Append(@, 1), !.finals = Append(@, Final(1, 1, "raw", {}))]
    [] i = 9  -> [j EXCEPT !.finals = Twice(@)]
    [] i = 10 -> [j EXCEPT !.finals[1].media = {"json"}]
    [] i = 11 -> [j EXCEPT !.finals[1].media = {"csv"}]
    [] i = 12 -> [j EXCEPT !.finals[1].data = C("row")]
    [] i = 13 -> [j EXCEPT !.finals[1].name = 2]
    [] i = 14 -> [j EXCEPT !.heads = Append(@, 1),
                           !.finals = Append(@, Final(1, 2, "set", {DatasetMedia}))]
    [] i = 15 -> [j EXCEPT !.finals[1].media = {DatasetMedia}]
    [] i = 16 -> [j EXCEPT !.historical = << >>]
    [] i = 17 -> [j EXCEPT !.historical = Twice(@)]
    [] i = 18 -> [j EXCEPT !.historical = Append(@, Mat(1, 1, "junk"))]
    [] i = 19 -> [j EXCEPT !.historical = Append(@, Mat(j.finals[1].head, 1, "model"))]
    [] i = 20 -> [j EXCEPT !.historical = Append(@, Mat(3, 1, "model"))]
    [] i = 21 -> [j EXCEPT !.datasets = << >>]
    [] i = 22 -> [j EXCEPT !.historical = @ \o j.datasets]
    [] i = 23 -> [j EXCEPT !.datasets = Append(@, Mat(1, 1, "raw"))]
    [] i = 24 -> [j EXCEPT !.datasets = <<Mat(1, 2, "twin set")>>]
    [] i = 25 -> [j EXCEPT !.entries = << >>]
    [] i = 26 -> [j EXCEPT !.entries = <<Row(1, "junk")>>]
    [] i = 27 -> [j EXCEPT !.entries = Twice(@)]
    [] i = 28 -> [j EXCEPT !.entries = <<Row(7, "row")>>]
    [] i = 29 -> [j EXCEPT !.entries = Append(@, Row(2, "raw"))]
    [] i = 30 -> [j EXCEPT !.catalogs = {}]
    [] i = 31 -> [j EXCEPT !.catalogs = {{<<"schema", "strict pin">>}}]
    [] i = 32 -> [j EXCEPT !.external = <<ModelProfile>>]
    [] i = 33 -> [j EXCEPT !.external = <<ModelProfile, ModelProfile>>]
    [] i = 34 -> [j EXCEPT !.external = <<Shape(7, "model pin", "json", TRUE)>>]
    [] i = 35 -> [j EXCEPT !.required = {Need({j.finals[1].head}, "model pin")}]
    [] i = 36 -> [j EXCEPT !.required = {Need({j.finals[1].head}, "strict pin")}]
    [] i = 37 -> [j EXCEPT !.recipient = {}, !.nonce = {}]
    [] i = 38 -> [j EXCEPT !.catalogs = {UNION @ \cup {<<DatasetId, "model pin">>}}]
    [] i = 39 -> [j EXCEPT !.attestations = Make!Each(@, LAMBDA a : Att(a.digest, "foreign"))]
    [] i = 40 -> [j EXCEPT !.attestations = Make!Each(@, LAMBDA a : Att(a.digest, "half"))]

\* The code of a job: 10000 * base + 100 * departure + departure.
JobOf(n) == Depart(n % 100, Depart((n \div 100) % 100, BaseJob(n \div 10000)))

\* Departures that change what a created bundle holds without spoiling it.
Variations == {10, 14, 16, 19, 25, 30, 31, 32, 35, 36, 37, 39}

\* The bundle with tail 2 and the longer lineages take every departure, the
\* other tails the variations, and the bundle with tail 2 every two of them.
JobCodes ==
  {10000 * b + 1 : b \in Tails}
  \cup {10000 * b + i : b \in {2, 23, Chain}, i \in 1..40}
  \cup {10000 * b + i : b \in (11..17) \cup {21, 22}, i \in Variations}
  \cup {20000 + 100 * d[1] + d[2] : d \in {e \in Variations \X Variations : e[1] < e[2]}}
  \cup {10000 * b + 100 * i + k : b \in {23, Chain}, i \in {16, 21}, k \in {25, 30, 31, 36}}

JobTable == [n \in JobCodes |-> JobOf(n)]
-----------------------------------------------------------------------------
(* All contents and what they parse to. *)

MadeIndex(j) == <<"index", Make!CreateIndex(j), "none">>
MadeHandoff(n, j) ==
  <<"handoff", [digest |-> n, manifest |-> Make!CreateHandoff(j), jobs |-> {j}], "none">>
MadeCatalog(j) == <<"catalog", {r[2] : r \in Make!Exported(j)}, "none">>

AllContent ==
  MaterialContent \cup ({"statement"} \X ({1, Chain} \cup Tails) \X (Flaws \cup {"none"}))
  \cup {IndexBytes(v, t, flaw) : v \in 1..14, t \in Tails, flaw \in {"none", "torn", "odd"}}
  \cup {HandoffBytes(v, t, flaw) : v \in 1..12, t \in Tails, flaw \in Flaws \cup {"none"}}
  \cup {CatalogBytes(flaw) : flaw \in {"none", "torn", "odd"}} \cup {ThinCatalog}
  \cup {MadeIndex(JobTable[n]) : n \in JobCodes} \cup {MadeHandoff(n, JobTable[n]) : n \in JobCodes}
  \cup {MadeCatalog(JobTable[n]) : n \in JobCodes}

MCDigest == {1, Chain, 30} \cup Tails \cup {100 * v + t : v \in 1..12, t \in Tails} \cup JobCodes

MCIndexOf(c) ==
  IF c[1] = "index" /\ c[3] = "none" THEN c[2]
  ELSE [fault |-> IF c[1] = "index" /\ c[3] = "odd" THEN "schema" ELSE "json"]

MCEnvelopeOf(c) ==
  [fault |-> CASE c[1] \notin {"statement", "handoff"} \/ c[3] = "torn" -> "json"
               [] c[3] = "odd"   -> "envelope"
               [] c[3] = "late"  -> "version"
               [] c[3] = "vague" -> "payload"
               [] c[3] = "wrong" -> "schema"
               [] OTHER          -> "none",
   type   |-> c[1],
   digest |-> IF c[1] = "handoff" THEN c[2].digest ELSE c[2],
   sigs   |-> SigsOf(c[3])]

MCHandoffOf(c) == c[2].manifest
MCJobsOf(c) == IF c[1] = "handoff" THEN c[2].jobs ELSE {}

MCCatalogOf(c) ==
  [fault |-> CASE c[1] # "catalog" \/ c[3] = "torn" -> "malformed"
               [] c[3] = "odd" -> "mismatch"
               [] OTHER        -> "none",
   pins  |-> IF c[1] = "catalog" THEN c[2] ELSE {}]
-----------------------------------------------------------------------------
(* Policies and requests. *)

Always == [validFrom |-> {}, validUntil |-> {}]

Rule == [types |-> {"origin", "transform"}, kinds |-> {}, constraints |-> {},
         signers |-> {"k1", "k2", "id1"}, minimum |-> 1]

HandoffRule ==
  [signers |-> {"k1", "k2", "id1"}, minimum |-> 1, requireManifest |-> FALSE, requireHead |-> FALSE,
   requireArtifacts |-> FALSE, requireRecipient |-> FALSE, requireNonce |-> FALSE,
   maxAge |-> {}, maxSkew |-> 0, allowReplay |-> FALSE]

Plain ==
  [keys |-> "k1" :> Always @@ "k2" :> Always, identities |-> {"id1"}, trustRoot |-> TRUE,
   rules |-> {Rule}, handoff |-> HandoffRule, required |-> {}]

Constraint(pin) == [id |-> "quality", target |-> "statement", dig |-> pin]

TrainRules(pin) == {[Rule EXCEPT !.types = {"origin"}],
                    [Rule EXCEPT !.types = {"transform"}, !.constraints = {Constraint(pin)}]}

PolicyNames == {"plain", "pinned", "named", "pair", "expired", "early", "edge", "rootless",
                "crawls", "lost", "courier", "demanding", "replay", "aged", "overaged", "content"}

PolicyOf(name) ==
  CASE name = "plain"     -> Plain
    [] name = "pinned"    -> [Plain EXCEPT !.rules = TrainRules({"quality pin"})]
    [] name = "named"     -> [Plain EXCEPT !.rules = TrainRules({})]
    [] name = "pair"      -> [Plain EXCEPT !.rules = {[Rule EXCEPT !.minimum = 2]}]
    [] name = "expired"   -> [Plain EXCEPT !.keys["k1"].validUntil = {50}]
    [] name = "early"     -> [Plain EXCEPT !.keys["k1"].validFrom = {51}]
    [] name = "edge"      -> [Plain EXCEPT !.keys["k1"] = [validFrom |-> {50}, validUntil |-> {51}]]
    [] name = "rootless"  -> [Plain EXCEPT !.trustRoot = FALSE]
    [] name = "crawls"    -> [Plain EXCEPT !.rules = {[Rule EXCEPT !.kinds = {{"crawl"}}]}]
    [] name = "lost"      -> [Plain EXCEPT !.rules = TrainRules({"lost pin"})]
    [] name = "courier"   -> [Plain EXCEPT !.handoff.signers = {"k2"}]
    [] name = "demanding" -> [Plain EXCEPT !.handoff = [@ EXCEPT !.requireManifest = TRUE,
                                !.requireHead = TRUE, !.requireArtifacts = TRUE,
                                !.requireRecipient = TRUE, !.requireNonce = TRUE]]
    [] name = "replay"    -> [Plain EXCEPT !.handoff.allowReplay = TRUE]
    [] name = "aged"      -> [Plain EXCEPT !.handoff.maxAge = {40}]
    [] name = "overaged"  -> [Plain EXCEPT !.handoff.maxAge = {39}]
    [] name = "content"   -> [Plain EXCEPT !.required = {Need({}, "model pin")}]

Asks(t) ==
  [time |-> 50, manifest |-> {}, heads |-> {t}, artifacts |-> {}, recipient |-> {},
   nonce |-> {}, materials |-> EmptyMap, entries |-> EmptyMap, catalogs |-> {}]

Supplies(raw, row) ==
  [materials |-> <<1, 1, C("raw")>> :> raw @@ <<1, 2, C("set")>> :> C("set"),
   entries |-> <<1, 2, 1>> :> [digest |-> C("row"), bytes |-> row]]

RequestNames == {"heads", "nothing", "manifest", "old manifest", "old heads", "artifacts",
                 "old artifacts", "nonce", "old nonce", "recipient", "other recipient",
                 "all", "soon", "brings", "brings junk raw", "brings junk row", "brings alien"}

RequestOf(name, t) ==
  LET a == Asks(t)
      With(s) == [a EXCEPT !.materials = s.materials, !.entries = s.entries]
  IN  CASE name = "heads"           -> a
        [] name = "nothing"         -> [a EXCEPT !.heads = {}]
        [] name = "manifest"        -> [a EXCEPT !.heads = {}, !.manifest = {100 + t}]
        [] name = "old manifest"    -> [a EXCEPT !.manifest = {30}]
        [] name = "old heads"       -> [a EXCEPT !.heads = {1}]
        [] name = "artifacts"       -> [a EXCEPT !.heads = {}, !.artifacts = {<<t, 1, C("model")>>}]
        [] name = "old artifacts"   -> [a EXCEPT !.artifacts = {<<t, 1, C("junk")>>}]
        [] name = "nonce"           -> [a EXCEPT !.heads = {}, !.nonce = {"n1"}]
        [] name = "old nonce"       -> [a EXCEPT !.nonce = {"n0"}]
        [] name = "recipient"       -> [a EXCEPT !.recipient = {"us"}]
        [] name = "other recipient" -> [a EXCEPT !.recipient = {"them"}]
        [] name = "all"             -> [a EXCEPT !.manifest = {100 + t}, !.nonce = {"n1"},
                                          !.artifacts = {<<t, 1, C("model")>>}, !.recipient = {"us"}]
        [] name = "soon"            -> [a EXCEPT !.time = 9]
        [] name = "brings"          -> With(Supplies(C("raw"), C("row")))
        [] name = "brings junk raw" -> With(Supplies(C("junk"), C("row")))
        [] name = "brings junk row" -> With(Supplies(C("raw"), C("junk")))
        [] name = "brings alien"    -> [a EXCEPT !.materials = <<1, 1, C("junk")>> :> C("junk"),
                                          !.catalogs = {"lost pin"}]
-----------------------------------------------------------------------------
(* Scenarios: a bundle that is allowed, with at most two departures. *)

Complete ==
  [tail |-> 2, index |-> 1, handoff |-> 1, policy |-> "plain", request |-> "heads",
   files |-> [p \in AllPath |-> IF p \in {"MODEL", "s3"} THEN "absent" ELSE "none"]]

\* The bundle leaves the origin's material to the consumer.
Split == [Complete EXCEPT !.index = 11, !.request = "brings"]

EnvelopePath == {"handoff", "s1", "s2"}

FileOptions(p) ==
  CASE p \in EnvelopePath    -> Flaws \cup {"absent", "link"}
    [] p = "bundle.json"     -> {"torn", "odd", "absent", "dir"}
    [] p = "catalog"         -> {"odd", "torn", "absent"}
    [] p = "MODEL"           -> {"none"}
    [] p = "s3"              -> {}
    [] p = "row"             -> {"torn", "absent", "dir", "alias"}
    [] OTHER                 -> {"torn", "absent", "dir"}

\* A departure is a part of the choice and what it is to be.
Departures ==
  ({"tail"} \X ((2..22) \cup {25})) \cup ({"index"} \X (1..13)) \cup ({"handoff"} \X (1..11))
  \cup ({"policy"} \X PolicyNames) \cup ({"request"} \X RequestNames)
  \cup UNION {{"file"} \X FileOptions(p) \X {p} : p \in AllPath}

Departing(b, d) == IF d[1] = "file" THEN [b EXCEPT !.files[d[3]] = d[2]] ELSE [b EXCEPT ![d[1]] = d[2]]

FileBytes(ch, p) ==
  CASE p = "bundle.json" -> IndexBytes(ch.index, ch.tail, ch.files[p])
    [] p = "handoff"     -> HandoffBytes(ch.handoff, ch.tail, ch.files[p])
    [] p = "catalog"     -> CatalogBytes(ch.files[p])
    [] p = "s1"          -> <<"statement", 1, ch.files[p]>>
    [] p = "s2"          -> <<"statement", ch.tail, ch.files[p]>>
    [] p = "aux"         -> IF ch.tail = 23 THEN C("odd set")
                            ELSE IF ch.tail \in DOMAIN SecondSubject
                            THEN <<SecondSubject[ch.tail], 0, ch.files[p]>>
                            ELSE <<"junk", 0, ch.files[p]>>
    [] p = "MODEL"       -> C("junk")
    [] OTHER             -> <<p, 0, ch.files[p]>>

Node(ch, p) ==
  IF ch.files[p] \in {"absent", "dir", "link"}
  THEN [kind |-> ch.files[p], inode |-> p, bytes |-> C("junk")]
  ELSE IF ch.files[p] = "alias" THEN [kind |-> "file", inode |-> "model", bytes |-> C("row")]
  ELSE [kind |-> "file", inode |-> p, bytes |-> FileBytes(ch, p)]

\* Other processes that leave the bundle alone, and ones that change a file
\* up to n times.
Nobody == [edits |-> 0, paths |-> {}, writes |-> {}, inodes |-> {}]

Others(n, paths, writes) ==
  [edits |-> n, paths |-> paths, writes |-> writes, inodes |-> paths \cup {"spare"}]

ScenarioOf(ch, others) ==
  [policy |-> PolicyOf(ch.policy), request |-> RequestOf(ch.request, ch.tail),
   disk |-> [p \in Path |-> Node(ch, p)], others |-> others]

FaultScenario(d, e) == ScenarioOf(Departing(Departing(Complete, d), e), Nobody)
SplitScenario(d) == ScenarioOf(Departing(Split, d), Nobody)
-----------------------------------------------------------------------------
(* Races: an allowed bundle, and other processes that swap its files. *)

RacePath == AllPath \ {"aux", "MODEL", "s3"}

RaceContent ==
  {IndexBytes(1, 2, "none"), HandoffBytes(1, 2, "none"), <<"statement", 1, "none">>,
   <<"statement", 2, "none">>, C("raw"), C("set"), C("row"), C("model"), C("junk"), C("twin set"),
   CatalogBytes("none"), ThinCatalog}

RaceScenarios ==
  {ScenarioOf(b, Others(1, RacePath, RaceContent)) :
     b \in {Complete, [Complete EXCEPT !.files["s1"] = "foreign"],
           [Complete EXCEPT !.policy = "pinned"]}}

\* An origin that hands on three subjects, two of them datasets, and a file
\* that can be replaced and put back.
TwinPath == {"bundle.json", "model", "set", "aux"}

TwinContent == {IndexBytes(14, 23, "none"), C("model"), C("set"), C("odd set"), C("junk")}

TwinScenarios ==
  {ScenarioOf([Complete EXCEPT !.tail = 23, !.index = 14, !.handoff = 12],
              Others(2, TwinPath, TwinContent))}

-----------------------------------------------------------------------------
(* Created bundles, as they are published. *)

PublishedBytes(n, j) ==
  {<<IndexPath, MadeIndex(j)>>, <<ManifestPath, MadeHandoff(n, j)>>}
  \cup {<<CatalogPath, MadeCatalog(j)>> : r \in Make!Exported(j)}
  \cup Make!CreateFiles(j)

PublishedDisk(n, j) ==
  LET files == PublishedBytes(n, j)
      At(p) == {f[2] : f \in {g \in files : g[1] = p}}
  IN  [p \in AllPath |->
         [kind |-> IF At(p) = {} THEN "absent" ELSE "file", inode |-> p,
          bytes |-> IF At(p) = {} THEN C("junk") ELSE CHOOSE b \in At(p) : TRUE]]

\* The consumer asks for this manifest, and may have schemas, the origin's raw
\* material or the row of its dataset of its own.
RequestsFor(n) ==
  LET a == [Asks(2) EXCEPT !.heads = {}, !.manifest = {n}]
  IN  <<a, [a EXCEPT !.catalogs = {"model pin", "quality pin"}],
        [a EXCEPT !.materials = RawKey :> C("raw")],
        [a EXCEPT !.entries = RowEntry :> [digest |-> C("row"), bytes |-> C("row")]]>>

CreatedScenario(n, policy, request) ==
  [policy |-> PolicyOf(policy), request |-> RequestsFor(n)[request],
   disk |-> PublishedDisk(n, JobTable[n]), others |-> Nobody]

\* A job without a departure is verified under every policy.
CreatedCases ==
  LET accepted == {n \in JobCodes : Make!Accepts(JobTable[n])}
  IN  (accepted \X {"plain"} \X (1..4))
      \cup ({n \in accepted : n % 10000 = 1} \X PolicyNames \X (1..3))
-----------------------------------------------------------------------------
ScenarioAt(k) ==
  CASE k[1] = "fault" -> FaultScenario(k[2], k[3])
    [] k[1] = "split" -> SplitScenario(k[2])
    [] k[1] = "made"  -> CreatedScenario(k[2][1], k[2][2], k[2][3])

\* One set of cases first: TLC is slow to unite sets of large records.
AllScenarios ==
  RaceScenarios \cup TwinScenarios
  \cup {ScenarioAt(k) : k \in ({"fault"} \X Departures \X Departures)
                              \cup ({"split"} \X Departures) \cup ({"made"} \X CreatedCases)}
-----------------------------------------------------------------------------
(* The constants.  TLC keeps the value of a definition, but not that of a    *)
(* definition a constant is replaced by: each of these only names a table.   *)

MCFolded == FoldedTable
MCStmt == StmtTable
MCAdmits == AdmitsTable
MCConforms == ConformsTable
MCParsable == ParsableTable
MCDatasetOf == DatasetTable
MCPath == AllPath
MCContent == AllContent
MCScenarios == AllScenarios
MCTwinScenarios == TwinScenarios
=============================================================================
