---------------------------- MODULE LineageGraph ----------------------------
(***************************************************************************)
(* build_graph (graph.py) as operators.  S is the map of usable statements *)
(* from digest to statement; a statement is a record with                  *)
(*   type     : "origin" or "transform"                                    *)
(*   version  : its protocol identifier family                             *)
(*   event    : its event ID                                               *)
(*   subjects : a function from subject name to artifact digest            *)
(*   inputs   : a set of [pred, subject, entry, digest]; entry is NoEntry  *)
(*              when the input has no entryName                            *)
(* Digests and names are numbers: < is the code's sorted order.  members   *)
(* maps <<statement, subject, entry>> to a member digest and verified is   *)
(* the set of <<statement, subject>> whose dataset manifest was parsed.    *)
(* The two loops that walk the finished graph, _cycle_members and          *)
(* reachable_from_heads, are modelled step by step in LineageWalk; here    *)
(* they appear as what LineageWalk shows that they compute.                *)
(***************************************************************************)
EXTENDS Integers, FiniteSets

NoEntry == 0

\* The first statement in digest order fixes the protocol family.
GraphVersion(S) ==
  S[CHOOSE d \in DOMAIN S : \A e \in DOMAIN S : d <= e].version

Mixed(S) == {d \in DOMAIN S : S[d].version # GraphVersion(S)}

\* The inputs the edge loop reaches: none for an origin or a mixed family.
EdgeInputs(S, d) ==
  IF d \in Mixed(S) \/ S[d].type = "origin" THEN {} ELSE S[d].inputs

Predecessors(S) == [d \in DOMAIN S |-> {i.pred : i \in EdgeInputs(S, d)}]

NamesSubject(S, i) == i.pred \in DOMAIN S /\ i.subject \in DOMAIN S[i.pred].subjects

\* Mutant of EdgeProblem: the digest of a whole subject is not compared.
EdgeProblemByName(S, members, verified, i) ==
  LET member == <<i.pred, i.subject, i.entry>>
  IN  IF i.pred \notin DOMAIN S THEN {"E_PREDECESSOR_MISSING"}
      ELSE IF ~NamesSubject(S, i) THEN {"E_PREDECESSOR_SUBJECT"}
      ELSE IF i.entry = NoEntry THEN {}
      ELSE IF member \notin DOMAIN members THEN {"E_DATASET_MANIFEST_REQUIRED"}
      ELSE IF members[member] = i.digest THEN {} ELSE {"E_INPUT_DIGEST"}

\* The diagnostic of one input edge, as a set of at most one code.
EdgeProblem(S, members, verified, i) ==
  LET member == <<i.pred, i.subject, i.entry>>
  IN  IF i.pred \notin DOMAIN S THEN {"E_PREDECESSOR_MISSING"}
      ELSE IF ~NamesSubject(S, i) THEN {"E_PREDECESSOR_SUBJECT"}
      ELSE IF i.entry = NoEntry
        THEN IF S[i.pred].subjects[i.subject] = i.digest THEN {} ELSE {"E_INPUT_DIGEST"}
      ELSE IF member \notin DOMAIN members
        THEN IF <<i.pred, i.subject>> \in verified
             THEN {"E_PREDECESSOR_SUBJECT"} ELSE {"E_DATASET_MANIFEST_REQUIRED"}
      ELSE IF members[member] = i.digest THEN {} ELSE {"E_INPUT_DIGEST"}

\* Subjects taken whole by some edge; the edge's own digest is recorded.
ConsumedSubjects(S) ==
  UNION {{<<i.pred, i.subject, i.digest>> :
            i \in {j \in EdgeInputs(S, d) : NamesSubject(S, j) /\ j.entry = NoEntry}} :
         d \in DOMAIN S}

\* A graph has a cycle iff some nonempty set of its nodes has, for every
\* member, a predecessor inside the set.
Acyclic(preds) ==
  \A C \in SUBSET DOMAIN preds :
    C # {} => \E n \in C : preds[n] \cap C = {}

\* The sets that hold the heads and the predecessors of their own members.
ClosedSets(preds, heads, universe) ==
  {C \in SUBSET universe :
     heads \subseteq C /\ \A n \in C \cap DOMAIN preds : preds[n] \subseteq C}

\* reachable_from_heads: the least closed set.  Absent predecessors count as
\* reached, exactly as the code's predecessors.get(current, ()) has it.
Reached(preds, heads) ==
  LET universe == heads \cup UNION {preds[n] \cup {n} : n \in DOMAIN preds}
  IN  {n \in universe : \A C \in ClosedSets(preds, heads, universe) : n \in C}

Roots(S) == {d \in DOMAIN S : Predecessors(S)[d] = {}}

DuplicateEvents(S) ==
  {d \in DOMAIN S : \E e \in DOMAIN S : e < d /\ S[e].event = S[d].event}

\* The codes of the problems build_graph lists; the statement a problem is
\* about is context of its diagnostic and is left out.
ProblemCodes(S, members, verified) ==
  (UNION {EdgeProblem(S, members, verified, i) : i \in UNION {EdgeInputs(S, d) : d \in DOMAIN S}})
  \cup (IF DuplicateEvents(S) = {} THEN {} ELSE {"E_EVENT_ID_DUPLICATE"})
  \cup (IF Mixed(S) = {} THEN {} ELSE {"E_PREDICATE_SEMANTICS_UNSUPPORTED"})
  \cup (IF Acyclic(Predecessors(S)) THEN {} ELSE {"E_GRAPH_CYCLE"})
  \cup (IF \A r \in Roots(S) : S[r].type = "origin" THEN {} ELSE {"E_ROOT_INVALID"})

\* The step and the owning check _record_graph_problem gives each code.
ProblemOwner(code) ==
  CASE code = "E_PREDICATE_SEMANTICS_UNSUPPORTED" -> <<4, "core-schemas">>
    [] code = "E_DATASET_MANIFEST_REQUIRED"       -> <<8, "graph-dependency-artifacts">>
    [] code = "E_ROOT_INVALID"                    -> <<10, "roots-and-heads">>
    [] OTHER                                      -> <<9, "graph">>
=============================================================================
