---------------------------- MODULE RecordEntry -----------------------------
(***************************************************************************)
(* _verified_record_entry (cli.py), the first half of "makoto record       *)
(* prove" and "makoto record verify": the bundle is verified, and then its *)
(* index, a dataset manifest and a statement envelope are read from the    *)
(* directory once more, while other processes may change it.               *)
(*                                                                         *)
(* verify_bundle is one step here: it allows a directory whose indexed     *)
(* envelopes hold trusted statements and whose mapped files have the       *)
(* digests those sign (VerifyBundle is about how it gets there).  As in    *)
(* VerifyBundle, bytes are their own digest and parsers are constants:     *)
(*   IndexOf[c]     [fault ("none", "json" or "schema", which is also an   *)
(*                  index of an older protocol version),                   *)
(*                  attestations : a set of [stmt, path],                  *)
(*                  artifacts : a set of [stmt, subject, digest, path]]    *)
(*                  (lists in bundle.json; equal members of a list are     *)
(*                  refused like two different ones that fit the proof)    *)
(*   StatementOf[c] the set of at most one digest of the v0.3 statement    *)
(*                  that c, as an envelope, holds                          *)
(*   Subjects[d]    subject name -> digest, of statement d                 *)
(*   CommittedIn[c] the entries that carry a recordMerkle in c parsed as a *)
(*                  dataset manifest (none when it does not parse)         *)
(***************************************************************************)
EXTENDS Integers, FiniteSets

CONSTANTS Path, Content, Absent, IndexPath, IndexOf, StatementOf, Subjects,
          CommittedIn, Trusted, Asked, StartDisks, MaxEdits

ASSUME AbsentAssumption == Absent \notin Content
ASSUME PathAssumption == IndexPath \in Path
ASSUME EditsAssumption == MaxEdits \in Nat
ASSUME DiskAssumption == StartDisks \subseteq [Path -> Content \cup {Absent}]

\* Path holds every name an index can map, whether or not there is a file.
ASSUME MappedAssumption == \A c \in Content : \A m \in IndexOf[c].artifacts : m.path \in Path

VARIABLES
  asked,     \* the proof's [stmt, subject, entry]
  disk,      \* Path -> Content or Absent
  edits, pc,
  verified,  \* the statements of the report
  bundle,    \* the bytes of bundle.json, read again
  mapping,   \* the selected member of its artifacts, as a set
  bytes      \* the dataset manifest's bytes

vars == <<asked, disk, edits, pc, verified, bundle, mapping, bytes>>

Init ==
  /\ asked \in Asked
  /\ disk \in StartDisks
  /\ edits = 0 /\ pc = "verify"
  /\ verified = {} /\ bundle = Absent /\ mapping = {} /\ bytes = Absent

Raise ==
  /\ pc' = "raised"
  /\ UNCHANGED <<asked, disk, edits, verified, bundle, mapping, bytes>>

\* _strict_object: bundle.json is read as JSON; the schema of an index, which
\* verify_bundle has asked for, is not.
IndexReadable(c) == c # Absent /\ IndexOf[c].fault # "json"

Holds(p, d) == disk[p] # Absent /\ StatementOf[disk[p]] = {d}

\* Mutant of Allowed: signatures are not evaluated.
AllowedUnsigned ==
  /\ IndexReadable(disk[IndexPath]) /\ IndexOf[disk[IndexPath]].fault = "none"
  /\ \A a \in IndexOf[disk[IndexPath]].attestations : Holds(a.path, a.stmt)
  /\ \A m \in IndexOf[disk[IndexPath]].artifacts : disk[m.path] = m.digest

\* verify_bundle decides allow, with a report of version 0.3.
Allowed ==
  /\ IndexReadable(disk[IndexPath]) /\ IndexOf[disk[IndexPath]].fault = "none"
  /\ \A a \in IndexOf[disk[IndexPath]].attestations : a.stmt \in Trusted /\ Holds(a.path, a.stmt)
  /\ \A m \in IndexOf[disk[IndexPath]].artifacts :
       /\ \E a \in IndexOf[disk[IndexPath]].attestations : a.stmt = m.stmt
       /\ m.subject \in DOMAIN Subjects[m.stmt] /\ Subjects[m.stmt][m.subject] = m.digest
       /\ disk[m.path] = m.digest

Verify ==
  /\ pc = "verify"
  /\ \/ ~Allowed /\ Raise
     \/ /\ Allowed
        /\ verified' = {a.stmt : a \in IndexOf[disk[IndexPath]].attestations}
        /\ pc' = "index"
        /\ UNCHANGED <<asked, disk, edits, bundle, mapping, bytes>>

\* The mappings of a bundle.json that fit the proof's identity.
Fitting(c) ==
  IF ~IndexReadable(c) THEN {}
  ELSE {m \in IndexOf[c].artifacts : m.stmt = asked.stmt /\ m.subject = asked.subject}

ReadIndexAgain ==
  /\ pc = "index"
  /\ LET c == disk[IndexPath]
     IN  \/ Cardinality(Fitting(c)) # 1 /\ Raise
         \/ /\ Cardinality(Fitting(c)) = 1
            /\ bundle' = c
            /\ mapping' = Fitting(c)
            /\ pc' = "manifest"
            /\ UNCHANGED <<asked, disk, edits, verified, bytes>>

\* Mutant of ReadManifest: the bytes are used without being hashed.
ReadManifestUnhashed ==
  /\ pc = "manifest"
  /\ \E m \in mapping :
       \/ disk[m.path] = Absent /\ Raise
       \/ /\ disk[m.path] # Absent
          /\ bytes' = disk[m.path]
          /\ pc' = "statement"
          /\ UNCHANGED <<asked, disk, edits, verified, bundle, mapping>>

\* "dataset manifest changed after bundle verification"
ReadManifest ==
  /\ pc = "manifest"
  /\ \E m \in mapping :
       \/ disk[m.path] # m.digest /\ Raise
       \/ /\ disk[m.path] = m.digest
          /\ bytes' = disk[m.path]
          /\ pc' = "statement"
          /\ UNCHANGED <<asked, disk, edits, verified, bundle, mapping>>

\* Mutant of SignedSubject: an artifact of the statement is as good as the
\* subject the proof names.
SignedAnySubject(m) == \E s \in DOMAIN Subjects[asked.stmt] : Subjects[asked.stmt][s] = m.digest

SignedSubject(m) ==
  /\ asked.subject \in DOMAIN Subjects[asked.stmt]
  /\ Subjects[asked.stmt][asked.subject] = m.digest

\* "dataset manifest statement changed after bundle verification": its digest
\* is compared, its signatures are not looked at again.
LoadStatement ==
  /\ pc = "statement"
  /\ LET items == {a \in IndexOf[bundle].attestations : a.stmt = asked.stmt}
         ok == /\ Cardinality(items) = 1
               /\ \A a \in items : Holds(a.path, asked.stmt)
               /\ \A m \in mapping : SignedSubject(m)
               /\ asked.entry \in CommittedIn[bytes]
     IN  \/ ~ok /\ Raise
         \/ /\ ok
            /\ pc' = "member"
            /\ UNCHANGED <<asked, disk, edits, verified, bundle, mapping, bytes>>

Command == Verify \/ ReadIndexAgain \/ ReadManifest \/ LoadStatement

\* Another process writes or removes a file.
Edit ==
  /\ pc \notin {"member", "raised"} /\ edits < MaxEdits
  /\ \E p \in Path, c \in Content \cup {Absent} :
       c # disk[p] /\ disk' = [disk EXCEPT ![p] = c]
  /\ edits' = edits + 1
  /\ UNCHANGED <<asked, pc, verified, bundle, mapping, bytes>>

Over == pc \in {"member", "raised"} /\ UNCHANGED vars

Next == Command \/ Edit \/ Over

Spec == Init /\ [][Next]_vars
-----------------------------------------------------------------------------
\* The values the variables take; a mapping is selected before it is used.
TypeOK ==
  /\ asked \in Asked
  /\ disk \in [Path -> Content \cup {Absent}]
  /\ edits \in 0..MaxEdits
  /\ pc \in {"verify", "index", "manifest", "statement", "member", "raised"}
  /\ verified \subseteq Trusted
  /\ bundle \in Content \cup {Absent} /\ bytes \in Content \cup {Absent}
  /\ Cardinality(mapping) <= 1
  /\ pc \in {"manifest", "statement", "member"} => mapping # {} /\ bundle # Absent

\* Whatever happens to the directory, the record commitment that is used is an
\* entry of the exact dataset manifest that the statement named by the proof
\* signs under the subject named by the proof; in a directory nobody changes,
\* that statement is one the policy trusts and the report is about.
MemberIsSigned ==
  pc = "member" =>
    /\ asked.subject \in DOMAIN Subjects[asked.stmt]
    /\ bytes = Subjects[asked.stmt][asked.subject]
    /\ asked.entry \in CommittedIn[Subjects[asked.stmt][asked.subject]]
    /\ edits = 0 => asked.stmt \in verified /\ asked.stmt \in Trusted

\* "matches the proof identity to that verified entry"
MemberIsVerified ==
  pc = "member" => asked.stmt \in verified
=============================================================================
