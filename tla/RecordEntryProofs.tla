-------------------------- MODULE RecordEntryProofs --------------------------
(***************************************************************************)
(* What _verified_record_entry returns, for every bundle and any number of *)
(* changes by other processes.  The index, the dataset manifest and the    *)
(* statement are read again after verify_bundle, so each of them is tied   *)
(* to the one read before it, and to the verified directory only as long   *)
(* as nobody has changed it.                                               *)
(***************************************************************************)
EXTENDS RecordEntry, FiniteSetTheorems, TLAPS

\* The mapping in use is one of the second index that fits the proof.
MappingInv ==
  pc \in {"manifest", "statement", "member"} => mapping = Fitting(bundle)

\* The bytes in use have the digest of the mapping.
BytesInv ==
  pc \in {"statement", "member"} => \E m \in mapping : bytes = m.digest

\* The statement that was loaded signs it, and the entry is one of it.
SignedInv ==
  pc = "member" => (\A m \in mapping : SignedSubject(m)) /\ asked.entry \in CommittedIn[bytes]

\* Until somebody changes the directory, what is read is what was verified.
QuietInv ==
  edits = 0 =>
    /\ pc \in {"index", "manifest", "statement", "member"} =>
         Allowed /\ verified = {a.stmt : a \in IndexOf[disk[IndexPath]].attestations}
    /\ pc \in {"manifest", "statement", "member"} => bundle = disk[IndexPath]

EntryInv == TypeOK /\ MappingInv /\ BytesInv /\ SignedInv /\ QuietInv

LEMMA OneIsSome ==
  ASSUME NEW S, Cardinality(S) = 1
  PROVE  S # {}
BY FS_EmptySet

LEMMA InitEntry == Init => EntryInv
<1> SUFFICES ASSUME Init PROVE EntryInv
  OBVIOUS
<1>1. TypeOK
  BY FS_EmptySet, EditsAssumption, DiskAssumption DEF Init, TypeOK
<1>2. MappingInv /\ BytesInv /\ SignedInv /\ QuietInv
  BY DEF Init, MappingInv, BytesInv, SignedInv, QuietInv
<1> QED BY <1>1, <1>2 DEF EntryInv

LEMMA EntryStep == EntryInv /\ [Next]_vars => EntryInv'
<1> SUFFICES ASSUME EntryInv, [Next]_vars PROVE EntryInv'
  OBVIOUS
<1> USE DEF EntryInv
<1>0. ASSUME UNCHANGED <<asked, disk, edits, verified, bundle, mapping, bytes>>
      PROVE  /\ Allowed' = Allowed /\ Fitting(bundle)' = Fitting(bundle)
             /\ \A m : SignedSubject(m)' = SignedSubject(m)
  BY <1>0 DEF Allowed, Holds, Fitting, SignedSubject
<1>1. CASE Raise
  BY <1>1 DEF Raise, TypeOK, MappingInv, BytesInv, SignedInv, QuietInv
<1>2. CASE Verify /\ ~Raise
  <2>1. /\ pc = "verify" /\ pc' = "index" /\ Allowed
        /\ verified' = {a.stmt : a \in IndexOf[disk[IndexPath]].attestations}
        /\ UNCHANGED <<asked, disk, edits, bundle, mapping, bytes>>
    BY <1>2 DEF Verify
  <2>2. verified' \subseteq Trusted
    BY <2>1 DEF Allowed
  <2>3. TypeOK'
    BY <2>1, <2>2 DEF TypeOK
  <2>4. Allowed'
    BY <2>1 DEF Allowed, Holds
  <2> QED BY <2>1, <2>3, <2>4 DEF MappingInv, BytesInv, SignedInv, QuietInv
<1>3. CASE ReadIndexAgain /\ ~Raise
  <2>1. /\ pc = "index" /\ pc' = "manifest" /\ Cardinality(Fitting(disk[IndexPath])) = 1
        /\ bundle' = disk[IndexPath] /\ mapping' = Fitting(disk[IndexPath])
        /\ UNCHANGED <<asked, disk, edits, verified, bytes>>
    BY <1>3 DEF ReadIndexAgain
  <2>2. mapping' # {} /\ bundle' # Absent
    <3>1. Fitting(disk[IndexPath]) # {}
      BY <2>1, OneIsSome
    <3> QED BY <2>1, <3>1 DEF Fitting, IndexReadable
  <2>3. TypeOK'
    BY <2>1, <2>2, PathAssumption DEF TypeOK
  <2>4. MappingInv'
    BY <2>1 DEF MappingInv, Fitting
  <2>5. Allowed' = Allowed
    BY <2>1 DEF Allowed, Holds
  <2> QED BY <2>1, <2>3, <2>4, <2>5 DEF BytesInv, SignedInv, QuietInv
<1>4. CASE ReadManifest /\ ~Raise
  <2>1. PICK m \in mapping :
          /\ pc = "manifest" /\ pc' = "statement" /\ disk[m.path] = m.digest
          /\ bytes' = disk[m.path]
          /\ UNCHANGED <<asked, disk, edits, verified, bundle, mapping>>
    BY <1>4 DEF ReadManifest
  <2>2. disk[m.path] \in Content \cup {Absent}
    <3>1. bundle \in Content /\ m \in IndexOf[bundle].artifacts
      BY <2>1 DEF TypeOK, MappingInv, Fitting
    <3> QED BY <3>1, MappedAssumption DEF TypeOK
  <2>3. TypeOK'
    BY <2>1, <2>2 DEF TypeOK
  <2>4. Allowed' = Allowed /\ Fitting(bundle)' = Fitting(bundle)
    BY <2>1 DEF Allowed, Holds, Fitting
  <2> QED BY <2>1, <2>3, <2>4 DEF MappingInv, BytesInv, SignedInv, QuietInv
<1>5. CASE LoadStatement /\ ~Raise
  <2>1. /\ pc = "statement" /\ pc' = "member"
        /\ \A m \in mapping : SignedSubject(m)
        /\ asked.entry \in CommittedIn[bytes]
        /\ UNCHANGED <<asked, disk, edits, verified, bundle, mapping, bytes>>
    BY <1>5 DEF LoadStatement
  <2>2. TypeOK'
    BY <2>1 DEF TypeOK
  <2> QED BY <1>0, <2>1, <2>2 DEF MappingInv, BytesInv, SignedInv, QuietInv
<1>6. CASE Edit
  <2>1. /\ edits < MaxEdits /\ edits' = edits + 1
        /\ UNCHANGED <<asked, pc, verified, bundle, mapping, bytes>>
    BY <1>6 DEF Edit
  <2>2. edits' \in 0..MaxEdits /\ edits' # 0
    BY <2>1, EditsAssumption DEF TypeOK
  <2>3. disk' \in [Path -> Content \cup {Absent}]
    BY <1>6 DEF Edit, TypeOK
  <2>4. TypeOK'
    BY <2>1, <2>2, <2>3 DEF TypeOK
  <2>5. Fitting(bundle)' = Fitting(bundle) /\ \A m : SignedSubject(m)' = SignedSubject(m)
    BY <2>1 DEF Fitting, SignedSubject
  <2> QED BY <2>1, <2>2, <2>4, <2>5 DEF MappingInv, BytesInv, SignedInv, QuietInv
<1>7. CASE UNCHANGED vars
  BY <1>0, <1>7 DEF vars, TypeOK, MappingInv, BytesInv, SignedInv, QuietInv
<1> QED BY <1>1, <1>2, <1>3, <1>4, <1>5, <1>6, <1>7 DEF Next, Command, Over

\* The values the variables of "makoto record prove" and "record verify" take.
THEOREM TypeCorrect == Spec => []TypeOK
<1>1. EntryInv => TypeOK
  BY DEF EntryInv
<1> QED BY <1>1, InitEntry, EntryStep, PTL DEF Spec

\* The record commitment that is used is an entry of the exact dataset manifest
\* that the statement named by the proof signs under the subject named by the
\* proof; in a directory nobody changes, that statement is a trusted one of the
\* report.
THEOREM MemberIsSignedHolds == Spec => []MemberIsSigned
<1>1. EntryInv => MemberIsSigned
  <2> SUFFICES ASSUME EntryInv, pc = "member" PROVE MemberIsSigned
    BY DEF MemberIsSigned
  <2>1. PICK m \in mapping : bytes = m.digest
    BY DEF EntryInv, BytesInv
  <2>2. SignedSubject(m) /\ asked.entry \in CommittedIn[bytes]
    BY DEF EntryInv, SignedInv
  <2>3. bytes = Subjects[asked.stmt][asked.subject] /\ asked.subject \in DOMAIN Subjects[asked.stmt]
    BY <2>1, <2>2 DEF SignedSubject
  <2>4. ASSUME edits = 0 PROVE asked.stmt \in verified
    <3>1. /\ bundle = disk[IndexPath] /\ Allowed
          /\ verified = {a.stmt : a \in IndexOf[disk[IndexPath]].attestations}
      BY <2>4 DEF EntryInv, QuietInv
    <3>2. m \in IndexOf[disk[IndexPath]].artifacts /\ m.stmt = asked.stmt
      BY <3>1 DEF EntryInv, MappingInv, Fitting
    <3> QED BY <3>1, <3>2 DEF Allowed
  <2>5. verified \subseteq Trusted
    BY DEF EntryInv, TypeOK
  <2> QED BY <2>2, <2>3, <2>4, <2>5 DEF MemberIsSigned
<1> QED BY <1>1, InitEntry, EntryStep, PTL DEF Spec
=============================================================================
