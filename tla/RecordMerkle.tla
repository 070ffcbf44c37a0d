---------------------------- MODULE RecordMerkle ----------------------------
(***************************************************************************)
(* The record Merkle tree of records.py: merkle_root, merkle_audit_path    *)
(* and verify_record_inclusion_proof, one loop iteration per step, with    *)
(* the checks "makoto record verify" makes of the proof's count.           *)
(*                                                                         *)
(* A hash is the term that was hashed, which is collision resistance; the  *)
(* tags are the prefix bytes 0 and 1.  The n records of the signed         *)
(* commitment have the digests 1 to n, and 0 is the digest of some other   *)
(* record.  Equal digests need no run of their own: a proof that folds to  *)
(* the root of a tree with equal digests folds to the root of the tree     *)
(* with different ones when the siblings are taken from there.             *)
(***************************************************************************)
EXTENDS Integers, Sequences, FiniteSets

CONSTANTS MaxRecords,  \* bound on the size of a tree
          MaxPath      \* bound on an audit path (63 in the proof's schema)

ASSUME BoundsAssumption == MaxRecords \in Nat \ {0} /\ MaxPath \in Nat

VARIABLES
  n, target,         \* the number of records and the proof's recordIndex
  phase,
  level, pos, path,  \* level, index and path of merkle_audit_path
  digest,            \* the proof's recordDigest
  used,              \* the part of the proof's auditPath folded so far
  index, last, value \* the variables of verify_record_inclusion_proof

vars == <<n, target, phase, level, pos, path, digest, used, index, last, value>>

hash_leaf(d) == <<"leaf", d>>
hash_node(l, r) == <<"node", l, r>>

Leaves(m) == [i \in 1..m |-> hash_leaf(i)]

\* Mutant of NextLevel: the last node of an odd level is paired with itself.
NextLevelPaired(s) ==
  [p \in 1..(Len(s) + 1) \div 2 |->
     hash_node(s[2 * p - 1], IF 2 * p <= Len(s) THEN s[2 * p] ELSE s[2 * p - 1])]

\* One iteration of the loops over level: pairs are hashed, and the last node
\* of an odd level moves up as it is.
NextLevel(s) ==
  [p \in 1..(Len(s) + 1) \div 2 |->
     IF 2 * p <= Len(s) THEN hash_node(s[2 * p - 1], s[2 * p]) ELSE s[2 * p - 1]]

Init ==
  /\ n \in 1..MaxRecords
  /\ target \in 0..n - 1
  /\ phase = "build"
  /\ level = Leaves(n) /\ pos = target /\ path = << >>
  /\ digest = 0 /\ used = << >> /\ index = 0 /\ last = 0 /\ value = hash_leaf(0)

Sibling == IF pos % 2 = 1 THEN pos - 1 ELSE pos + 1

Climb ==
  /\ phase = "build" /\ Len(level) > 1
  /\ path' = IF Sibling < Len(level) THEN Append(path, level[Sibling + 1]) ELSE path
  /\ level' = NextLevel(level)
  /\ pos' = pos \div 2
  /\ UNCHANGED <<n, target, phase, digest, used, index, last, value>>

\* A proof for the record at target is presented: its schema bounds the index
\* by its own count, and the command compares that with the commitment.
Present(count, d) ==
  /\ phase = "build" /\ Len(level) = 1
  /\ target < count
  /\ digest' = d
  /\ IF count # n THEN phase' = "rejected" /\ UNCHANGED <<index, last, value>>
     ELSE /\ phase' = "fold"
          /\ index' = target /\ last' = count - 1 /\ value' = hash_leaf(d)
  /\ UNCHANGED <<n, target, level, pos, path, used>>

\* The hashes a proof may hold: those of the tree, and one that is not.
SiblingHashes ==
  LET Levels[m \in 1..MaxRecords, k \in 0..MaxRecords] ==
        IF k = 0 THEN Leaves(m) ELSE NextLevel(Levels[m, k - 1])
  IN  [m \in 1..MaxRecords |->
         {hash_leaf(0)} \cup UNION {{Levels[m, k][i] : i \in DOMAIN Levels[m, k]} : k \in 0..m}]

\* The inner loop "while index and not index & 1", which halves index and last.
OddPart[i \in 0..MaxRecords] == IF i # 0 /\ i % 2 = 0 THEN OddPart[i \div 2] ELSE i

\* Mutants of Fold: without the inner loop; with an inner loop that shifts
\* last only.
FoldUnshifted(s) ==
  /\ phase = "fold" /\ Len(used) < MaxPath
  /\ used' = Append(used, s)
  /\ value' = IF index % 2 = 1 \/ index = last THEN hash_node(s, value) ELSE hash_node(value, s)
  /\ index' = index \div 2
  /\ last' = last \div 2
  /\ UNCHANGED <<n, target, phase, level, pos, path, digest>>

FoldLastOnly(s) ==
  /\ phase = "fold" /\ Len(used) < MaxPath
  /\ used' = Append(used, s)
  /\ value' = IF index % 2 = 1 \/ index = last THEN hash_node(s, value) ELSE hash_node(value, s)
  /\ index' = index \div 2
  /\ last' = (IF index = last THEN OddPart[last] ELSE last) \div 2
  /\ UNCHANGED <<n, target, phase, level, pos, path, digest>>

\* One iteration of the loop over the audit path.
Fold(s) ==
  /\ phase = "fold" /\ Len(used) < MaxPath
  /\ used' = Append(used, s)
  /\ value' = IF index % 2 = 1 \/ index = last THEN hash_node(s, value) ELSE hash_node(value, s)
  /\ IF index = last THEN index' = OddPart[index] \div 2 /\ last' = OddPart[last] \div 2
     ELSE index' = index \div 2 /\ last' = last \div 2
  /\ UNCHANGED <<n, target, phase, level, pos, path, digest>>

\* The proof's audit path ends here.
Conclude ==
  /\ phase = "fold"
  /\ phase' = IF last = 0 /\ value = level[1] THEN "accepted" ELSE "rejected"
  /\ UNCHANGED <<n, target, level, pos, path, digest, used, index, last, value>>

Decided == phase \in {"accepted", "rejected"} /\ UNCHANGED vars

Next ==
  \/ Climb
  \/ \E count \in 1..MaxRecords, d \in 0..n : Present(count, d)
  \/ \E s \in SiblingHashes[n] : Fold(s)
  \/ Conclude
  \/ Decided

Spec == Init /\ [][Next]_vars
-----------------------------------------------------------------------------
\* The values the variables take; a folded position stays within its level.
TypeOK ==
  /\ n \in 1..MaxRecords /\ target \in 0..n - 1
  /\ phase \in {"build", "fold", "accepted", "rejected"}
  /\ Len(level) \in 1..n /\ pos \in 0..Len(level) - 1 /\ Len(path) < n
  /\ digest \in 0..n
  /\ Len(used) \in 0..MaxPath
  /\ last \in 0..n - 1 /\ index \in 0..last

\* RFC 6962, section 2.1: the tree hash and the audit path of a list are
\* defined by its split at the largest power of two below its length.
Power[k \in Nat] == IF k = 0 THEN 1 ELSE 2 * Power[k - 1]

SplitAt == [m \in 2..MaxRecords |-> CHOOSE p \in {Power[k] : k \in 0..m} : p < m /\ m <= 2 * p]

Blocks == (1..MaxRecords) \X (1..MaxRecords)  \* the records b[1] to b[2]

TreeHash[b \in Blocks] ==
  IF b[2] <= b[1] THEN hash_leaf(b[1])
  ELSE LET m == b[1] + SplitAt[b[2] - b[1] + 1]
       IN  hash_node(TreeHash[<<b[1], m - 1>>], TreeHash[<<m, b[2]>>])

AuditPath(i) ==
  LET PathIn[b \in Blocks] ==
        IF b[2] <= b[1] THEN << >>
        ELSE LET m == b[1] + SplitAt[b[2] - b[1] + 1]
             IN  IF i < m THEN Append(PathIn[<<b[1], m - 1>>], TreeHash[<<m, b[2]>>])
                 ELSE Append(PathIn[<<m, b[2]>>], TreeHash[<<b[1], m - 1>>])
  IN  PathIn

\* The level-by-level loops build the tree and the audit path of RFC 6962, on
\* unbalanced trees too.
TreeIsRFC6962 ==
  Len(level) = 1 => /\ level[1] = TreeHash[<<1, n>>]
                    /\ path = AuditPath(target + 1)[<<1, n>>]

\* An accepted proof is about the record the commitment has at that index, with
\* the one audit path there is, and the proof create_record_inclusion_proof
\* makes is not rejected.
AcceptedIffHonest ==
  /\ phase = "accepted" => digest = target + 1 /\ used = path
  /\ phase = "fold" /\ digest = target + 1 /\ used = path => last = 0 /\ value = level[1]

=============================================================================
