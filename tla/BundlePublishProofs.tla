------------------------ MODULE BundlePublishProofs -------------------------
(***************************************************************************)
(* Proofs about the publication of handoff bundles: for any number of      *)
(* creations and any bundle contents, what is at the output path is whole  *)
(* unless somebody is removing it, and a creation that returned normally   *)
(* keeps its place until somebody removes it.                              *)
(***************************************************************************)
EXTENDS BundlePublish, TLAPS

\* What the exception handler does to the state, whoever runs it.
LEMMA CleanUpStep ==
  ASSUME TypeOK, PublishInv, NEW w \in Writer,
         pc[w] \in {"stage", "open", "remove", "rename"}, CleanUp(w)
  PROVE  TypeOK' /\ PublishInv'
<1>1. TypeOK'
  BY DirAssumption DEF TypeOK, CleanUp, Goto, Dir
<1>2. \A x \in Writer : x # w => pc'[x] = pc[x] /\ files'[x] = files[x]
  BY DirAssumption DEF TypeOK, CleanUp, Goto, Dir
<1>3. pc'[w] = "failed" /\ files'[w] = {}
  BY DirAssumption DEF TypeOK, CleanUp, Goto, Dir
<1>4. output' = output /\ target' = target /\ force' = force
  BY DEF CleanUp
<1>5. output # w /\ \A v \in Writer : target[v] # w
  BY DEF PublishInv
<1>6. PublishInv'
  BY <1>2, <1>3, <1>4, <1>5 DEF PublishInv
<1> QED BY <1>1, <1>6

\* A writer that only moves on, everybody's files unchanged, may take any
\* label that its own files justify.
LEMMA MoveStep ==
  ASSUME TypeOK, PublishInv, NEW w \in Writer, pc[w] # "done",
         NEW label \in {"stage", "open", "rename", "failed", "crashed"},
         Goto(w, label),
         label \in {"open", "rename"} => files[w] = File,
         label = "failed" => files[w] = {},
         label \in {"stage", "open"} => target[w] = NoDir,
         output = Old /\ (\A v \in Writer : ~force[v]) => label \in {"failed", "crashed"},
         UNCHANGED <<force, output, files, target, todo>>
  PROVE  TypeOK' /\ PublishInv'
<1>1. TypeOK'
  BY DEF TypeOK, Goto
<1>2. pc'[w] = label /\ \A x \in Writer : x # w => pc'[x] = pc[x]
  BY DEF TypeOK, Goto
<1>3. output # w /\ \A v \in Writer : target[v] # w
  BY DEF PublishInv
<1>4. PublishInv'
  BY <1>2, <1>3 DEF PublishInv
<1> QED BY <1>1, <1>4

\* The two ways in which a removal ends: the directory at the output path,
\* emptied before, is gone or replaced by the writer's own.
LEMMA EmptiedStep ==
  ASSUME TypeOK, PublishInv, NEW w \in Writer, Here = {},
         \/ pc[w] = "remove" /\ output' = NoDir /\ Goto(w, "rename")
         \/ pc[w] = "rename" /\ output' = w /\ Goto(w, "done"),
         UNCHANGED <<force, files, target, todo>>
  PROVE  TypeOK' /\ PublishInv'
<1>1. TypeOK'
  BY DEF TypeOK, Goto, Dir
<1>2. files[w] = File /\ output # w /\ \A v \in Writer : target[v] # w
  BY DEF PublishInv
<1>3. /\ pc'[w] \in {"rename", "done"}
      /\ pc'[w] = "done" <=> output' = w
      /\ \A x \in Writer : x # w => pc'[x] = pc[x] /\ output' # x
  BY DirAssumption DEF TypeOK, Goto
<1>4. output' # Old
  BY DirAssumption
<1>5. ASSUME NEW x \in Writer, pc'[x] = "done"
      PROVE  \/ output' = x /\ files'[x] = File
             \/ \E v \in Writer \ {x} : target'[v] = x
  <2>1. CASE x = w
    BY <1>2, <1>3, <1>5, <2>1
  <2>2. CASE x # w
    <3>1. pc[x] = "done"
      BY <1>3, <1>5, <2>2
    <3>2. output = x /\ files[x] = File => FALSE
      BY <3>1, IndexAssumption, DirAssumption DEF Here
    <3> QED BY <3>1, <3>2 DEF PublishInv
  <2> QED BY <2>1, <2>2
<1>6. PublishInv'
  <2>1. \A x \in Writer : output' = x => pc'[x] = "done"
    BY <1>3, DirAssumption
  <2>2. \A v, x \in Writer : target'[v] = x => pc'[x] = "done"
    BY <1>2, <1>3 DEF PublishInv
  <2>3. \A x \in Writer : pc'[x] \in {"open", "remove", "rename"} => files'[x] = File
    BY <1>2, <1>3 DEF PublishInv
  <2>4. \A x \in Writer : pc'[x] \in {"start", "failed"} => files'[x] = {}
    BY <1>3 DEF PublishInv
  <2>5. \A x \in Writer : pc'[x] = "remove" => target'[x] # NoDir
    BY <1>3 DEF PublishInv
  <2>6. \A x \in Writer : pc'[x] \in {"start", "stage", "open"} => target'[x] = NoDir
    BY <1>3 DEF PublishInv
  <2> QED BY <1>4, <1>5, <2>1, <2>2, <2>3, <2>4, <2>5, <2>6 DEF PublishInv
<1> QED BY <1>1, <1>6

\* Every step preserves the type and the inductive invariant.
LEMMA PublishStep ==
  TypeOK /\ PublishInv /\ [Next]_vars => TypeOK' /\ PublishInv'
<1> SUFFICES ASSUME TypeOK, PublishInv, [Next]_vars
             PROVE  TypeOK' /\ PublishInv'
  OBVIOUS
<1>1. ASSUME NEW w \in Writer, Refuse(w)
      PROVE  TypeOK' /\ PublishInv'
  <2>1. pc[w] = "start" /\ files[w] = {}
    BY <1>1 DEF Refuse, PublishInv
  <2> QED BY <1>1, <2>1, MoveStep DEF Refuse
<1>2. ASSUME NEW w \in Writer, Begin(w)
      PROVE  TypeOK' /\ PublishInv'
  <2>1. ~(output = Old /\ \A v \in Writer : ~force[v])
    BY <1>2, DirAssumption DEF Begin
  <2>2. target[w] = NoDir
    BY <1>2 DEF Begin, PublishInv
  <2> QED BY <1>2, <2>1, <2>2, MoveStep DEF Begin
<1>3. ASSUME NEW w \in Writer, WriteFile(w)
      PROVE  TypeOK' /\ PublishInv'
  <2>1. PICK f \in File : files' = [files EXCEPT ![w] = @ \cup {f}]
    BY <1>3 DEF WriteFile
  <2>2. TypeOK'
    BY <1>3, <2>1 DEF WriteFile, TypeOK, Dir
  <2>3. pc[w] = "stage" /\ UNCHANGED <<force, output, pc, target, todo>>
    BY <1>3 DEF WriteFile
  <2>4. \A x \in Writer : x # w => files'[x] = files[x]
    BY <2>1 DEF TypeOK, Dir
  <2>5. PublishInv'
    BY <2>3, <2>4 DEF PublishInv
  <2> QED BY <2>2, <2>5
<1>4. ASSUME NEW w \in Writer, LookAgain(w)
      PROVE  TypeOK' /\ PublishInv'
  <2>1. pc[w] = "stage" /\ files[w] = File
    BY <1>4 DEF LookAgain
  <2>2. ~(output = Old /\ \A v \in Writer : ~force[v])
    BY <2>1 DEF PublishInv
  <2>3. PICK label \in {"open", "rename"} : Goto(w, label)
    BY <1>4 DEF LookAgain
  <2>4. target[w] = NoDir
    BY <2>1 DEF PublishInv
  <2> QED BY <1>4, <2>1, <2>2, <2>3, <2>4, MoveStep DEF LookAgain
<1>5. ASSUME NEW w \in Writer, OpenOutput(w)
      PROVE  TypeOK' /\ PublishInv'
  <2>1. pc[w] = "open"
    BY <1>5 DEF OpenOutput
  <2>2. CASE CleanUp(w)
    BY <2>1, <2>2, CleanUpStep
  <2>3. CASE /\ output # NoDir
             /\ target' = [target EXCEPT ![w] = output]
             /\ todo' = [todo EXCEPT ![w] = Here]
             /\ Goto(w, "remove")
             /\ UNCHANGED <<force, output, files>>
    <3>1. TypeOK'
      BY <2>3 DEF TypeOK, Goto, Here
    <3>2. /\ pc'[w] = "remove" /\ target'[w] = output
          /\ \A x \in Writer : x # w => pc'[x] = pc[x] /\ target'[x] = target[x]
      BY <2>3 DEF TypeOK, Goto
    <3>3. output # w /\ files[w] = File /\ \A v \in Writer : target[v] # w
      BY <2>1 DEF PublishInv
    <3>4. ~(output = Old /\ \A v \in Writer : ~force[v])
      BY <2>1 DEF PublishInv
    <3>5. ASSUME NEW x \in Writer, pc'[x] = "done"
          PROVE  \/ output' = x /\ files'[x] = File
                 \/ \E v \in Writer \ {x} : target'[v] = x
      <4>1. x # w /\ pc[x] = "done"
        BY <3>2, <3>5
      <4>2. CASE output = x /\ files[x] = File
        BY <2>3, <4>2
      <4>3. CASE \E v \in Writer \ {x} : target[v] = x
        <5>1. PICK v \in Writer \ {x} : target[v] = x
          BY <4>3
        <5>2. v # w
          BY <2>1, <5>1, DirAssumption DEF PublishInv
        <5> QED BY <3>2, <5>1, <5>2
      <4> QED BY <4>1, <4>2, <4>3 DEF PublishInv
    <3>6. \A v, x \in Writer : target'[v] = x => pc'[x] = "done"
      BY <3>2, <3>3 DEF PublishInv
    <3>7. \A x \in Writer : output' = x => pc'[x] = "done"
      BY <2>3, <3>2, <3>3 DEF PublishInv
    <3>8. PublishInv'
      BY <2>3, <3>2, <3>3, <3>4, <3>5, <3>6, <3>7 DEF PublishInv
    <3> QED BY <3>1, <3>8
  <2> QED BY <1>5, <2>2, <2>3 DEF OpenOutput
<1>6. ASSUME NEW w \in Writer, RemoveFile(w)
      PROVE  TypeOK' /\ PublishInv'
  <2>1. pc[w] = "remove" /\ target[w] # NoDir
    BY <1>6 DEF RemoveFile, PublishInv
  <2>2. CASE CleanUp(w)
    BY <2>1, <2>2, CleanUpStep
  <2>3. CASE \E f \in todo[w] : /\ files' = [files EXCEPT ![target[w]] = @ \ {f}]
                                /\ todo' = [todo EXCEPT ![w] = @ \ {f}]
                                /\ UNCHANGED <<force, output, pc, target>>
    <3>1. PICK f : /\ files' = [files EXCEPT ![target[w]] = @ \ {f}]
                   /\ todo' = [todo EXCEPT ![w] = @ \ {f}]
                   /\ UNCHANGED <<force, output, pc, target>>
      BY <2>3
    <3>2. TypeOK'
      BY <2>1, <3>1 DEF TypeOK
    <3>3. \A x \in Writer : x # target[w] => files'[x] = files[x]
      BY <3>1 DEF TypeOK, Dir
    <3>4. \A x \in Writer : x = target[w] => pc[x] = "done" /\ x # w
      BY <2>1 DEF PublishInv
    <3>5. ASSUME NEW x \in Writer, pc'[x] = "done"
          PROVE  \/ output' = x /\ files'[x] = File
                 \/ \E v \in Writer \ {x} : target'[v] = x
      <4>1. CASE x = target[w]
        BY <3>1, <3>4, <4>1
      <4>2. CASE x # target[w]
        BY <3>1, <3>3, <3>5, <4>2 DEF PublishInv
      <4> QED BY <4>1, <4>2
    <3>6. PublishInv'
      BY <3>1, <3>3, <3>4, <3>5 DEF PublishInv
    <3> QED BY <3>2, <3>6
  <2> QED BY <1>6, <2>2, <2>3 DEF RemoveFile
<1>7. ASSUME NEW w \in Writer, RemoveDir(w)
      PROVE  TypeOK' /\ PublishInv'
  <2>1. pc[w] = "remove"
    BY <1>7 DEF RemoveDir
  <2>2. CASE CleanUp(w)
    BY <2>1, <2>2, CleanUpStep
  <2>3. CASE /\ Here = {} /\ output' = NoDir /\ Goto(w, "rename")
             /\ UNCHANGED <<force, files, target, todo>>
    BY <2>1, <2>3, EmptiedStep
  <2> QED BY <1>7, <2>2, <2>3 DEF RemoveDir
<1>8. ASSUME NEW w \in Writer, Rename(w)
      PROVE  TypeOK' /\ PublishInv'
  <2>1. pc[w] = "rename"
    BY <1>8 DEF Rename
  <2>2. CASE CleanUp(w)
    BY <2>1, <2>2, CleanUpStep
  <2>3. CASE /\ Here = {} /\ output' = w /\ Goto(w, "done")
             /\ UNCHANGED <<force, files, target, todo>>
    BY <2>1, <2>3, EmptiedStep
  <2> QED BY <1>8, <2>2, <2>3 DEF Rename
<1>9. ASSUME NEW w \in Writer, Fail(w)
      PROVE  TypeOK' /\ PublishInv'
  BY <1>9, CleanUpStep DEF Fail
<1>10. ASSUME NEW w \in Writer, Crash(w)
       PROVE  TypeOK' /\ PublishInv'
  BY <1>10, MoveStep DEF Crash
<1>11. ASSUME UNCHANGED vars
       PROVE  TypeOK' /\ PublishInv'
  BY <1>11 DEF vars, TypeOK, PublishInv
<1> QED
  BY <1>1, <1>2, <1>3, <1>4, <1>5, <1>6, <1>7, <1>8, <1>9, <1>10, <1>11
  DEF Next, Step, AllEnded

\* The invariant that the theorems below rest on, and that it is one.
LEMMA PublishInvariant == Spec => [](TypeOK /\ PublishInv)
<1>1. Init => TypeOK /\ PublishInv
  <2> SUFFICES ASSUME Init PROVE TypeOK /\ PublishInv
    OBVIOUS
  <2>1. TypeOK
    BY DEF Init, TypeOK, Dir
  <2>2. \A w \in Writer : pc[w] = "start" /\ files[w] = {} /\ target[w] = NoDir /\ output # w
    BY DirAssumption DEF Init, Dir
  <2>3. PublishInv
    BY <2>2, DirAssumption DEF PublishInv
  <2> QED BY <2>1, <2>3
<1> QED BY <1>1, PublishStep, PTL DEF Spec

\* For any set of concurrent, failing and killed creations the variables of
\* the publication phase stay within their types.
THEOREM TypeCorrect == Spec => []TypeOK
BY PublishInvariant, PTL

\* Publication is atomic: os.replace puts a whole bundle at the output path,
\* and only an rmtree(output) of another creation can make it partial.
THEOREM PublishedWholeHolds == Spec => []PublishedWhole
<1>1. PublishInv => PublishedWhole
  BY DEF PublishInv, PublishedWhole
<1> QED BY <1>1, PublishInvariant, PTL

\* A creation that returned normally is found at the output path until
\* another creation opens it for removal.
THEOREM SuccessStaysHolds == Spec => []SuccessStays
<1>1. PublishInv => SuccessStays
  BY DEF PublishInv, SuccessStays
<1> QED BY <1>1, PublishInvariant, PTL

\* A creation that raised has left nothing staged and nothing published.
THEOREM FailureLeavesNothingHolds == Spec => []FailureLeavesNothing
<1>1. PublishInv => FailureLeavesNothing
  BY DEF PublishInv, FailureLeavesNothing
<1> QED BY <1>1, PublishInvariant, PTL

\* Without --force anywhere, a bundle that was there before stays as it is.
THEOREM UnforcedKeepsOldHolds == Spec => UnforcedKeepsOld
<1>1. TypeOK /\ PublishInv /\ [Next]_vars
        => [output = Old /\ (\A w \in Writer : ~force[w])
              => output' = Old /\ files'[Old] = files[Old]]_vars
  <2> SUFFICES ASSUME TypeOK, PublishInv, Next,
                      output = Old, \A w \in Writer : ~force[w]
               PROVE  output' = Old /\ files'[Old] = files[Old]
    BY DEF vars
  <2>1. \A w \in Writer : pc[w] \in {"start", "failed", "crashed"}
    BY DEF PublishInv
  <2>2. ASSUME NEW w \in Writer, Step(w) \/ Fail(w) \/ Crash(w)
        PROVE  output' = output /\ files' = files
    BY <2>1, <2>2 DEF Step, Refuse, Begin, WriteFile, LookAgain, OpenOutput, RemoveFile,
                      RemoveDir, Rename, Fail, Crash
  <2>3. CASE AllEnded
    BY <2>3 DEF AllEnded, vars
  <2> QED BY <2>2, <2>3 DEF Next
<1> QED BY <1>1, PublishInvariant, PTL DEF Spec, UnforcedKeepsOld
=============================================================================
