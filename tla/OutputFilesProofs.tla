------------------------- MODULE OutputFilesProofs --------------------------
(***************************************************************************)
(* Theorems about OutputFiles, for any commands, plans and files: the type *)
(* invariant, that private keys stay private, that only killed commands    *)
(* leave temporary files, that an unforced output replaces only what a     *)
(* concurrent command wrote, when pairs of outputs are mixed, and that     *)
(* OutputFiles implements OutputCommits.                                   *)
(***************************************************************************)
EXTENDS OutputFiles, TLAPS

\* Private keys are planned to be written with mode 600, and a temporary file
\* has the mode and the data that the command's step implies; whatever has a
\* name other than a temporary one is synced.
Prepared ==
  /\ \A c \in Command : \A k \in DOMAIN plan[c] :
       plan[c][k].data \in Secret => plan[c][k].mode = 600
  /\ \A p \in Path : (file[p] # Absent => file[p].synced) /\ (disk[p] # Absent => disk[p].synced)
  /\ \A c \in Command :
       /\ pc[c] = "chmod" => temp[c].data = Torn
       /\ pc[c] \in {"write", "sync", "replace"} => temp[c].mode = Output(c).mode
       /\ pc[c] = "write" => temp[c].data = Torn
       /\ pc[c] \in {"sync", "replace"} => temp[c].data = Output(c).data
       /\ pc[c] = "replace" => temp[c].synced

IInv == TypeOK /\ Prepared

\* The output a command is at is one of its plan.
LEMMA OutputType ==
  ASSUME TypeOK, NEW c \in Command, done[c] < Len(plan[c])
  PROVE  /\ Output(c) \in Outputs
         /\ done[c] + 1 \in DOMAIN plan[c]
BY DEF TypeOK, Output

\* Initially no command has a temporary file, and all files are synced.
LEMMA InitIInv == Init => IInv
<1> SUFFICES ASSUME Init PROVE IInv
  OBVIOUS
<1>1. PICK s \in Scenarios : plan = s.plan /\ file = s.file
  BY DEF Init
<1>2. /\ plan \in [Command -> Seq(Outputs)]
      /\ file \in [Path -> File \cup {Absent}]
      /\ \A c \in Command : \A k \in DOMAIN plan[c] :
           plan[c][k].data \in Secret => plan[c][k].mode = 600
      /\ \A p \in Path : file[p] # Absent => file[p].synced
  BY <1>1, ScenarioAssumption
<1>3. TypeOK
  BY <1>2 DEF Init, TypeOK
<1>4. Prepared
  BY <1>2 DEF Init, Prepared
<1> QED
  BY <1>3, <1>4 DEF IInv

\* Every step keeps it.
LEMMA NextIInv == IInv /\ [Next]_vars => IInv'
<1> SUFFICES ASSUME TypeOK, Prepared, [Next]_vars PROVE TypeOK' /\ Prepared'
  BY DEF IInv
<1> USE AbsentAssumption
<1>1. CASE \E c \in Command : Start(c)
  <2>1. PICK c \in Command : Start(c)
    BY <1>1
  <2>2. TypeOK'
    BY <2>1 DEF TypeOK, Start, Goto, Running
  <2>3. Prepared'
    BY <2>1, OutputType DEF TypeOK, Prepared, Start, Goto, Running, Output, File
  <2> QED
    BY <2>2, <2>3
<1>2. CASE \E c \in Command : Check(c)
  <2>1. PICK c \in Command : Check(c)
    BY <1>2
  <2>2. TypeOK'
    BY <2>1 DEF TypeOK, Check, Goto, Running, MayWrite
  <2>3. Prepared'
    BY <2>1, OutputType DEF TypeOK, Prepared, Check, Goto, Running, Output, File, MayWrite
  <2> QED
    BY <2>2, <2>3
<1>3. CASE \E c \in Command : Create(c)
  <2>1. PICK c \in Command : Create(c)
    BY <1>3
  <2>2. TypeOK'
    <3>1. [data |-> Torn, mode |-> 600, synced |-> FALSE] \in File
      BY DEF File, Modes
    <3>2. PICK f \in File : temp' = [temp EXCEPT ![c] = f]
      BY <2>1, <3>1 DEF Create
    <3>3. /\ temp' \in [Command -> File \cup {Absent}]
          /\ temp'[c] # Absent /\ \A d \in Command \ {c} : temp'[d] = temp[d]
      BY <3>2 DEF TypeOK
    <3> QED
      BY <2>1, <3>3 DEF TypeOK, Create, Goto
  <2>3. Prepared'
    BY <2>1, OutputType DEF TypeOK, Prepared, Create, Goto, Running, Output, File
  <2> QED
    BY <2>2, <2>3
<1>4. CASE \E c \in Command : Chmod(c)
  <2>1. PICK c \in Command : Chmod(c)
    BY <1>4
  <2>2. TypeOK'
    <3>1. /\ temp[c] \in File
          /\ Output(c) \in Outputs
      BY <2>1, OutputType DEF TypeOK, Chmod
    <3>2. [temp[c] EXCEPT !.mode = Output(c).mode] \in File
      BY <3>1 DEF File, Outputs
    <3>3. temp' = [temp EXCEPT ![c] = [temp[c] EXCEPT !.mode = Output(c).mode]]
      BY <2>1 DEF Chmod, ModeOf
    <3>4. /\ temp' \in [Command -> File \cup {Absent}]
          /\ \A d \in Command : temp'[d] = IF d = c THEN [temp[c] EXCEPT !.mode = Output(c).mode] ELSE temp[d]
      BY <3>2, <3>3 DEF TypeOK
    <3> QED
      BY <2>1, <3>2, <3>4 DEF TypeOK, Chmod, Goto
  <2>3. Prepared'
    BY <2>1, OutputType DEF TypeOK, Prepared, Chmod, Goto, Running, Output, File, ModeOf
  <2> QED
    BY <2>2, <2>3
<1>5. CASE \E c \in Command : Write(c)
  <2>1. PICK c \in Command : Write(c)
    BY <1>5
  <2>2. TypeOK'
    <3>1. /\ temp[c] \in File
          /\ Output(c) \in Outputs
      BY <2>1, OutputType DEF TypeOK, Write
    <3>2. [temp[c] EXCEPT !.data = Output(c).data] \in File
      BY <3>1 DEF File, Outputs
    <3>3. temp' = [temp EXCEPT ![c] = [temp[c] EXCEPT !.data = Output(c).data]]
      BY <2>1 DEF Write
    <3>4. /\ temp' \in [Command -> File \cup {Absent}]
          /\ \A d \in Command : temp'[d] = IF d = c THEN [temp[c] EXCEPT !.data = Output(c).data] ELSE temp[d]
      BY <3>2, <3>3 DEF TypeOK
    <3> QED
      BY <2>1, <3>2, <3>4 DEF TypeOK, Write, Goto
  <2>3. Prepared'
    BY <2>1, OutputType DEF TypeOK, Prepared, Write, Goto, Running, Output, File
  <2> QED
    BY <2>2, <2>3
<1>6. CASE \E c \in Command : Sync(c)
  <2>1. PICK c \in Command : Sync(c)
    BY <1>6
  <2>2. TypeOK'
    <3>1. /\ temp[c] \in File
          /\ Output(c) \in Outputs
      BY <2>1, OutputType DEF TypeOK, Sync
    <3>2. [temp[c] EXCEPT !.synced = TRUE] \in File
      BY <3>1 DEF File, Outputs
    <3>3. temp' = [temp EXCEPT ![c] = [temp[c] EXCEPT !.synced = TRUE]]
      BY <2>1 DEF Sync
    <3>4. /\ temp' \in [Command -> File \cup {Absent}]
          /\ \A d \in Command : temp'[d] = IF d = c THEN [temp[c] EXCEPT !.synced = TRUE] ELSE temp[d]
      BY <3>2, <3>3 DEF TypeOK
    <3> QED
      BY <2>1, <3>2, <3>4 DEF TypeOK, Sync, Goto
  <2>3. Prepared'
    BY <2>1, OutputType DEF TypeOK, Prepared, Sync, Goto, Running, Output, File
  <2> QED
    BY <2>2, <2>3
<1>7. CASE \E c \in Command : Replace(c)
  <2>1. PICK c \in Command : Replace(c)
    BY <1>7
  <2>2. TypeOK'
    <3>1. /\ temp[c] \in File
          /\ Output(c).path \in Path
          /\ done[c] < Len(plan[c])
      BY <2>1, OutputType DEF TypeOK, Replace, Outputs
    <3>2. file' \in [Path -> File \cup {Absent}]
      BY <2>1, <3>1 DEF TypeOK, Replace
    <3>3. done' \in [Command -> Nat] /\ \A d \in Command : done'[d] <= Len(plan[d])
      BY <2>1, <3>1 DEF TypeOK, Replace
    <3> QED
      BY <2>1, <3>2, <3>3 DEF TypeOK, Replace, Goto
  <2>3. Prepared'
    BY <2>1, OutputType DEF TypeOK, Prepared, Replace, Goto, Running, Output, File
  <2> QED
    BY <2>2, <2>3
<1>8. CASE \E c \in Command : Succeed(c)
  <2>1. PICK c \in Command : Succeed(c)
    BY <1>8
  <2>2. TypeOK'
    BY <2>1 DEF TypeOK, Succeed, Goto, Running
  <2>3. Prepared'
    BY <2>1, OutputType DEF TypeOK, Prepared, Succeed, Goto, Running, Output, File
  <2> QED
    BY <2>2, <2>3
<1>9. CASE \E c \in Command : Fail(c)
  <2>1. PICK c \in Command : Fail(c)
    BY <1>9
  <2>2. TypeOK'
    BY <2>1 DEF TypeOK, Fail, Goto, Running
  <2>3. Prepared'
    BY <2>1, OutputType DEF TypeOK, Prepared, Fail, Goto, Running, Output, File
  <2> QED
    BY <2>2, <2>3
<1>10. CASE \E c \in Command : Kill(c)
  <2>1. PICK c \in Command : Kill(c)
    BY <1>10
  <2>2. TypeOK'
    BY <2>1 DEF TypeOK, Kill, Goto, Running
  <2>3. Prepared'
    BY <2>1, OutputType DEF TypeOK, Prepared, Kill, Goto, Running, Output, File
  <2> QED
    BY <2>2, <2>3
<1>11. CASE \E p \in Path : Settle(p)
  BY <1>11 DEF TypeOK, Prepared, Settle, Output
<1>12. CASE PowerLoss
  <2>1. Fragile = {}
    BY DEF Prepared, Fragile
  <2>2. file' = disk
    BY <1>12, <2>1 DEF PowerLoss, TypeOK
  <2>3. TypeOK'
    <3>1. left' \subseteq File
      BY <1>12 DEF PowerLoss, TypeOK
    <3>2. /\ disk' = disk /\ temp' = [c \in Command |-> Absent]
          /\ pc' = [c \in Command |-> IF Running(c) THEN "killed" ELSE pc[c]]
          /\ plan' = plan /\ done' = done /\ overlaps' = overlaps
      BY <1>12, <2>2 DEF PowerLoss
    <3> QED
      BY <2>2, <3>1, <3>2 DEF TypeOK, Running
  <2>4. Prepared'
    BY <1>12, <2>2 DEF PowerLoss, TypeOK, Prepared, Running, Output
  <2> QED
    BY <2>3, <2>4
<1>13. CASE UNCHANGED vars
  BY <1>13 DEF vars, TypeOK, Prepared, Output
<1> QED
  BY <1>1, <1>2, <1>3, <1>4, <1>5, <1>6, <1>7, <1>8, <1>9, <1>10, <1>11, <1>12, <1>13
  DEF Next, Step, Over

\* IInv holds in every reachable state.
THEOREM Invariance == Spec => []IInv
BY InitIInv, NextIInv, PTL DEF Spec

\* The variables keep their types, and a command has a temporary file exactly
\* between mkstemp and rename (cli.py, _atomic_write).
THEOREM TypeCorrect == Spec => []TypeOK
<1>1. IInv => TypeOK
  BY DEF IInv
<1> QED
  BY <1>1, Invariance, PTL
-----------------------------------------------------------------------------
(* Private keys. *)

\* Initially private keys are in private files.
LEMMA InitPrivate == Init => SecretStaysPrivate
<1> SUFFICES ASSUME Init PROVE SecretStaysPrivate
  OBVIOUS
<1>1. PICK s \in Scenarios : plan = s.plan /\ file = s.file
  BY DEF Init
<1>2. \A p \in Path : file[p] # Absent => (file[p].data \in Secret => file[p].mode = 600)
  BY <1>1, ScenarioAssumption
<1> QED
  BY <1>2 DEF Init, SecretStaysPrivate, Private

\* Every step keeps them there: a temporary file is given its mode before its
\* data, and the mode planned for a secret is 600.
LEMMA NextPrivate == IInv /\ SecretStaysPrivate /\ [Next]_vars => SecretStaysPrivate'
<1> SUFFICES ASSUME TypeOK, Prepared, SecretStaysPrivate, [Next]_vars PROVE SecretStaysPrivate'
  BY DEF IInv
<1> USE AbsentAssumption, DataAssumption
<1>1. ASSUME NEW c \in Command, Create(c) \/ Chmod(c) \/ Write(c) \/ Sync(c)
      PROVE  SecretStaysPrivate'
  <2>1. Private(temp'[c])
    <3>1. CASE Create(c)
      BY <3>1 DEF Create, TypeOK, Private
    <3>2. CASE Chmod(c)
      <4>1. temp[c] \in File /\ temp[c].data = Torn
        BY <3>2 DEF Chmod, TypeOK, Prepared
      <4>2. temp'[c].data = Torn
        BY <3>2, <4>1 DEF Chmod, TypeOK, File
      <4> QED
        BY <4>2 DEF Private
    <3>3. CASE Write(c)
      <4>1. temp[c] \in File /\ temp[c].mode = Output(c).mode /\ done[c] < Len(plan[c])
        BY <3>3 DEF Write, TypeOK, Prepared
      <4>2. Output(c).data \in Secret => Output(c).mode = 600
        BY <4>1, OutputType DEF Prepared, Output
      <4>3. temp'[c].data = Output(c).data /\ temp'[c].mode = Output(c).mode
        BY <3>3, <4>1 DEF Write, TypeOK, File
      <4> QED
        BY <4>2, <4>3 DEF Private
    <3>4. CASE Sync(c)
      <4>1. temp[c] \in File /\ temp[c] # Absent
        BY <3>4 DEF Sync, TypeOK
      <4>2. temp'[c].data = temp[c].data /\ temp'[c].mode = temp[c].mode
        BY <3>4, <4>1 DEF Sync, TypeOK, File
      <4> QED
        BY <4>1, <4>2 DEF Private, SecretStaysPrivate
    <3> QED
      BY <1>1, <3>1, <3>2, <3>3, <3>4
  <2>2. /\ \A d \in Command \ {c} : temp'[d] = temp[d]
        /\ file' = file /\ disk' = disk /\ left' = left
    BY <1>1 DEF Create, Chmod, Write, Sync, TypeOK
  <2> QED
    BY <2>1, <2>2 DEF SecretStaysPrivate
<1>2. ASSUME NEW c \in Command, Replace(c)
      PROVE  SecretStaysPrivate'
  <2>1. /\ temp' = [temp EXCEPT ![c] = Absent] /\ disk' = disk /\ left' = left
        /\ file' = [file EXCEPT ![Output(c).path] = temp[c]]
    BY <1>2 DEF Replace
  <2> QED
    BY <2>1 DEF SecretStaysPrivate, Private, TypeOK
<1>3. ASSUME NEW c \in Command, Fail(c) \/ Kill(c)
      PROVE  SecretStaysPrivate'
  <2>1. file' = file /\ disk' = disk /\ temp' = [temp EXCEPT ![c] = Absent]
    BY <1>3 DEF Fail, Kill
  <2>2. left' \subseteq left \cup {temp[c]}
    BY <1>3 DEF Fail, Kill
  <2>3. \A d \in Command : Private(temp'[d])
    BY <2>1 DEF SecretStaysPrivate, Private, TypeOK
  <2> QED
    BY <2>1, <2>2, <2>3 DEF SecretStaysPrivate
<1>4. ASSUME NEW c \in Command, Start(c) \/ Check(c) \/ Succeed(c)
      PROVE  SecretStaysPrivate'
  BY <1>4 DEF Start, Check, Succeed, SecretStaysPrivate
<1>5. ASSUME NEW p \in Path, Settle(p)
      PROVE  SecretStaysPrivate'
  BY <1>5 DEF Settle, SecretStaysPrivate, TypeOK
<1>6. CASE PowerLoss
  <2>1. file' = disk /\ disk' = disk
    <3>1. Fragile = {}
      BY DEF Prepared, Fragile
    <3> QED
      BY <1>6, <3>1 DEF PowerLoss, TypeOK
  <2>2. \A f \in left' : Private(f)
    BY <1>6 DEF PowerLoss, SecretStaysPrivate
  <2>3. \A c \in Command : Private(temp'[c])
    BY <1>6 DEF PowerLoss, Private
  <2> QED
    BY <2>1, <2>2, <2>3 DEF SecretStaysPrivate
<1>7. CASE UNCHANGED vars
  BY <1>7 DEF vars, SecretStaysPrivate
<1> QED
  BY <1>1, <1>2, <1>3, <1>4, <1>5, <1>6, <1>7 DEF Next, Step, Over

\* A private key is only ever in files of mode 600, temporary files and those a
\* killed "key generate" leaves behind included.
THEOREM SecretsPrivate == Spec => []SecretStaysPrivate
<1>1. Init => IInv /\ SecretStaysPrivate
  BY InitIInv, InitPrivate
<1>2. (IInv /\ SecretStaysPrivate) /\ [Next]_vars => (IInv /\ SecretStaysPrivate)'
  BY NextIInv, NextPrivate
<1> QED
  BY <1>1, <1>2, PTL DEF Spec
-----------------------------------------------------------------------------
(* OutputFiles implements OutputCommits. *)

\* The initial states are initial states of OutputCommits.
LEMMA InitCommits == Init => Commits!Init
BY DEF Init, Commits!Init, StatusOf

\* The steps of one command: Start, the rename and the ends of a command are
\* steps of OutputCommits, the others change nothing it sees.
LEMMA StepCommits ==
  ASSUME IInv, NEW c \in Command, Step(c)
  PROVE  Commits!Next \/ UNCHANGED Commits!vars
<1> USE AbsentAssumption DEF IInv
<1>1. CASE Start(c)
  <2>1. Commits!Start(c)
    BY <1>1 DEF Start, Goto, TypeOK, StatusOf, Commits!Start
  <2> QED
    BY <2>1 DEF Commits!Next
<1>2. CASE Check(c)
  <2>1. CASE MayWrite(c)
    BY <1>2, <2>1 DEF Check, Goto, TypeOK, StatusOf, Commits!vars
  <2>2. CASE ~MayWrite(c)
    <3>1. Commits!Stop(c)
      BY <1>2, <2>2 DEF Check, Goto, TypeOK, StatusOf, Commits!Stop
    <3> QED
      BY <3>1 DEF Commits!Next
  <2> QED
    BY <2>1, <2>2
<1>3. CASE Create(c)
  BY <1>3 DEF Create, Goto, TypeOK, StatusOf, Commits!vars
<1>4. CASE Chmod(c)
  BY <1>4 DEF Chmod, Goto, TypeOK, StatusOf, Commits!vars
<1>5. CASE Write(c)
  BY <1>5 DEF Write, Goto, TypeOK, StatusOf, Commits!vars
<1>6. CASE Sync(c)
  BY <1>6 DEF Sync, Goto, TypeOK, StatusOf, Commits!vars
<1>7. CASE Replace(c)
  <2>1. /\ temp[c] # Absent /\ temp[c].data = Output(c).data /\ temp[c].mode = Output(c).mode
        /\ Output(c).path \in Path /\ done[c] + 1 \in DOMAIN plan[c]
    BY <1>7, OutputType DEF Replace, TypeOK, Prepared, Outputs
  <2>2. [p \in Path |-> Visible(file'[p])]
          = [[p \in Path |-> Visible(file[p])] EXCEPT
               ![Output(c).path] = [data |-> Output(c).data, mode |-> Output(c).mode]]
    BY <1>7, <2>1 DEF Replace, TypeOK, Visible
  <2>3. [d \in Command |-> StatusOf(d)]' = [d \in Command |-> StatusOf(d)]
        /\ StatusOf(c) = "open"
    BY <1>7 DEF Replace, Goto, TypeOK, StatusOf
  <2>4. Commits!Commit(c)
    BY <1>7, <2>1, <2>2, <2>3 DEF Replace, Output, Commits!Commit
  <2> QED
    BY <2>4 DEF Commits!Next
<1>8. CASE Succeed(c)
  <2>1. Commits!Finish(c)
    BY <1>8 DEF Succeed, Goto, TypeOK, StatusOf, Commits!Finish
  <2> QED
    BY <2>1 DEF Commits!Next
<1>9. CASE Fail(c)
  <2>1. Commits!Stop(c)
    BY <1>9 DEF Fail, Running, Goto, TypeOK, StatusOf, Commits!Stop
  <2> QED
    BY <2>1 DEF Commits!Next
<1>10. CASE Kill(c)
  <2>1. Commits!Stop(c)
    BY <1>10 DEF Kill, Running, Goto, TypeOK, StatusOf, Commits!Stop
  <2> QED
    BY <2>1 DEF Commits!Next
<1> QED
  BY <1>1, <1>2, <1>3, <1>4, <1>5, <1>6, <1>7, <1>8, <1>9, <1>10 DEF Step

\* Every step is a step of OutputCommits or changes nothing it sees.
LEMMA NextCommits == IInv /\ [Next]_vars => [Commits!Next]_Commits!vars
<1> SUFFICES ASSUME IInv, [Next]_vars PROVE Commits!Next \/ UNCHANGED Commits!vars
  OBVIOUS
<1>1. CASE \E c \in Command : Step(c)
  BY <1>1, StepCommits
<1>2. CASE \E p \in Path : Settle(p)
  <2>1. PICK p \in Path : Settle(p)
    BY <1>2
  <2>2. Commits!Settle(p)
    BY <2>1 DEF IInv, Settle, TypeOK, Visible, StatusOf, Commits!Settle
  <2> QED
    BY <2>2 DEF Commits!Next
<1>3. CASE PowerLoss
  <2>1. file' = disk /\ disk' = disk
    <3>1. Fragile = {}
      BY DEF IInv, Prepared, Fragile
    <3> QED
      BY <1>3, <3>1 DEF IInv, PowerLoss, TypeOK
  <2>2. [c \in Command |-> StatusOf(c)]'
          = [c \in Command |-> IF StatusOf(c) = "open" THEN "stopped" ELSE StatusOf(c)]
    BY <1>3 DEF IInv, PowerLoss, TypeOK, Running, StatusOf
  <2>3. Commits!PowerLoss
    BY <1>3, <2>1, <2>2 DEF PowerLoss, Commits!PowerLoss
  <2> QED
    BY <2>3 DEF Commits!Next
<1>4. CASE UNCHANGED vars
  BY <1>4 DEF vars, StatusOf, Commits!vars
<1> QED
  BY <1>1, <1>2, <1>3, <1>4 DEF Next, Over

\* _atomic_write is atomic: OutputFiles implements OutputCommits, in which an
\* output appears whole at its path in one step, a command that succeeds has
\* written all of its outputs in order, and a power loss tears nothing.
THEOREM Refinement == Spec => CommitsWhole
BY InitCommits, NextCommits, Invariance, PTL DEF Spec, CommitsWhole, Commits!Spec
-----------------------------------------------------------------------------
(* Temporary files that stay, and files that are replaced unforced. *)

\* Only a command that was killed leaves a temporary file behind: all the
\* exceptions _atomic_write catches remove it.
THEOREM LitterOnlyByKilled == Spec => []OnlyKilledLitter
<1>1. Init => OnlyKilledLitter
  BY DEF Init, OnlyKilledLitter
<1>2. IInv /\ OnlyKilledLitter /\ [Next]_vars => OnlyKilledLitter'
  <2> SUFFICES ASSUME TypeOK, OnlyKilledLitter, [Next]_vars PROVE OnlyKilledLitter'
    BY DEF IInv
  <2>1. \A c \in Command : pc[c] = "killed" => pc'[c] = "killed"
    BY DEF Next, Step, Start, Check, Create, Chmod, Write, Sync, Replace, Succeed, Fail, Kill,
           Goto, Running, Settle, PowerLoss, Over, vars, TypeOK
  <2>2. left' # left => \E c \in Command : pc'[c] = "killed"
    <3>1. ASSUME NEW c \in Command, Kill(c) PROVE pc'[c] = "killed"
      BY <3>1 DEF Kill, Goto, TypeOK
    <3>2. ASSUME PowerLoss, left' # left PROVE \E c \in Command : pc'[c] = "killed"
      <4>1. PICK c \in Command : temp[c] # Absent
        BY <3>2 DEF PowerLoss
      <4>2. Running(c)
        BY <4>1 DEF TypeOK, Running
      <4> QED
        BY <3>2, <4>2 DEF PowerLoss
    <3> QED
      BY <3>1, <3>2 DEF Next, Step, Start, Check, Create, Chmod, Write, Sync, Replace, Succeed,
                        Fail, Settle, Over, vars
  <2> QED
    BY <2>1, <2>2 DEF OnlyKilledLitter
<1> QED
  BY <1>1, <1>2, Invariance, PTL DEF Spec

\* Commands that run at the same time are known to overlap, and the path of an
\* unforced output that passed its check is free or was taken since, by a
\* command that overlaps.
Guarded ==
  /\ \A c, d \in Command : Running(c) /\ Running(d) /\ c # d => <<c, d>> \in overlaps
  /\ \A c \in Command :
       /\ pc[c] \in {"create", "chmod", "write", "sync", "replace"}
       /\ Output(c).guarded /\ file[Output(c).path] # Absent
       => \E d \in Command :
            <<c, d>> \in overlaps /\ \E k \in 1..done[d] : plan[d][k].path = Output(c).path

\* Nothing runs yet.
LEMMA InitGuarded == Init => Guarded
BY DEF Init, Guarded, Running

\* Every step keeps it; only the rename of another command can take the path.
LEMMA NextGuarded == IInv /\ Guarded /\ [Next]_vars => Guarded'
<1> SUFFICES ASSUME TypeOK, Guarded, [Next]_vars PROVE Guarded'
  BY DEF IInv
<1> DEFINE Over2 == \A c, d \in Command : Running(c) /\ Running(d) /\ c # d => <<c, d>> \in overlaps
           Taken(c) == \E d \in Command :
             <<c, d>> \in overlaps /\ \E k \in 1..done[d] : plan[d][k].path = Output(c).path
           Past(c) == pc[c] \in {"create", "chmod", "write", "sync", "replace"}
<1>1. Over2'
  <2>1. ASSUME NEW c \in Command, Start(c) PROVE Over2'
    BY <2>1 DEF Guarded, Start, Goto, Running, TypeOK
  <2>2. CASE \A c \in Command : ~Start(c)
    <3>1. overlaps' = overlaps /\ \A c \in Command : Running(c)' => Running(c)
      BY <2>2 DEF Next, Step, Check, Create, Chmod, Write, Sync, Replace, Succeed, Fail, Kill,
                  Goto, Running, Settle, PowerLoss, Over, vars, TypeOK
    <3> QED
      BY <3>1 DEF Guarded
  <2> QED
    BY <2>1, <2>2
<1>2. ASSUME NEW c \in Command, Past(c)', Output(c)'.guarded, file'[Output(c)'.path] # Absent
      PROVE  Taken(c)'
  <2>1. /\ plan' = plan /\ overlaps \subseteq overlaps'
        /\ \A d \in Command : done'[d] \in Nat /\ done[d] \in Nat /\ done'[d] >= done[d]
    BY DEF Next, Step, Start, Check, Create, Chmod, Write, Sync, Replace, Succeed, Fail, Kill,
           Settle, PowerLoss, Over, vars, TypeOK
  <2>2. Output(c)' = Output(c) /\ done'[c] = done[c]
    BY <1>2 DEF Next, Step, Start, Check, Create, Chmod, Write, Sync, Replace, Succeed, Fail, Kill,
           Settle, PowerLoss, Over, vars, TypeOK, Output, Goto
  <2>3. CASE Past(c) /\ file[Output(c).path] # Absent
    <3>1. Taken(c)
      BY <1>2, <2>2, <2>3 DEF Guarded
    <3> QED
      BY <2>1, <2>2, <3>1
  <2>4. CASE ~Past(c)
    <3>1. Check(c) /\ MayWrite(c)
      BY <1>2, <2>4 DEF Next, Step, Start, Check, Create, Chmod, Write, Sync, Replace, Succeed,
         Fail, Kill, Settle, PowerLoss, Over, vars, TypeOK, Goto
    <3> QED
      BY <1>2, <2>2, <3>1 DEF Check, MayWrite
  <2>5. CASE Past(c) /\ file[Output(c).path] = Absent
    <3>1. Output(c).path \in Path
      BY <2>5, OutputType DEF TypeOK, Outputs
    <3>2. ~PowerLoss
      <4> SUFFICES ASSUME PowerLoss PROVE FALSE
        OBVIOUS
      <4>1. pc'[c] = IF Running(c) THEN "killed" ELSE pc[c]
        BY DEF PowerLoss
      <4> QED
        BY <1>2, <4>1 DEF Running
    <3>3. file' # file
      BY <1>2, <2>2, <2>5
    <3>4. PICK d \in Command : Replace(d)
      BY <3>2, <3>3 DEF Next, Step, Start, Check, Create, Chmod, Write, Sync, Succeed, Fail, Kill,
                        Settle, Over, vars
    <3>5. Replace(d) /\ Output(d).path = Output(c).path
      BY <1>2, <2>2, <2>5, <3>1, <3>4 DEF Replace, TypeOK
    <3>6. c # d
      BY <2>2, <3>5 DEF Replace, TypeOK
    <3>7. <<c, d>> \in overlaps
      BY <2>5, <3>5, <3>6 DEF Guarded, Running, Replace
    <3>8. done'[d] = done[d] + 1 /\ plan[d][done'[d]].path = Output(c).path
      BY <3>5 DEF Replace, Output, TypeOK
    <3>9. done'[d] \in 1..done'[d]
      BY <2>1, <3>8
    <3> QED
      BY <2>1, <2>2, <3>7, <3>8, <3>9
  <2> QED
    BY <2>3, <2>4, <2>5
<1> QED
  BY <1>1, <1>2 DEF Guarded

\* Without --force, an output replaces a file only if a command that ran at the
\* same time wrote it: _write_json's test of existence is not atomic.
THEOREM UnforcedKeeps == Spec => UnforcedKeepsOthers
<1>1. Guarded /\ IInv /\ [Next]_vars =>
        [\A c \in Command :
           done'[c] # done[c] /\ Output(c).guarded /\ file[Output(c).path] # Absent
             => \E d \in Command :
                  <<c, d>> \in overlaps
                  /\ \E k \in 1..done[d] : plan[d][k].path = Output(c).path]_vars
  <2> SUFFICES ASSUME Guarded, TypeOK, [Next]_vars,
                      NEW c \in Command, done'[c] # done[c], Output(c).guarded,
                      file[Output(c).path] # Absent
               PROVE  \E d \in Command :
                        <<c, d>> \in overlaps
                        /\ \E k \in 1..done[d] : plan[d][k].path = Output(c).path
    BY DEF IInv
  <2>1. Replace(c)
    BY DEF Next, Step, Start, Check, Create, Chmod, Write, Sync, Replace, Succeed, Fail, Kill,
           Settle, PowerLoss, Over, vars, TypeOK
  <2> QED
    BY <2>1 DEF Replace, Guarded
<1>2. Init => Guarded /\ IInv
  BY InitIInv, InitGuarded
<1>3. (Guarded /\ IInv) /\ [Next]_vars => (Guarded /\ IInv)'
  BY NextIInv, NextGuarded
<1> QED
  BY <1>1, <1>2, <1>3, PTL DEF Spec, UnforcedKeepsOthers
-----------------------------------------------------------------------------
(* Pairs of outputs. *)

\* Data are known by who wrote them, a file that holds an output is at its path
\* and was written, and the ends of a command have all or none of its outputs.
Known ==
  /\ \A c, d \in Command : \A j \in DOMAIN plan[c], k \in DOMAIN plan[d] :
       plan[c][j].data = plan[d][k].data => c = d /\ j = k
  /\ \A c \in Command : /\ pc[c] = "idle" => done[c] = 0
                        /\ pc[c] = "succeeded" => done[c] = Len(plan[c])
  /\ ~lost => \A c \in Command, p \in Path : \A k \in DOMAIN plan[c] :
       file[p] # Absent /\ file[p].data = plan[c][k].data => k <= done[c] /\ plan[c][k].path = p

\* A command that has run alone so far still finds at the path of its first
\* output what it wrote itself.
Alone ==
  ~lost /\ overlaps = {} =>
    \A d \in Command : Running(d) /\ done[d] >= 1 =>
      \E k \in 1..done[d] : file[plan[d][1].path] # Absent
                            /\ file[plan[d][1].path].data = plan[d][k].data

\* Where d wrote a pair and c after it only the first output, c has not written
\* its second.
Mixed ==
  ~lost /\ overlaps = {} =>
    \A c, d \in Command, p, q \in Path :
      /\ c # d /\ p # q
      /\ Wrote(c, 1, p) /\ Wrote(d, 2, q)
      /\ Len(plan[c]) = 2 /\ plan[c][2].path = q /\ plan[d][1].path = p
      => done[c] <= 1

PairInv == Known /\ Alone /\ Mixed

\* Nothing is written yet.
LEMMA InitPair == Init => PairInv
<1> SUFFICES ASSUME Init PROVE PairInv
  OBVIOUS
<1>1. PICK s \in Scenarios : plan = s.plan /\ file = s.file
  BY DEF Init
<1>2. \A c \in Command : \A j \in DOMAIN plan[c] :
        /\ \A d \in Command : \A k \in DOMAIN plan[d] :
             plan[c][j].data = plan[d][k].data => c = d /\ j = k
        /\ \A p \in Path : file[p] # Absent => file[p].data # plan[c][j].data
  BY <1>1, FreshAssumption
<1>3. \A c \in Command : pc[c] = "idle" /\ done[c] = 0
  BY DEF Init
<1>4. Known
  BY <1>2, <1>3 DEF Known
<1>5. Alone
  BY <1>3 DEF Alone
<1>6. Mixed
  BY <1>2 DEF Mixed, Wrote
<1> QED
  BY <1>4, <1>5, <1>6 DEF PairInv

\* What the steps other than a rename leave alone; a power loss changes the
\* files besides.
LEMMA PairFrame ==
  ASSUME TypeOK, [Next]_vars
  PROVE  /\ plan' = plan /\ (lost => lost') /\ overlaps \subseteq overlaps'
         /\ \/ \E c \in Command : Replace(c)
            \/ /\ done' = done /\ (lost' \/ file' = file)
               /\ \A c \in Command : /\ Running(c)' => Running(c) \/ pc[c] = "idle"
                                     /\ pc'[c] = "idle" => pc[c] = "idle"
                                     /\ pc'[c] = "succeeded" =>
                                          pc[c] = "succeeded" \/ done[c] = Len(plan[c])
<1>1. ASSUME NEW c \in Command,
             Start(c) \/ Check(c) \/ Create(c) \/ Chmod(c) \/ Write(c) \/ Sync(c) \/ Succeed(c)
             \/ Fail(c) \/ Kill(c)
      PROVE  /\ plan' = plan /\ lost' = lost /\ overlaps \subseteq overlaps'
             /\ file' = file /\ done' = done
             /\ \A d \in Command : /\ Running(d)' => Running(d) \/ pc[d] = "idle"
                                   /\ pc'[d] = "idle" => pc[d] = "idle"
                                   /\ pc'[d] = "succeeded" =>
                                        pc[d] = "succeeded" \/ done[d] = Len(plan[d])
  BY <1>1 DEF Start, Check, Create, Chmod, Write, Sync, Succeed, Fail, Kill, Goto, Running, TypeOK
<1>2. ASSUME NEW c \in Command, Replace(c)
      PROVE  plan' = plan /\ lost' = lost /\ overlaps' = overlaps
  BY <1>2 DEF Replace
<1>3. ASSUME (\E p \in Path : Settle(p)) \/ Over \/ UNCHANGED vars
      PROVE  /\ plan' = plan /\ lost' = lost /\ overlaps' = overlaps
             /\ file' = file /\ done' = done /\ pc' = pc
  BY <1>3 DEF Settle, Over, vars
<1>4. ASSUME PowerLoss
      PROVE  /\ plan' = plan /\ lost' /\ overlaps' = overlaps /\ done' = done
             /\ \A c \in Command : pc'[c] = IF Running(c) THEN "killed" ELSE pc[c]
  BY <1>4 DEF PowerLoss
<1> QED
  BY <1>1, <1>2, <1>3, <1>4 DEF Next, Step, Running

\* A rename puts the command's next output at its path.
LEMMA RenameFacts ==
  ASSUME IInv, NEW c \in Command, Replace(c)
  PROVE  /\ done[c] \in Nat /\ done[c] + 1 \in DOMAIN plan[c] /\ Output(c).path \in Path
         /\ done' = [done EXCEPT ![c] = done[c] + 1]
         /\ \A p \in Path : file'[p] = IF p = Output(c).path THEN temp[c] ELSE file[p]
         /\ temp[c] # Absent /\ temp[c].data = Output(c).data
         /\ Running(c) /\ pc'[c] = "begin" /\ \A d \in Command \ {c} : pc'[d] = pc[d]
         /\ UNCHANGED <<plan, lost, overlaps>>
<1>1. /\ pc[c] = "replace" /\ done[c] < Len(plan[c]) /\ done[c] \in Nat
      /\ temp[c] # Absent /\ temp[c].data = Output(c).data
  BY DEF Replace, IInv, TypeOK, Prepared
<1>2. done[c] + 1 \in DOMAIN plan[c] /\ Output(c).path \in Path
  BY <1>1, OutputType DEF IInv, Outputs
<1>3. /\ file' = [file EXCEPT ![Output(c).path] = temp[c]] /\ pc' = [pc EXCEPT ![c] = "begin"]
      /\ done' = [done EXCEPT ![c] = done[c] + 1]
      /\ UNCHANGED <<plan, lost, overlaps>>
  BY DEF Replace, Goto
<1> QED
  BY <1>1, <1>2, <1>3 DEF IInv, TypeOK, Running

\* Known is kept.
LEMMA KnownStep == IInv /\ Known /\ [Next]_vars => Known'
<1> SUFFICES ASSUME IInv, Known, [Next]_vars PROVE Known'
  OBVIOUS
<1> USE DEF IInv
<1>1. CASE ~\E c \in Command : Replace(c)
  BY <1>1, PairFrame DEF Known
<1>2. ASSUME NEW c \in Command, Replace(c) PROVE Known'
  <2>1. /\ \A x, y \in Command : \A j \in DOMAIN plan'[x], k \in DOMAIN plan'[y] :
             plan'[x][j].data = plan'[y][k].data => x = y /\ j = k
        /\ \A x \in Command : /\ pc'[x] = "idle" => done'[x] = 0
                              /\ pc'[x] = "succeeded" => done'[x] = Len(plan'[x])
    <3>1. plan' = plan /\ pc'[c] = "begin"
      BY <1>2, RenameFacts
    <3>2. \A x \in Command \ {c} : pc'[x] = pc[x] /\ done'[x] = done[x]
      BY <1>2, RenameFacts DEF TypeOK
    <3> QED BY <3>1, <3>2 DEF Known
  <2>2. ASSUME ~lost', NEW x \in Command, NEW p \in Path, NEW k \in DOMAIN plan'[x],
               file'[p] # Absent, file'[p].data = plan'[x][k].data
        PROVE  k <= done'[x] /\ plan'[x][k].path = p
    <3>1. CASE p = Output(c).path
      <4>1. plan[c][done[c] + 1].data = plan[x][k].data
        BY <1>2, <2>2, <3>1, RenameFacts DEF Output
      <4>2. x = c /\ k = done[c] + 1
        BY <1>2, <2>2, <4>1, RenameFacts DEF Known
      <4> QED BY <1>2, <3>1, <4>2, RenameFacts DEF Output, TypeOK
    <3>2. CASE p # Output(c).path
      <4>1. k <= done[x] /\ plan[x][k].path = p
        BY <1>2, <2>2, <3>2, RenameFacts DEF Known
      <4>2. done'[x] \in {done[x], done[x] + 1} /\ done[x] \in Nat /\ k \in Nat
        BY <1>2, <2>2, RenameFacts DEF TypeOK
      <4> QED BY <1>2, <4>1, <4>2, RenameFacts
    <3> QED BY <3>1, <3>2
  <2> QED BY <2>1, <2>2 DEF Known
<1> QED BY <1>1, <1>2

\* A rename by anybody else would overlap.
LEMMA AloneStep == IInv /\ Known /\ Guarded /\ Alone /\ [Next]_vars => Alone'
<1> SUFFICES ASSUME IInv, Known, Guarded, Alone, [Next]_vars, ~lost', overlaps' = {},
                    NEW d \in Command, Running(d)', done'[d] >= 1
             PROVE  \E k \in 1..done'[d] : file'[plan'[d][1].path] # Absent
                                           /\ file'[plan'[d][1].path].data = plan'[d][k].data
  BY DEF Alone
<1> USE DEF IInv
<1>0. ~lost /\ overlaps = {} /\ plan' = plan
  BY PairFrame
<1>1. CASE ~\E c \in Command : Replace(c)
  <2>1. done' = done /\ file' = file /\ (Running(d) \/ pc[d] = "idle")
    BY <1>1, PairFrame
  <2>2. Running(d)
    BY <2>1 DEF Known
  <2> QED BY <1>0, <2>1, <2>2 DEF Alone
<1>2. ASSUME NEW c \in Command, Replace(c)
      PROVE  \E k \in 1..done'[d] : file'[plan'[d][1].path] # Absent
                                    /\ file'[plan'[d][1].path].data = plan'[d][k].data
  <2>1. c = d
    <3>1. c # d => Running(d)
      BY <1>2, RenameFacts DEF Running
    <3> QED BY <1>0, <1>2, <3>1, RenameFacts DEF Guarded
  <2>2. done'[d] = done[d] + 1 /\ done[d] \in Nat /\ Running(d)
    BY <1>2, <2>1, RenameFacts DEF TypeOK
  <2>3. CASE plan[d][1].path = Output(d).path
    <3>1. /\ file'[plan[d][1].path] # Absent
          /\ file'[plan[d][1].path].data = plan[d][done[d] + 1].data
      BY <1>2, <2>1, <2>3, RenameFacts DEF Output
    <3> QED BY <1>0, <2>2, <3>1
  <2>4. CASE plan[d][1].path # Output(d).path
    <3>1. done[d] >= 1
      BY <2>2, <2>4 DEF Output
    <3>2. PICK k \in 1..done[d] : /\ file[plan[d][1].path] # Absent
                                  /\ file[plan[d][1].path].data = plan[d][k].data
      BY <1>0, <2>2, <3>1 DEF Alone
    <3>3. plan[d][1].path \in Path
      <4>1. plan[d] \in Seq(Outputs) /\ done[d] <= Len(plan[d])
        BY DEF TypeOK
      <4>2. plan[d][1] \in Outputs
        BY <2>2, <3>1, <4>1
      <4> QED BY <4>2 DEF Outputs
    <3>4. file'[plan[d][1].path] = file[plan[d][1].path]
      BY <1>2, <2>1, <2>4, <3>3, RenameFacts
    <3> QED BY <1>0, <2>2, <3>2, <3>4
  <2> QED BY <2>3, <2>4
<1> QED BY <1>1, <1>2

\* The rename that would complete a mixed pair is d's second or c's first.  d's
\* own first output is at p by then (Alone), and c's first leaves it at one.
LEMMA MixedStep == IInv /\ Known /\ Known' /\ Alone /\ Mixed /\ [Next]_vars => Mixed'
<1> SUFFICES ASSUME IInv, Known, Known', Alone, Mixed, [Next]_vars, ~lost', overlaps' = {},
                    NEW c \in Command, NEW d \in Command, NEW p \in Path, NEW q \in Path,
                    c # d, p # q, Wrote(c, 1, p)', Wrote(d, 2, q)',
                    Len(plan'[c]) = 2, plan'[c][2].path = q, plan'[d][1].path = p
             PROVE  done'[c] <= 1
  BY DEF Mixed
<1> USE DEF IInv
<1>0. ~lost /\ overlaps = {} /\ plan' = plan
  BY PairFrame
<1>1. CASE ~\E x \in Command : Replace(x)
  BY <1>0, <1>1, PairFrame DEF Mixed, Wrote
<1>2. ASSUME NEW x \in Command, Replace(x) PROVE done'[c] <= 1
  <2>1. /\ done[x] \in Nat /\ done'[x] = done[x] + 1 /\ \A y \in Command \ {x} : done'[y] = done[y]
        /\ done[x] + 1 \in DOMAIN plan[x] /\ Output(x) = plan[x][done[x] + 1]
        /\ \A r \in Path : r # Output(x).path => file'[r] = file[r]
        /\ file'[Output(x).path].data = plan[x][done[x] + 1].data
    <3>1. /\ done[x] \in Nat /\ done[x] + 1 \in DOMAIN plan[x] /\ Output(x).path \in Path
          /\ done' = [done EXCEPT ![x] = done[x] + 1]
          /\ \A r \in Path : file'[r] = IF r = Output(x).path THEN temp[x] ELSE file[r]
          /\ temp[x].data = Output(x).data
      BY <1>2, RenameFacts
    <3>2. done'[x] = done[x] + 1 /\ \A y \in Command \ {x} : done'[y] = done[y]
      BY <3>1 DEF TypeOK
    <3> QED BY <3>1, <3>2 DEF Output
  <2>2. CASE Output(x).path = p
    <3>1. x = c /\ done[x] + 1 = 1
      BY <1>0, <2>1, <2>2 DEF Wrote, Known
    <3> QED BY <2>1, <3>1
  <2>3. CASE Output(x).path = q
    <3>1. x = d /\ done[x] + 1 = 2
      BY <1>0, <2>1, <2>3 DEF Wrote, Known
    <3>2. Running(d) /\ done[d] = 1
      BY <1>2, <2>1, <3>1, RenameFacts
    <3>3. file[p].data = plan[d][1].data
      BY <1>0, <3>2 DEF Alone
    <3>4. file[p].data = plan[c][1].data /\ 1 \in DOMAIN plan[c]
      BY <1>0, <2>1, <2>3 DEF Wrote
    <3>5. 1 \in DOMAIN plan[d]
      BY <2>1, <3>1 DEF TypeOK
    <3>6. plan[c][1].data # plan[d][1].data
      BY <3>4, <3>5 DEF Known
    <3> QED BY <3>3, <3>4, <3>6
  <2>4. CASE Output(x).path \notin {p, q}
    <3>1. Wrote(c, 1, p) /\ Wrote(d, 2, q)
      BY <1>0, <2>1, <2>4 DEF Wrote
    <3>2. done[c] <= 1
      BY <1>0, <3>1 DEF Mixed
    <3>3. CASE x = c
      <4>1. done[c] = 0
        BY <1>0, <2>1, <2>4, <3>2, <3>3
      <4> QED BY <2>1, <3>3, <4>1
    <3> QED BY <2>1, <3>2, <3>3
  <2> QED BY <2>2, <2>3, <2>4
<1> QED BY <1>1, <1>2

\* Two pairs of outputs at the same two paths, such as the keys of two runs of
\* "key generate", get mixed only when a command is or was stopped between its
\* two outputs, commands overlap, or the power is lost.
THEOREM PairsTogether == Spec => []PairsBelongTogether
<1>1. IInv /\ PairInv => PairsBelongTogether
  <2> SUFFICES ASSUME IInv, PairInv, ~lost, overlaps = {},
                      NEW c \in Command, NEW d \in Command, NEW p \in Path, NEW q \in Path,
                      c # d, p # q, Wrote(c, 1, p), Wrote(d, 2, q),
                      Len(plan[c]) = 2, plan[c][2].path = q, plan[d][1].path = p
               PROVE  pc[c] # "succeeded" /\ done[c] \in 1..Len(plan[c]) - 1
    BY DEF PairsBelongTogether
  <2>1. done[c] <= 1
    BY DEF PairInv, Mixed
  <2>2. 1 <= done[c]
    BY DEF PairInv, Known, Wrote
  <2>3. done[c] \in Nat
    BY DEF IInv, TypeOK
  <2>4. pc[c] # "succeeded"
    BY <2>1 DEF PairInv, Known
  <2> QED BY <2>1, <2>2, <2>3, <2>4
<1>2. Init => Guarded /\ IInv /\ PairInv
  BY InitIInv, InitGuarded, InitPair
<1>3. (Guarded /\ IInv /\ PairInv) /\ [Next]_vars => (Guarded /\ IInv /\ PairInv)'
  BY NextIInv, NextGuarded, KnownStep, AloneStep, MixedStep DEF PairInv
<1> QED
  BY <1>1, <1>2, <1>3, PTL DEF Spec
=============================================================================
