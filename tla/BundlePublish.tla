---------------------------- MODULE BundlePublish ---------------------------
(***************************************************************************)
(* The publication phase of write_handoff_bundle (bundle.py): several      *)
(* handoff creations with the same output path, each of which stages its   *)
(* bundle in a sibling directory of its own, removes what is at the output *)
(* path and renames the staged directory to it.  A step of a writer may    *)
(* fail, and a writer may be killed at any moment.                         *)
(*                                                                         *)
(* A directory is named after who made it: a writer, or Old for the one    *)
(* that was there first.  files[d] is what is left in directory d and      *)
(* output is the directory at the output path.  Every bundle consists of   *)
(* File, of which Index (bundle.json) is written last.  The validations    *)
(* that come before the first look at the output path are not part of this *)
(* module.                                                                 *)
(***************************************************************************)
EXTENDS Naturals

CONSTANTS Writer, Old, NoDir, File, Index

ASSUME DirAssumption == Old \notin Writer /\ NoDir \notin Writer \cup {Old}
ASSUME IndexAssumption == Index \in File

Dir == Writer \cup {Old}

VARIABLES
  force,   \* the force argument of each creation
  output,  \* the directory at the output path, or NoDir
  files,
  pc,
  target,  \* the directory rmtree(output) has opened, or NoDir
  todo     \* the names it has listed and not unlinked yet

vars == <<force, output, files, pc, target, todo>>

Init ==
  /\ force \in [Writer -> BOOLEAN]
  /\ output \in {NoDir, Old}
  /\ files \in {[d \in Dir |-> IF d = Old THEN F ELSE {}] : F \in {{}, File}}
  /\ output = NoDir => files[Old] = {}
  /\ pc = [w \in Writer |-> "start"]
  /\ target = [w \in Writer |-> NoDir]
  /\ todo = [w \in Writer |-> {}]

\* The names in the directory at the output path.
Here == IF output = NoDir THEN {} ELSE files[output]

Goto(w, label) == pc' = [pc EXCEPT ![w] = label]

\* "output already exists": an existing path and no --force.
Refuse(w) ==
  /\ pc[w] = "start" /\ output # NoDir /\ ~force[w]
  /\ Goto(w, "failed")
  /\ UNCHANGED <<force, output, files, target, todo>>

\* Mutant of Begin: --force is not asked for.
BeginAnyway(w) ==
  /\ pc[w] = "start"
  /\ Goto(w, "stage")
  /\ UNCHANGED <<force, output, files, target, todo>>

\* mkdtemp: an empty sibling directory.
Begin(w) ==
  /\ pc[w] = "start" /\ (output = NoDir \/ force[w])
  /\ Goto(w, "stage")
  /\ UNCHANGED <<force, output, files, target, todo>>

WriteFile(w) ==
  /\ pc[w] = "stage"
  /\ \E f \in File \ files[w] :
       /\ f = Index => files[w] = File \ {Index}
       /\ files' = [files EXCEPT ![w] = @ \cup {f}]
  /\ UNCHANGED <<force, output, pc, target, todo>>

\* Mutant of LookAgain: the staged directory is published before its index.
LookEarly(w) ==
  /\ pc[w] = "stage" /\ File \ {Index} \subseteq files[w]
  /\ Goto(w, IF output = NoDir THEN "rename" ELSE "open")
  /\ UNCHANGED <<force, output, files, target, todo>>

\* The second output.exists(), once everything is staged.
LookAgain(w) ==
  /\ pc[w] = "stage" /\ files[w] = File
  /\ Goto(w, IF output = NoDir THEN "rename" ELSE "open")
  /\ UNCHANGED <<force, output, files, target, todo>>

\* The exception handler: the staged directory is removed, the error raised.
CleanUp(w) ==
  /\ files' = [files EXCEPT ![w] = {}]
  /\ Goto(w, "failed")
  /\ UNCHANGED <<force, output, target, todo>>

\* rmtree(output) opens the directory and lists it; a path that has gone
\* since LookAgain is an error.
OpenOutput(w) ==
  /\ pc[w] = "open"
  /\ \/ output = NoDir /\ CleanUp(w)
     \/ /\ output # NoDir
        /\ target' = [target EXCEPT ![w] = output]
        /\ todo' = [todo EXCEPT ![w] = Here]
        /\ Goto(w, "remove")
        /\ UNCHANGED <<force, output, files>>

\* Mutant of RemoveFile: waits for a name that another rmtree has unlinked.
RemovePresentFile(w) ==
  /\ pc[w] = "remove"
  /\ \E f \in todo[w] \cap files[target[w]] :
       /\ files' = [files EXCEPT ![target[w]] = @ \ {f}]
       /\ todo' = [todo EXCEPT ![w] = @ \ {f}]
  /\ UNCHANGED <<force, output, pc, target>>

\* One unlink, relative to the open directory.  A name that another rmtree
\* has unlinked is an error before Python 3.13 and passed over since.
RemoveFile(w) ==
  /\ pc[w] = "remove"
  /\ \E f \in todo[w] :
       \/ /\ f \notin files[target[w]]
          /\ CleanUp(w)
       \/ /\ files' = [files EXCEPT ![target[w]] = @ \ {f}]
          /\ todo' = [todo EXCEPT ![w] = @ \ {f}]
          /\ UNCHANGED <<force, output, pc, target>>

\* Mutant of RemoveDir: without the test of rmdir that the directory is empty.
RemoveAnyDir(w) ==
  /\ pc[w] = "remove" /\ todo[w] = {}
  /\ output' = NoDir
  /\ Goto(w, "rename")
  /\ UNCHANGED <<force, files, target, todo>>

\* The final rmdir, by name: of whatever directory is there by now.
RemoveDir(w) ==
  /\ pc[w] = "remove" /\ todo[w] = {}
  /\ \/ /\ output = NoDir \/ Here # {}
        /\ CleanUp(w)
     \/ /\ Here = {}
        /\ output' = NoDir
        /\ Goto(w, "rename")
        /\ UNCHANGED <<force, files, target, todo>>

\* os.replace: rename(2) replaces an empty directory and no other.
Rename(w) ==
  /\ pc[w] = "rename"
  /\ \/ /\ Here # {}
        /\ CleanUp(w)
     \/ /\ Here = {}
        /\ output' = w
        /\ Goto(w, "done")
        /\ UNCHANGED <<force, files, target, todo>>

\* Mutant of Fail: the staged directory is left behind.
FailUncleaned(w) ==
  /\ pc[w] \in {"stage", "remove", "rename"}
  /\ Goto(w, "failed")
  /\ UNCHANGED <<force, output, files, target, todo>>

\* A write, an unlink or the rename fails, or the index does not validate.
Fail(w) ==
  /\ pc[w] \in {"stage", "remove", "rename"}
  /\ CleanUp(w)

\* The process is killed.
Crash(w) ==
  /\ pc[w] \notin {"done", "failed", "crashed"}
  /\ Goto(w, "crashed")
  /\ UNCHANGED <<force, output, files, target, todo>>

Step(w) ==
  \/ Refuse(w) \/ Begin(w) \/ WriteFile(w) \/ LookAgain(w) \/ OpenOutput(w)
  \/ RemoveFile(w) \/ RemoveDir(w) \/ Rename(w)

Ended(w) == pc[w] \in {"done", "failed", "crashed"}

AllEnded == (\A w \in Writer : Ended(w)) /\ UNCHANGED vars

Next == (\E w \in Writer : Step(w) \/ Fail(w) \/ Crash(w)) \/ AllEnded

\* Every creation is a thread of its own that runs unless it is killed.
Spec == Init /\ [][Next]_vars /\ \A w \in Writer : WF_vars(Step(w))
-----------------------------------------------------------------------------
\* The values the variables of the publication phase take.
TypeOK ==
  /\ force \in [Writer -> BOOLEAN]
  /\ output \in Dir \cup {NoDir}
  /\ files \in [Dir -> SUBSET File]
  /\ pc \in [Writer -> {"start", "stage", "open", "remove", "rename",
                        "done", "failed", "crashed"}]
  /\ target \in [Writer -> Dir \cup {NoDir}]
  /\ todo \in [Writer -> SUBSET File]

\* Whoever finds a writer's bundle at the output path finds all of it, unless
\* another creation has started to remove it: publication is atomic even when
\* creations race, fail or are killed.
PublishedWhole ==
  \A w \in Writer :
    output = w => files[w] = File \/ \E v \in Writer \ {w} : target[v] = w

\* A creation that returned normally has its bundle at the output path, until
\* another creation removes it: no late rmdir or rename takes it away.
SuccessStays ==
  \A w \in Writer :
    pc[w] = "done" => output = w \/ \E v \in Writer \ {w} : target[v] = w

\* A creation that raised leaves no staged files and has published nothing.
FailureLeavesNothing ==
  \A w \in Writer : pc[w] = "failed" => files[w] = {} /\ output # w

\* As long as nobody asks for --force, a bundle that was there before is not
\* touched.
UnforcedKeepsOld ==
  [][output = Old /\ (\A w \in Writer : ~force[w])
       => output' = Old /\ files'[Old] = files[Old]]_vars

\* Every creation returns, raises or is killed.
CreationEnds == \A w \in Writer : <>Ended(w)

\* What makes the properties above inductive: only a creation that is done is
\* at the output path or opened by a removal, what a creation is about to
\* rename is whole, and next to the old bundle nobody unforced gets started.
PublishInv ==
  /\ \A w \in Writer : output = w => pc[w] = "done"
  /\ \A v, w \in Writer : target[v] = w => pc[w] = "done"
  /\ \A w \in Writer : pc[w] \in {"open", "remove", "rename"} => files[w] = File
  /\ \A w \in Writer :
       pc[w] = "done" => \/ output = w /\ files[w] = File
                         \/ \E v \in Writer \ {w} : target[v] = w
  /\ \A w \in Writer : pc[w] \in {"start", "failed"} => files[w] = {}
  /\ \A w \in Writer : pc[w] = "remove" => target[w] # NoDir
  /\ \A w \in Writer : pc[w] \in {"start", "stage", "open"} => target[w] = NoDir
  /\ output = Old /\ (\A w \in Writer : ~force[w])
       => \A w \in Writer : pc[w] \in {"start", "failed", "crashed"}

-----------------------------------------------------------------------------
(* What the repository's specification says of handoff creation, and the   *)
(* code does not do.                                                       *)

\* "Creation commands with an `--out` flag reject an existing output path
\* unless `--force` is explicitly supplied."
UnforcedNeverRemoves ==
  \A w \in Writer : ~force[w] => target[w] = NoDir
=============================================================================
