----------------------------- MODULE OutputFiles ----------------------------
(***************************************************************************)
(* How the commands of cli.py write their output files (_write_json,       *)
(* _atomic_write): each through a temporary file of its own that is        *)
(* synced and then renamed.  Commands run concurrently, may be killed or   *)
(* interrupted between any two steps, any system call may fail, and the    *)
(* power may be lost, after which what was not synced may be torn and a    *)
(* rename undone.                                                          *)
(*                                                                         *)
(* A command is the sequence of its outputs [path, data, mode, guarded]:   *)
(* "key generate" writes a private and a public key over whatever is       *)
(* there, every other command JSON files that are guarded unless it was    *)
(* given --force, "vsa summarize" up to two of them.  A file is            *)
(* [data, mode, synced].  Creating directories is left out.                *)
(***************************************************************************)
EXTENDS Naturals, Sequences

CONSTANTS Command, Path, Data, Torn, Absent,
          Secret,     \* the data that are private keys
          Scenarios   \* the [plan, file] the system may start from

Modes == {600, 644}

Outputs == [path : Path, data : Data, mode : Modes, guarded : BOOLEAN]

File == [data : Data \cup {Torn}, mode : Modes, synced : BOOLEAN]

ASSUME DataAssumption == Torn \notin Data /\ Secret \subseteq Data

ASSUME AbsentAssumption == Absent \notin File

ASSUME ScenarioAssumption ==
  \A s \in Scenarios :
    /\ s.plan \in [Command -> Seq(Outputs)]
    /\ \A c \in Command : \A k \in DOMAIN s.plan[c] :
         s.plan[c][k].data \in Secret => s.plan[c][k].mode = 600
    /\ s.file \in [Path -> File \cup {Absent}]
    /\ \A p \in Path : s.file[p] # Absent =>
         /\ s.file[p].synced
         /\ s.file[p].data \in Secret => s.file[p].mode = 600

\* Data are known by who wrote them: keys are drawn at random, so no two outputs
\* agree, and no output is there before it is written.
ASSUME FreshAssumption ==
  \A s \in Scenarios : \A c \in Command : \A j \in DOMAIN s.plan[c] :
    /\ \A d \in Command : \A k \in DOMAIN s.plan[d] :
         s.plan[c][j].data = s.plan[d][k].data => c = d /\ j = k
    /\ \A p \in Path : s.file[p] # Absent => s.file[p].data # s.plan[c][j].data

VARIABLES
  plan,       \* Command -> the sequence of its outputs
  file,       \* Path -> File or Absent, as processes see it
  disk,       \* Path -> the same, as the disk has it
  temp,       \* Command -> its temporary file, or Absent
  left,       \* the temporary files nobody removes any more
  pc, done,   \* Command -> its step within an output, the outputs it has written
  overlaps,   \* the <<c, d>> such that c was running when d was
  lost        \* has the power been lost?

vars == <<plan, file, disk, temp, left, pc, done, overlaps, lost>>

Running(c) == pc[c] \notin {"idle", "succeeded", "failed", "killed"}

Output(c) == plan[c][done[c] + 1]

Init ==
  /\ \E s \in Scenarios : plan = s.plan /\ file = s.file
  /\ disk = file
  /\ temp = [c \in Command |-> Absent]
  /\ left = {}
  /\ pc = [c \in Command |-> "idle"]
  /\ done = [c \in Command |-> 0]
  /\ overlaps = {} /\ lost = FALSE
-----------------------------------------------------------------------------
(* The steps of a command. *)

Goto(c, l) == pc' = [pc EXCEPT ![c] = l]

\* What the command computes before its first output, or between two, is not
\* modelled here; it may fail.
Start(c) ==
  /\ pc[c] = "idle"
  /\ Goto(c, "begin")
  /\ overlaps' = overlaps \cup {<<c, d>> : d \in {d \in Command : Running(d)}}
                          \cup {<<d, c>> : d \in {d \in Command : Running(d)}}
  /\ UNCHANGED <<plan, file, disk, temp, left, done, lost>>

\* Mutant of MayWrite: --force for all.
MayWriteAlways(c) == TRUE

\* _write_json: "output already exists".
MayWrite(c) == Output(c).guarded => file[Output(c).path] = Absent

Check(c) ==
  /\ pc[c] = "begin" /\ done[c] < Len(plan[c])
  /\ IF MayWrite(c) THEN Goto(c, "create") ELSE Goto(c, "failed")
  /\ UNCHANGED <<plan, file, disk, temp, left, done, overlaps, lost>>

\* tempfile.mkstemp
Create(c) ==
  /\ pc[c] = "create"
  /\ temp' = [temp EXCEPT ![c] = [data |-> Torn, mode |-> 600, synced |-> FALSE]]
  /\ Goto(c, "chmod")
  /\ UNCHANGED <<plan, file, disk, left, done, overlaps, lost>>

\* Mutant of ModeOf: the default of other programs.
ModeOfAll(c) == 644

ModeOf(c) == Output(c).mode

Chmod(c) ==
  /\ pc[c] = "chmod"
  /\ temp' = [temp EXCEPT ![c].mode = ModeOf(c)]
  /\ Goto(c, "write")
  /\ UNCHANGED <<plan, file, disk, left, done, overlaps, lost>>

\* stream.write and flush
Write(c) ==
  /\ pc[c] = "write"
  /\ temp' = [temp EXCEPT ![c].data = Output(c).data]
  /\ Goto(c, "sync")
  /\ UNCHANGED <<plan, file, disk, left, done, overlaps, lost>>

\* Mutant of Sync: the call is left out.
SyncNot(c) ==
  /\ pc[c] = "sync"
  /\ Goto(c, "replace")
  /\ UNCHANGED <<plan, file, disk, temp, left, done, overlaps, lost>>

Sync(c) ==
  /\ pc[c] = "sync"
  /\ temp' = [temp EXCEPT ![c].synced = TRUE]
  /\ Goto(c, "replace")
  /\ UNCHANGED <<plan, file, disk, left, done, overlaps, lost>>

\* os.replace, and on to the next output.
Replace(c) ==
  /\ pc[c] = "replace"
  /\ file' = [file EXCEPT ![Output(c).path] = temp[c]]
  /\ temp' = [temp EXCEPT ![c] = Absent]
  /\ done' = [done EXCEPT ![c] = @ + 1]
  /\ Goto(c, "begin")
  /\ UNCHANGED <<plan, disk, left, overlaps, lost>>

Succeed(c) ==
  /\ pc[c] = "begin" /\ done[c] = Len(plan[c])
  /\ Goto(c, "succeeded")
  /\ UNCHANGED <<plan, file, disk, temp, left, done, overlaps, lost>>

\* Mutant of Fail: the exception ends the output and not the command.
FailOutput(c) ==
  /\ Running(c) /\ done[c] < Len(plan[c])
  /\ temp' = [temp EXCEPT ![c] = Absent]
  /\ done' = [done EXCEPT ![c] = @ + 1]
  /\ Goto(c, "begin")
  /\ UNCHANGED <<plan, file, disk, left, overlaps, lost>>

\* Mutant of Fail: the temporary file is not removed.
FailUntidy(c) ==
  /\ Running(c)
  /\ Goto(c, "failed")
  /\ UNCHANGED <<plan, file, disk, temp, left, done, overlaps, lost>>

\* A call raises an Exception: the temporary file is removed and the command
\* ends with exit status 2 or 3.
Fail(c) ==
  /\ Running(c)
  /\ temp' = [temp EXCEPT ![c] = Absent]
  /\ Goto(c, "failed")
  /\ UNCHANGED <<plan, file, disk, left, done, overlaps, lost>>

\* SIGKILL, or KeyboardInterrupt, which "except Exception" does not catch.
Kill(c) ==
  /\ Running(c)
  /\ temp' = [temp EXCEPT ![c] = Absent]
  /\ left' = IF temp[c] = Absent THEN left ELSE left \cup {temp[c]}
  /\ Goto(c, "killed")
  /\ UNCHANGED <<plan, file, disk, done, overlaps, lost>>

Step(c) ==
  \/ Start(c) \/ Check(c) \/ Create(c) \/ Chmod(c) \/ Write(c) \/ Sync(c) \/ Replace(c)
  \/ Succeed(c) \/ Fail(c) \/ Kill(c)
-----------------------------------------------------------------------------
(* The file system. *)

\* The name p reaches the disk; nothing syncs the directory.
Settle(p) ==
  /\ disk[p] # file[p]
  /\ disk' = [disk EXCEPT ![p] = file[p]]
  /\ UNCHANGED <<plan, file, temp, left, pc, done, overlaps, lost>>

\* Data that is not synced may be torn by a power loss.
Fragile == {p \in Path : disk[p] # Absent /\ ~disk[p].synced}

PowerLoss ==
  /\ \E T \in SUBSET Fragile :
       file' = [p \in Path |-> IF p \in T THEN [disk[p] EXCEPT !.data = Torn] ELSE disk[p]]
  /\ disk' = file'
  /\ left' = left \cup {temp[c] : c \in {c \in Command : temp[c] # Absent}}
  /\ temp' = [c \in Command |-> Absent]
  /\ pc' = [c \in Command |-> IF Running(c) THEN "killed" ELSE pc[c]]
  /\ lost' = TRUE
  /\ UNCHANGED <<plan, done, overlaps>>

Over == (\A c \in Command : ~Running(c) /\ pc[c] # "idle") /\ UNCHANGED vars

Next == (\E c \in Command : Step(c)) \/ (\E p \in Path : Settle(p)) \/ PowerLoss \/ Over

Spec == Init /\ [][Next]_vars
-----------------------------------------------------------------------------
(* Properties. *)

\* The values the variables take; a command has a temporary file exactly while
\* it is between mkstemp and rename.
TypeOK ==
  /\ plan \in [Command -> Seq(Outputs)]
  /\ file \in [Path -> File \cup {Absent}] /\ disk \in [Path -> File \cup {Absent}]
  /\ temp \in [Command -> File \cup {Absent}] /\ left \subseteq File
  /\ pc \in [Command -> {"idle", "begin", "create", "chmod", "write", "sync", "replace",
                         "succeeded", "failed", "killed"}]
  /\ done \in [Command -> Nat] /\ overlaps \subseteq Command \X Command
  /\ \A c \in Command :
       /\ done[c] <= Len(plan[c])
       /\ pc[c] \in {"create", "chmod", "write", "sync", "replace"} => done[c] < Len(plan[c])
       /\ temp[c] # Absent <=> pc[c] \in {"chmod", "write", "sync", "replace"}

Private(f) == f # Absent /\ f.data \in Secret => f.mode = 600

\* A private key is never in a file that others may read: not in the output,
\* nor in a temporary file, nor in one a killed command left behind.
SecretStaysPrivate ==
  /\ \A p \in Path : Private(file[p]) /\ Private(disk[p])
  /\ \A c \in Command : Private(temp[c])
  /\ \A f \in left : Private(f)

\* Only a command that was killed leaves a temporary file behind.
OnlyKilledLitter == left # {} => \E c \in Command : pc[c] = "killed"

\* The file at p is what command c wrote there as its output k.
Wrote(c, k, p) ==
  /\ k \in DOMAIN plan[c] /\ plan[c][k].path = p
  /\ file[p] # Absent /\ file[p].data = plan[c][k].data

\* Two key pairs generated at the same two paths are never mixed, unless a
\* command is, or was stopped, between its two outputs, or the commands
\* overlapped, or the power was lost.
PairsBelongTogether ==
  \A c, d \in Command, p, q \in Path :
    /\ c # d /\ p # q
    /\ Wrote(c, 1, p) /\ Wrote(d, 2, q)
    /\ Len(plan[c]) = 2 /\ plan[c][2].path = q /\ plan[d][1].path = p
    => \/ lost \/ overlaps # {}
       \/ \E x \in Command : pc[x] # "succeeded" /\ done[x] \in 1..Len(plan[x]) - 1

\* An output that was written without --force replaces a file only if that was
\* written by a command that ran at the same time.
UnforcedKeepsOthers ==
  [][\A c \in Command :
       done'[c] # done[c] /\ Output(c).guarded /\ file[Output(c).path] # Absent
         => \E d \in Command :
              <<c, d>> \in overlaps /\ \E k \in 1..done[d] : plan[d][k].path = Output(c).path]_vars

Visible(f) == IF f = Absent THEN Absent ELSE [data |-> f.data, mode |-> f.mode]

StatusOf(c) ==
  CASE pc[c] = "idle" -> "idle"
    [] pc[c] = "succeeded" -> "done"
    [] pc[c] \in {"failed", "killed"} -> "stopped"
    [] OTHER -> "open"

Commits ==
  INSTANCE OutputCommits WITH
    visible <- [p \in Path |-> Visible(file[p])],
    settled <- [p \in Path |-> Visible(disk[p])],
    written <- done,
    status <- [c \in Command |-> StatusOf(c)]

\* Whatever fails and whenever, the commands commit their outputs one by one,
\* each whole: _atomic_write is atomic, and durable up to the rename.
CommitsWhole == Commits!Spec
=============================================================================
