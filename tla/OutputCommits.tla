---------------------------- MODULE OutputCommits ---------------------------
(***************************************************************************)
(* What the commands of cli.py promise about the files they write: a       *)
(* command commits its outputs one after the other, each whole and at      *)
(* once, and only a command that committed all of them succeeds.  It may   *)
(* stop at any point.  A power loss may bring back what a path held        *)
(* before, but never a part of an output.                                  *)
(***************************************************************************)
EXTENDS Naturals, Sequences

CONSTANTS Command, Path, Absent

VARIABLES plan,     \* Command -> the sequence of its outputs, [path, data, mode, ...]
          visible,  \* Path -> [data, mode] or Absent
          settled,  \* Path -> what a power loss brings back
          written,  \* Command -> how many of its outputs it committed
          status    \* Command -> "idle", "open", "done" or "stopped"

vars == <<plan, visible, settled, written, status>>

Init ==
  /\ settled = visible
  /\ written = [c \in Command |-> 0]
  /\ status = [c \in Command |-> "idle"]

Start(c) ==
  /\ status[c] = "idle"
  /\ status' = [status EXCEPT ![c] = "open"]
  /\ UNCHANGED <<plan, visible, settled, written>>

Commit(c) ==
  /\ status[c] = "open" /\ written[c] + 1 \in DOMAIN plan[c]
  /\ LET w == plan[c][written[c] + 1]
     IN  visible' = [visible EXCEPT ![w.path] = [data |-> w.data, mode |-> w.mode]]
  /\ written' = [written EXCEPT ![c] = @ + 1]
  /\ UNCHANGED <<plan, settled, status>>

Finish(c) ==
  /\ status[c] = "open" /\ written[c] = Len(plan[c])
  /\ status' = [status EXCEPT ![c] = "done"]
  /\ UNCHANGED <<plan, visible, settled, written>>

Stop(c) ==
  /\ status[c] = "open"
  /\ status' = [status EXCEPT ![c] = "stopped"]
  /\ UNCHANGED <<plan, visible, settled, written>>

\* The directory entry of p reaches the disk.
Settle(p) ==
  /\ settled' = [settled EXCEPT ![p] = visible[p]]
  /\ UNCHANGED <<plan, visible, written, status>>

PowerLoss ==
  /\ visible' = settled
  /\ status' = [c \in Command |-> IF status[c] = "open" THEN "stopped" ELSE status[c]]
  /\ UNCHANGED <<plan, settled, written>>

Next ==
  \/ \E c \in Command : Start(c) \/ Commit(c) \/ Finish(c) \/ Stop(c)
  \/ \E p \in Path : Settle(p)
  \/ PowerLoss

Spec == Init /\ [][Next]_vars
=============================================================================
