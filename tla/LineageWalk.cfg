CONSTANTS
  Node = {1, 2, 3}
  Name = {1, 2, 3, 4}
SPECIFICATION Spec
INVARIANTS CycleReportedIffCyclic ReportedOnCycle ReachedIsLeastClosed
PROPERTY WalkEnds
