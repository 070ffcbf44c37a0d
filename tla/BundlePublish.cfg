SPECIFICATION Spec
CONSTANTS
  Writer = {w1, w2, w3}
  Old = Old
  NoDir = NoDir
  File = {index, envelope, artifact}
  Index = index
INVARIANTS
  PublishedWhole
  SuccessStays
  FailureLeavesNothing
PROPERTIES
  UnforcedKeepsOld
  CreationEnds
