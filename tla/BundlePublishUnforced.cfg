SPECIFICATION Spec
CONSTANTS
  Writer = {w1, w2}
  Old = Old
  NoDir = NoDir
  File = {index, envelope, artifact}
  Index = index
INVARIANT
  UnforcedNeverRemoves
