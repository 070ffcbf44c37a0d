SPECIFICATION Spec
CONSTANTS
  Command <- MCCommand
  Path <- MCPath
  Data <- MCData
  Torn = Torn
  Absent = Absent
  Secret <- MCSecret
  Scenarios <- MCScenarios
INVARIANTS
  SecretStaysPrivate
  OnlyKilledLitter
  PairsBelongTogether
PROPERTIES
  UnforcedKeepsOthers
  CommitsWhole
