SPECIFICATION Spec
CONSTANTS
  Name <- MCName
  Content <- MCContent
  Envelope <- MCEnvelope
  Absent = Absent
  NoBytes = NoBytes
  Scenarios <- MCScenarios
  MaxEdits = 1
INVARIANTS
  TypeOK
  LevelIffAssessed
  ReproducedMeansIndependent
  NotItsOwnReproduction
