SPECIFICATION Spec
CONSTANTS
  MaxBound = 2
  Seeds <- MCSeeds
  Typed <- MCTyped
  MaxTyped = 3
  Values <- MCValues
  MaxLength = 9
  MaxStates = 6
  MaxOperations = 24
INVARIANTS
  TypeOK
  ParsesTheGrammar
  CountIsExact
  SearchIsExact
