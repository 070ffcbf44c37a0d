CONSTANTS
  MaxRecords = 6
  MaxPath = 4
SPECIFICATION Spec
INVARIANTS TypeOK TreeIsRFC6962 AcceptedIffHonest
