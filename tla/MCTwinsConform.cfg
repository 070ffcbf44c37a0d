SPECIFICATION Spec
CONSTANTS
  Path <- MCPath
  Content <- MCContent
  Digest <- MCDigest
  IndexOf <- MCIndexOf
  EnvelopeOf <- MCEnvelopeOf
  CatalogOf <- MCCatalogOf
  DatasetOf <- MCDatasetOf
  Stmt <- MCStmt
  HandoffOf <- MCHandoffOf
  Admits <- MCAdmits
  Conforms <- MCConforms
  Parsable <- MCParsable
  SizeOf <- MCSizeOf
  Folded <- MCFolded
  NoBytes = NoBytes
  Scenarios <- MCTwinScenarios
  MaxEdits = 2
  ManifestPath = "handoff"
  CatalogPath = "catalog"
  AttestationPath <- MCAttestationPath
  ArtifactPath <- MCArtifactPath
  EntryPath <- MCEntryPath
  JobsOf <- MCJobsOf
INVARIANT ConformsDespiteEdits
