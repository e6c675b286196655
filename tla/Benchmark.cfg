SPECIFICATION Spec
CONSTANTS
  h1 = h1
  h2 = h2
  h3 = h3
  None = None
  Datasets <- MCDatasets
  Contents <- MCContents
  Outputs <- MCOutputs
  MaxCommands = 3
INVARIANTS TypeOK CountsAccountForDevices VerdictsKeepPrecedence ComparisonTellsOneStory
