CONSTANTS
  Pkgs <- DiamondPkgs
  Versions = {1, 2}
  Files <- DiamondFiles
  Wheel <- DiamondWheel
  Needs <- DiamondNeeds
  FailBound = 1
  Cancels = TRUE
SPECIFICATION Spec
INVARIANT TypeOK
INVARIANT OneOwner
INVARIANT FailureLeavesNoStray
INVARIANT FailureKeepsRecords
PROPERTY OthersUntouched
PROPERTY RecordedComplete
PROPERTY StoreSpec
