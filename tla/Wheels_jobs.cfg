SPECIFICATION Spec
CHECK_DEADLOCK FALSE
CONSTANTS
  p = p
  s1 = s1
  s2 = s2
  r1 = r1
  r2 = r2
  None = None
  Packages = {p}
  Sources = {s1, s2}
  BadSources = {s2}
  Runtimes = {r1, r2}
  Abis = {"arm64-v8a", "armeabi-v7a"}
  Versions = {1, 2}
  Channels = {"experimental", "candidate"}
  LocalChannels = {"all"}
  Commits <- MCCommits
  Locks <- MCLocks
  MaxEdits = 2
  Jobs = {j1, j2}
SYMMETRY JobSymmetry
INVARIANTS
  OfferedFromLockedSource
  IndexCovers
PROPERTIES
  PublishedWithItsAsset
  PublishedStays
