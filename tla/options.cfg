CONSTANTS
  Root = "root"
  Old <- MCOld
  New = "new"
  Jar <- MCJar
  MaxPicks = 3
SPECIFICATION Spec
INVARIANTS TypeOK SavedPathsExist PageIsConfigured VersionShown
PROPERTIES OnlyStagedInstalled
