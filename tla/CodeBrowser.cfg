SPECIFICATION BrowserSpec
CONSTANTS
  Names <- SomeNames
  Rank <- SomeRank
  Length <- SomeLength
  TrimLeft <- SomeTrim
  TrimRight <- NoTrim
  Readmes = {"README"}
  MaxEntries = 2
  MaxUnpacked = 8
  MaxPreview = 1
  MaxDownload = 2
  Block = 2
  k1 = k1
  k2 = k2
  k3 = k3
  Keys = {k1, k2, k3}
  Packages <- SomePackages
  Readers = {q1, q2}
  MaxPacked = 2
  MaxCached = 2
  TTL = 0
  MaxClock = 1
SYMMETRY Alike
INVARIANT CacheAccounts
INVARIANT ListedFilesOpen
INVARIANT TreeShows
