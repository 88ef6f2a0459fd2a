SPECIFICATION FairSpec
CONSTANTS
  Files <- TheFiles
  MainFile = "p/main.ink"
  ModPaths <- ThePaths
  Thread <- Threads
  Main = "main"
  Joiner <- Joiners
  StartFn <- Functions
  Disk <- TheDisk
INVARIANTS
  OwnPath
  Marked
  Linked
  CacheWhole
PROPERTIES
  Ends
CHECK_DEADLOCK FALSE
