SPECIFICATION ViewSpec
CONSTANTS
  Gone = Gone
  a = a
  b = b
  c1 = c1
  c2 = c2
  m1 = m1
  m2 = m2
  m3 = m3
  empty = empty
  Empty = empty
  Versions <- MCVersions
  Contents <- MCContents
  ContentOf <- MCContentOf
  Bootstraps <- Two
  NameOf <- DistinctNames
  CRDNames = {c1, c2}
  Bundle <- MCBundle
  Breaks <- MCBreaks
  Incomparable <- MCIncomparable
  TemplateFails <- MCTemplateFails
  TemplatePanics <- MCTemplatePanics
  Specs <- SharedSpecs
  Upstreams <- SharedUpstreams
  CacheLag = FALSE
  MaxEdits = 3
  MaxReleases = 1
  MaxFaults = 1
  MaxCrashes = 0
  MaxCount = 1
INVARIANTS AttemptIsInstalled
PROPERTIES PruneOnlyOwned ImplementsLedger
CHECK_DEADLOCK FALSE
