SPECIFICATION Spec
CONSTANTS
  Gone = Gone
  a = a
  b = b
  c1 = c1
  c2 = c2
  m1 = m1
  m2 = m2
  m3 = m3
  empty = empty
  Empty = empty
  Versions <- MCVersions
  Contents <- MCContents
  ContentOf <- MCContentOf
  Bootstraps <- One
  NameOf <- DistinctNames
  CRDNames = {c1, c2}
  Bundle <- MCBundle
  Breaks <- MCBreaks
  Incomparable <- MCIncomparable
  TemplateFails <- MCTemplateFails
  TemplatePanics <- MCTemplatePanics
  Specs <- CountSpecs
  Upstreams <- CoreUpstreams
  CacheLag = FALSE
  MaxEdits = 1
  MaxReleases = 1
  MaxFaults = 0
  MaxCrashes = 0
  MaxCount = 1
INVARIANTS CountedWasApplied
CHECK_DEADLOCK FALSE
