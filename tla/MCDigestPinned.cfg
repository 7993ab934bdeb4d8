SPECIFICATION Spec
CONSTANTS
  Gone = Gone
  m1 = m1
  m2 = m2
  m3 = m3
  empty = empty
  Empty = empty
  Versions <- MCVersions
  Contents <- MCContents
  ContentOf <- MCContentOf
  Settings <- PinnedURL
  MaxReleases = 3
PROPERTIES DigestPinned
