\* One published video with two segments, whose catalog file comes and goes.
SPECIFICATION Spec
CONSTANTS
  None = None
  r1 = r1
  r2 = r2
  v1 = v1
  c1 = c1
  c2 = c2
  m1 = m1
  s1 = s1
  s2 = s2
  Request = {r1, r2}
  Target <- MCTarget
  Video = {v1}
  Catalog = {c1, c2}
  Manifest = {m1}
  Segment = {s1, s2}
  Listing <- MCListing
  Describes <- MCDescribes
  SegmentsOf <- MCSegmentsOf
  Contents <- MCContents
  Bootstrap = c2
  Size <- MCSize
  MaxBytes = 2
  MaxDocuments = 1
  MaxPrune = 1
  MaxFetches = 1
  Channel = {k1, k2, k3}
SYMMETRY Interchangeable
INVARIANTS
  CacheBounded
  OneFetchPerSegment
  SlotsReturned
  HiddenWithinTtl
