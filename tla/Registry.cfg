SPECIFICATION SeededSpec
CONSTANTS
  s1 = s1
  s2 = s2
  d1 = d1
  d2 = d2
  i1 = i1
  i2 = i2
  i3 = i3
  i4 = i4
  j1 = j1
  j3 = j3
  w = w
  x = x
  y = y
  z = z
  p1 = p1
  Campaign = {c1, c2, c3}
  Handler = {h1}
  Station = {s1, s2}
  Device = {d1, d2}
  Id = {i1, i2, i3, i4, j1, j3}
  Digest = {w, x, y, z}
  Provider = {p1}
  Asked <- MCAsked
  Offered <- MCOffered
  Questions <- MCQuestions
  Candidates <- MCCandidates
  MaxEvents = 9
  Nil = Nil
SYMMETRY Symmetry
INVARIANTS
  SuccessorOfArchived
  AvailabilityNearest
  GapsExact
  PreflightKeepsWord
  CriticalIsNeeded
  QualifiedOnce
  LineageSound
CHECK_DEADLOCK FALSE
