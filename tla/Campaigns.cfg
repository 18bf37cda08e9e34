SPECIFICATION Spec
CONSTANTS
  s1 = s1
  s2 = s2
  d1 = d1
  d2 = d2
  i1 = i1
  i2 = i2
  i3 = i3
  i4 = i4
  x = x
  y = y
  z = z
  p1 = p1
  Campaign = {c1, c2}
  Handler = {h1, h2}
  Station = {s1, s2}
  Device = {d1, d2}
  Id = {i1, i2, i3, i4}
  Digest = {x, y, z}
  Provider = {p1}
  Asked <- MCAsked
  Offered <- MCOffered
  MaxEvents = 5
  Nil = Nil
SYMMETRY Symmetry
INVARIANTS
  TypeOK
  NoDoubleBooking
  VerifiedIsCovered
  FingerprintsAgree
PROPERTIES
  BaselinesFirst
  ClosedIsFinal
  ImplementsCalendar
CHECK_DEADLOCK FALSE
