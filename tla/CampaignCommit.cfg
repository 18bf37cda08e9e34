SPECIFICATION Spec
CONSTANTS
  Handler = {h1, h2}
  Kind = {"WRITE", "ARCHIVE"}
  IfMatch = {0, 2}
  Key = {k1}
  NoKey = NoKey
  Hash = {a, b}
  Table = {"rounds", "sample_exclusions"}
  MaxRevision = 3
  Nil = Nil
SYMMETRY Symmetry
INVARIANTS
  TypeOK
  AuditChain
  NoOrphanEvidence
PROPERTIES
  FreshDecision
  NoSpuriousConflict
  ImplementsLog
