SPECIFICATION Spec
CONSTANTS
  Handler = {h1, h2}
  Kind = {"WRITE", "SIGN", "ARCHIVE", "SNAPSHOT", "PIN", "VERIFY"}
  IfMatch = {0}
  Key = {}
  NoKey = NoKey
  Hash = {a}
  Table = {"device_baselines", "remediation_plans"}
  MaxRevision = 2
  Nil = Nil
SYMMETRY Symmetry
INVARIANTS
  SnapshotConsistent
  SignedWhatWasShown
  ArtifactComplete
  MismatchIsShortRead
