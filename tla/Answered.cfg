SPECIFICATION FairSpec
CONSTANTS
  Handler = {h1, h2}
  Kind = {"WRITE", "PIN", "VERIFY", "ARCHIVE"}
  IfMatch = {0}
  Key = {}
  NoKey = NoKey
  Hash = {a}
  Table = {"sample_exclusions"}
  MaxRevision = 2
  Nil = Nil
PROPERTIES
  Answered
