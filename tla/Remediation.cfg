SPECIFICATION Spec
CONSTANTS
  Device = {d1, d2}
  Person = {alice}
  CreatedBy = alice
  Verdict = {"good", "late"}
  RequiredRounds = 2
  MaxRounds = 4
  MaxEvaluations = 1
  EvidenceType = {"ROOT_CAUSE"}
  MaxPlans = 2
  Endpoint = {"measure", "evaluate", "remediation-plans", "remediation-evidence", "remediation-dependencies", "retest-attempts"}
  Captured = {"now"}
  MaxReviews = 0
  MaxFailed = 1
  Nil = Nil
SYMMETRY Symmetry
INVARIANTS
  EvidencedWhenClosed
  SomethingActionable
  PrerequisitesFirst
  RetestAsPredicted
CHECK_DEADLOCK FALSE
