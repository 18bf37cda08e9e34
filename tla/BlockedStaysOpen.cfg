SPECIFICATION Spec
CONSTANTS
  Device = {d1}
  Person = {alice}
  CreatedBy = alice
  Verdict = {"good", "late", "fast"}
  RequiredRounds = 2
  MaxRounds = 4
  MaxEvaluations = 1
  EvidenceType = {"ROOT_CAUSE", "CORRECTIVE_ACTION"}
  MaxPlans = 2
  Endpoint = {"measure", "evaluate", "remediation-plans", "remediation-evidence", "remediation-dependencies", "retest-attempts", "remediate"}
  Captured = {"now"}
  MaxReviews = 0
  MaxFailed = 1
  Nil = Nil
SYMMETRY Symmetry
PROPERTY BlockedStaysOpen
CHECK_DEADLOCK FALSE
