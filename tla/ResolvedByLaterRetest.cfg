SPECIFICATION Spec
CONSTANTS
  Device = {d1}
  Person = {alice, bob, carol}
  CreatedBy = alice
  Verdict = {"good", "late", "fast"}
  RequiredRounds = 2
  MaxRounds = 3
  MaxEvaluations = 3
  EvidenceType = {"ROOT_CAUSE", "CONTAINMENT", "CORRECTIVE_ACTION"}
  MaxPlans = 1
  Endpoint = {"measure", "round-voids", "sample-exclusions", "evaluate", "remediate", "retest-attempts", "review-claims", "review", "review-findings", "archive"}
  Captured = {"now", "ahead"}
  MaxReviews = 2
  MaxFailed = 1
  Nil = Nil
SYMMETRY Symmetry
INVARIANT ResolvedByLaterRetest
CHECK_DEADLOCK FALSE
