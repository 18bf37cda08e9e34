--------------------------- MODULE PreviewsProofs ---------------------------
(***************************************************************************)
(* Proofs that no measurement gets past the evaluation, and that a retest  *)
(* does what its preflight says.                                           *)
(***************************************************************************)
EXTENDS Previews, LifecycleProofs

\* The states in which rounds are awaited or complete, but not yet evaluated.
Unevaluated == {"REFERENCE_VERIFIED", "MEASURED"}

\* Strengthens SignedIsEvaluated: it holds in remediation already.
Reckoned ==
  state \notin Unevaluated =>
    /\ Len(evaluations) # 0
    /\ \A i \in DOMAIN Effective :
         rounds[i].purpose = "original" => i \in DOMAIN evaluations[Len(evaluations)]

\* A step that leads to an evaluated campaign without an evaluation comes from
\* one and takes nothing back; if it stores a round, then a retest.
Carries ==
  /\ state \notin Unevaluated
  /\ UNCHANGED <<voids, exclusions, evaluations>>
  /\ UNCHANGED rounds \/ \E round \in Round : round.purpose = "retest" /\ StoreRound(round)

\* No other step leads to an evaluated campaign.
LEMMA CarryCases ==
  ASSUME Next, state' \notin Unevaluated
  PROVE  EvaluateStep \/ Carries
  <1> USE DEF Unevaluated, Carries
  <1>1. ASSUME Measuring
        PROVE  EvaluateStep
    BY <1>1 DEF Measuring, EvaluateStep, Measure, VoidRound, ExcludeSample, StateAfter
  <1>2. ASSUME NEW p \in Person, NEW samples \in Samples, NEW captured \in Captured,
               StoreRound([operator |-> p, purpose |-> "retest",
                           samples |-> samples, captured |-> captured])
        PROVE  \E round \in Round : round.purpose = "retest" /\ StoreRound(round)
    <2> DEFINE round == [operator |-> p, purpose |-> "retest",
                         samples |-> samples, captured |-> captured]
    <2>1. round \in Round /\ round.purpose = "retest"
      BY LifecycleAssumption DEF Round
    <2> QED
      BY <1>2, <2>1
  <1>3. ASSUME Remediating
        PROVE  Carries
    <2>1. ASSUME NEW X \in SUBSET Open, NEW p \in Person, NEW samples \in Samples,
                 NEW captured \in Captured,
                 RetestAttempt(X, p, samples, captured) \/ Remediate(X, p, samples, captured)
          PROVE  Carries
      BY <1>2, <2>1 DEF RetestAttempt, Remediate
    <2>2. ASSUME NEW X \in SUBSET Open, AddPlans(X)
          PROVE  Carries
      BY <2>2 DEF AddPlans, measurements
    <2>3. ASSUME NEW x, NEW version, NEW type, AddRemediationEvidence(x, version, type)
          PROVE  Carries
      BY <2>3 DEF AddRemediationEvidence, measurements
    <2>4. ASSUME NEW edges, AddRemediationDependencies(edges)
          PROVE  Carries
      BY <2>4 DEF AddRemediationDependencies, measurements
    <2> QED
      BY <1>3, <2>1, <2>2, <2>3, <2>4 DEF Remediating
  <1>4. ASSUME Reviewing
        PROVE  Carries
    <2>1. ASSUME NEW p \in Person, NEW samples \in Samples, NEW captured \in Captured,
                 RetestFindings(p, samples, captured)
          PROVE  Carries
      BY <1>2, <2>1 DEF RetestFindings
    <2>2. ASSUME UNCHANGED remediation,
                 state \in {"REMEDIATION_REQUIRED", "REVIEW_PENDING", "REVIEW_APPROVED"}
                 \/ UNCHANGED state
          PROVE  Carries
      BY <2>2 DEF remediation, measurements
    <2> QED
      BY <1>4, <2>1, <2>2 DEF Reviewing, ClaimReview, ReleaseReviewClaim, ClaimExpires,
           Approve, Reject, Admitted, ResolveReviewFindings, ArchiveWithToken
  <1> QED
    BY <1>1, <1>3, <1>4 DEF Next

\* Everything measured but for retests is in the latest evaluation as soon as
\* the campaign has left the states between rounds (Campaign.AddMeasurements,
\* EvaluateIdem).
LEMMA ReckonedAlways == Spec => []Reckoned
  <1>1. Init => Reckoned
    BY DEF Init, MeasurementsInit, Reckoned, Unevaluated
  <1>2. TypeOK /\ Reckoned /\ [Next]_vars => Reckoned'
    <2> SUFFICES ASSUME TypeOK, Reckoned, [Next]_vars, state' \notin Unevaluated
                 PROVE  /\ Len(evaluations') # 0
                        /\ \A i \in DOMAIN Effective' : rounds'[i].purpose = "original" =>
                             i \in DOMAIN evaluations'[Len(evaluations')]
      BY DEF Reckoned
    <2>1. CASE EvaluateStep
      <3>1. /\ evaluations'[Len(evaluations')] = Effective
            /\ Len(evaluations') # 0
        BY <2>1, EffectiveType, EvaluateEffect
           DEF EvaluateStep, Evaluate, TypeOK, MeasurementsTypeOK
      <3>2. Effective' = Effective
        BY <2>1 DEF EvaluateStep, Evaluate, Effective, EffectiveRoundsWithExclusions, measurements
      <3> QED
        BY <3>1, <3>2
    <2>2. CASE UNCHANGED vars
      BY <2>2 DEF vars, remediation, measurements, Reckoned, Effective,
                  EffectiveRoundsWithExclusions
    <2>3. CASE Carries /\ UNCHANGED rounds
      BY <2>3 DEF Carries, Reckoned, Effective, EffectiveRoundsWithExclusions
    <2>4. ASSUME Carries, NEW round \in Round, round.purpose = "retest", StoreRound(round)
          PROVE  /\ Len(evaluations') # 0
                 /\ \A i \in DOMAIN Effective' : rounds'[i].purpose = "original" =>
                      i \in DOMAIN evaluations'[Len(evaluations')]
      <3>1. \A i \in DOMAIN rounds' :
              \/ i \in DOMAIN rounds /\ rounds'[i] = rounds[i]
              \/ rounds'[i] = round
        BY <2>4 DEF StoreRound, TypeOK, MeasurementsTypeOK
      <3>2. \A i \in DOMAIN Effective' :
              i \in DOMAIN rounds' /\ (i \in DOMAIN rounds => i \in DOMAIN Effective)
        BY <2>4 DEF Carries, Effective, EffectiveRoundsWithExclusions
      <3>3. "retest" # "original"
        OBVIOUS
      <3> QED
        BY <2>4, <3>1, <3>2, <3>3 DEF Carries, Reckoned
    <2> QED
      BY <2>1, <2>2, <2>3, <2>4, CarryCases DEF Carries
  <1> QED
    BY <1>1, <1>2, TypeCorrect, PTL DEF Spec

\* What is reviewed, signed and archived has been evaluated, all of it but for
\* the retests, and without these VerifyReproducibility confirms the latest
\* evaluation (Campaign.AddMeasurements, EvaluateIdem, VerifyReproducibility).
THEOREM SignedAfterEvaluation == Spec => []SignedIsEvaluated
  <1>1. TypeOK /\ Reckoned /\ EvaluatedDataIntact => SignedIsEvaluated
    <2> DEFINE last == Len(evaluations)
               retests == {i \in DOMAIN Effective : rounds[i].purpose = "retest"}
    <2> SUFFICES ASSUME TypeOK, Reckoned, EvaluatedDataIntact,
                        state \in {"REVIEW_PENDING", "REVIEW_APPROVED", "ARCHIVED"}
                 PROVE  /\ last # 0
                        /\ DOMAIN Effective \ DOMAIN evaluations[last] \subseteq retests
                        /\ retests = {} => VerifyReproducibility(last)
      BY DEF SignedIsEvaluated
    <2>1. last # 0
      BY DEF Reckoned, Unevaluated
    <2>2. last \in DOMAIN evaluations
      BY <2>1 DEF TypeOK, MeasurementsTypeOK
    <2>3. ASSUME NEW i \in DOMAIN Effective
          PROVE  rounds[i].purpose \in {"original", "retest"}
      <3>1. i \in DOMAIN rounds
        BY DEF Effective, EffectiveRoundsWithExclusions
      <3>2. rounds[i] \in Round
        BY <3>1 DEF TypeOK, MeasurementsTypeOK
      <3> QED
        BY <3>2 DEF Round
    <2>4. DOMAIN Effective \ DOMAIN evaluations[last] \subseteq retests
      BY <2>3 DEF Reckoned, Unevaluated
    <2>5. ASSUME retests = {}
          PROVE  Effective = evaluations[last]
      <3>1. DOMAIN Effective \subseteq DOMAIN evaluations[last]
        BY <2>4, <2>5
      <3>2. \A i \in DOMAIN evaluations[last] :
              i \in DOMAIN Effective /\ Effective[i] = evaluations[last][i]
        BY <2>2 DEF EvaluatedDataIntact
      <3>3. Effective \in Input /\ evaluations[last] \in Input
        BY <2>2, EffectiveType DEF TypeOK, MeasurementsTypeOK
      <3>4. PICK I \in SUBSET (1..MaxRounds) : Effective \in [I -> Kept]
        BY <3>3 DEF Input
      <3>5. PICK J \in SUBSET (1..MaxRounds) : evaluations[last] \in [J -> Kept]
        BY <3>3 DEF Input
      <3>6. I = J
        BY <3>1, <3>2, <3>4, <3>5
      <3> QED
        BY <3>2, <3>4, <3>5, <3>6
    <2> QED
      BY <2>1, <2>4, <2>5 DEF VerifyReproducibility
  <1> QED
    BY <1>1, ReckonedAlways, TypeCorrect, EvaluationsIntact, PTL
-----------------------------------------------------------------------------
\* A retest that is accepted closes all it is for, or leads to a review, just
\* if the preflight of the same deviations and samples said so.
Predicted ==
  \A X \in SUBSET Open, p \in Person, samples \in Samples, captured \in Captured :
    RetestAttempt(X, p, samples, captured) =>
      /\ ReadyToSubmit(X, samples) <=> X \cap Open' = {}
      /\ WouldEnterReviewPending(X, samples) <=> state' = "REVIEW_PENDING"

\* The preflight repeats conditions of the command, and one more: a plan.
\* There is evidence for plans only, so it makes no difference
\* (RemediationPreflight, RetestAttempt).
THEOREM RetestsArePredicted == Spec => [][Predicted]_vars
  <1>1. TypeOK => Predicted
    <2> SUFFICES ASSUME TypeOK, NEW X \in SUBSET Open, NEW p \in Person,
                        NEW samples \in Samples, NEW captured \in Captured,
                        RetestAttempt(X, p, samples, captured)
                 PROVE  /\ ReadyToSubmit(X, samples) <=> X \cap Open' = {}
                        /\ WouldEnterReviewPending(X, samples) <=> state' = "REVIEW_PENDING"
      BY DEF Predicted
    <2>1. X # {} /\ MayMeasure /\ Selected(X) = X
      BY DEF RetestAttempt, MayMeasure, Selected
    <2>2. ASSUME NEW x \in X
          PROVE  /\ Blocking(x) = {} /\ FullyEvidenced(x) /\ x.device \in DOMAIN samples
                 /\ x \in DOMAIN plans
      <3>1. Blocking(x) = {} /\ FullyEvidenced(x) /\ x.device \in DOMAIN samples
        BY <2>2 DEF RetestAttempt
      <3>2. PICK type \in EvidenceType :
              [deviation |-> x, version |-> Latest(x), type |-> type] \in evidence
        BY <3>1, PreviewsAssumption DEF FullyEvidenced
      <3> DEFINE e == [deviation |-> x, version |-> Latest(x), type |-> type]
      <3>3. e.version \in 1..MaxPlans
        BY <3>2 DEF TypeOK, RemediationsTypeOK
      <3>4. Latest(x) # 0
        BY <3>3, RemediationsAssumption
      <3> QED
        BY <3>1, <3>4 DEF Latest
    <2>3. ASSUME NEW x \in X
          PROVE  x \in Open' <=> ~PassesRetest(samples, x)
      <3>1. x \in DOMAIN deviations /\ deviations[x].status = "OPEN" /\ deviations[x] \in Case
        BY <2>3 DEF Open, TypeOK, MeasurementsTypeOK
      <3> DEFINE tried == [deviations[x] EXCEPT !.attempts = @ \cup {Len(rounds')}]
      <3>2. /\ DOMAIN deviations' = DOMAIN deviations
            /\ deviations'[x] = IF PassesRetest(samples, x)
                                THEN [tried EXCEPT !.status = "CLOSED", !.retest = Len(rounds')]
                                ELSE tried
        BY <2>3, <3>1 DEF RetestAttempt
      <3> QED
        BY <3>1, <3>2 DEF Open, Case
    <2>4. \A x \in DOMAIN deviations \ X : x \in Open' <=> x \in Open
      BY DEF RetestAttempt, Open
    <2>5. DOMAIN deviations' = DOMAIN deviations
      BY DEF RetestAttempt
    <2>6. ReadyToSubmit(X, samples) <=> \A x \in X : PassesRetest(samples, x)
      BY <2>1, <2>2 DEF ReadyToSubmit
    <2>7. ReadyToSubmit(X, samples) <=> X \cap Open' = {}
      BY <2>3, <2>6
    <2>8. state' = "REVIEW_PENDING" <=> Open' = {}
      BY DEF RetestAttempt, StateRemediated, Open
    <2>9. Open' \subseteq DOMAIN deviations /\ Open \subseteq DOMAIN deviations
      BY <2>5 DEF Open
    <2>10. Open' = {} <=> X \cap Open' = {} /\ Open \subseteq X
      BY <2>4, <2>9
    <2> QED
      BY <2>1, <2>7, <2>8, <2>10 DEF WouldEnterReviewPending
  <1> QED
    BY <1>1, TypeCorrect, PTL
-----------------------------------------------------------------------------
\* Signs(p): p approves or rejects.
Signs(p) == Approve(p) \/ \E failed \in SUBSET Item : Reject(p, failed)

\* Only who is eligible claims or signs a review; and who is eligible remains
\* so until another claims the review, or it is signed.
Reliable ==
  \A p \in Person :
    /\ ClaimReview(p) \/ Signs(p) => ReviewerEligibility(p) = "ELIGIBLE"
    /\ ReviewerEligibility(p) = "ELIGIBLE" /\ ReviewerEligibility(p)' # "ELIGIBLE" =>
         \E q \in Person : Signs(q) \/ (q # p /\ ClaimReview(q))

\* The answer is computed from other reads than the command's, and it does not
\* go stale by itself: while a review is pending nobody becomes an operator,
\* and no claim but another's stands in the way (ReviewerEligibility,
\* ClaimReview, ReviewIdem).
THEOREM EligibilityIsReliable == Spec => [][Reliable]_vars
  <1>1. TypeOK /\ [Next]_vars => Reliable \/ UNCHANGED vars
    <2> SUFFICES ASSUME TypeOK, Next, NEW p \in Person
                 PROVE  /\ ClaimReview(p) \/ Signs(p) => ReviewerEligibility(p) = "ELIGIBLE"
                        /\ /\ ReviewerEligibility(p) = "ELIGIBLE"
                           /\ ReviewerEligibility(p)' # "ELIGIBLE"
                           => \E q \in Person : Signs(q) \/ (q # p /\ ClaimReview(q))
      BY DEF Reliable
    <2>1. ClaimReview(p) \/ Signs(p) => ReviewerEligibility(p) = "ELIGIBLE"
      BY DEF ClaimReview, Signs, Approve, Reject, Admitted, Independent, ReviewerEligibility
    <2>2. ASSUME ReviewerEligibility(p) = "ELIGIBLE", ReviewerEligibility(p)' # "ELIGIBLE"
          PROVE  \E q \in Person : Signs(q) \/ (q # p /\ ClaimReview(q))
      <3>1. /\ state = "REVIEW_PENDING" /\ p \notin Operators
            /\ Active => claim.reviewer = p
        BY <2>2 DEF ReviewerEligibility
      <3>2. ~ /\ state' = "REVIEW_PENDING" /\ UNCHANGED remediation
              /\ Active' => claim'.reviewer = p
        BY <2>2, <3>1 DEF ReviewerEligibility, Operators, remediation, measurements
      <3>3. ~Working /\ ~ArchiveWithToken
        BY <3>1 DEF Working, ArchiveWithToken
      <3>4. ~ReleaseReviewClaim(p) /\ ~ClaimReview(p)
        BY <3>1, <3>2 DEF ReleaseReviewClaim, ClaimReview, Active, TypeOK, Claim
      <3>5. ~ClaimExpires
        BY <3>1, <3>2 DEF ClaimExpires, Active, TypeOK, Claim
      <3>6. ASSUME NEW q \in Person, ReleaseReviewClaim(q)
            PROVE  q = p
        BY <3>1, <3>6 DEF ReleaseReviewClaim
      <3> QED
        BY <3>3, <3>4, <3>5, <3>6, StepCases DEF Signs
    <2> QED
      BY <2>1, <2>2
  <1> QED
    BY <1>1, TypeCorrect, PTL DEF Spec
-----------------------------------------------------------------------------
(* What is promised can be done *)

\* Whoever is told to be eligible may claim: nothing but the state the answer
\* was computed from is asked for, and the claim below is the outcome
\* (ReviewerEligibility, ClaimReview).
THEOREM EligibleMayClaim ==
  ASSUME NEW p \in Person, ReviewerEligibility(p) = "ELIGIBLE",
         claim' = [reviewer |-> p, status |-> "ACTIVE", expired |-> FALSE],
         UNCHANGED <<state, remediation, reviews, findings, resolutions>>
  PROVE  ClaimReview(p)
  BY DEF ReviewerEligibility, ClaimReview, Independent

\* Whoever is told to be eligible, the creator excepted, may sign at once, with
\* or without a claim: with failed items the review below is the outcome, for
\* any set of these (ReviewerEligibility, ReviewIdem).
THEOREM EligibleMaySign ==
  ASSUME NEW p \in Person \ {CreatedBy}, ReviewerEligibility(p) = "ELIGIBLE",
         Len(reviews) < MaxReviews, NEW failed \in SUBSET Item, failed # {},
         claim' = IF Active THEN [claim EXCEPT !.status = "CONSUMED"] ELSE claim,
         reviews' = Append(reviews, [reviewer |-> p, approved |-> FALSE]),
         findings' = findings \cup
           {[review |-> Len(reviews'), item |-> i, rounds |-> Len(rounds)] : i \in failed},
         state' = "REMEDIATION_REQUIRED",
         UNCHANGED <<remediation, resolutions>>
  PROVE  Reject(p, failed)
  BY DEF ReviewerEligibility, Reject, Admitted, Independent, Consumed

\* A sequence with one more element is longer by one.
LEMMA LongerByOne == \A s \in Seq(Round), round \in Round : Len(Append(s, round)) = Len(s) + 1
  OBVIOUS

\* A retest that the preflight found ready may be submitted, and then closes
\* everything it is for: the command asks for nothing the preflight has not
\* asked for, and the round below, in which every deviation of X is closed,
\* is the outcome (RemediationPreflight, RetestAttempt).
THEOREM ReadyMaySubmit ==
  ASSUME TypeOK, state = "REMEDIATION_REQUIRED", Len(rounds) < MaxRounds,
         NEW X \in (SUBSET Open) \ {{}}, NEW p \in Person, NEW samples \in Samples,
         NEW captured \in Captured, ReadyToSubmit(X, samples),
         rounds' = Append(rounds, [operator |-> p, purpose |-> "retest",
                                   samples |-> samples, captured |-> captured]),
         deviations' = [x \in DOMAIN deviations |->
           IF x \in X
           THEN [deviations[x] EXCEPT !.attempts = @ \cup {Len(rounds) + 1},
                                      !.status = "CLOSED", !.retest = Len(rounds) + 1]
           ELSE deviations[x]],
         state' = IF Open \subseteq X THEN "REVIEW_PENDING" ELSE state,
         UNCHANGED <<ledger, voids, exclusions, evaluations>>
  PROVE  /\ RetestAttempt(X, p, samples, captured)
         /\ X \cap Open' = {}
         /\ WouldEnterReviewPending(X, samples) <=> state' = "REVIEW_PENDING"
  <1> DEFINE round == [operator |-> p, purpose |-> "retest",
                       samples |-> samples, captured |-> captured]
  <1>1. Selected(X) = X /\ X \subseteq DOMAIN deviations
    BY DEF Selected, Open
  <1>2. ASSUME NEW x \in X
        PROVE  /\ Blocking(x) = {} /\ FullyEvidenced(x)
               /\ x.device \in DOMAIN samples /\ PassesRetest(samples, x)
    BY <1>1, <1>2 DEF ReadyToSubmit
  <1>3. Len(rounds') = Len(rounds) + 1
    <2>1. rounds \in Seq(Round) /\ round \in Round
      BY LifecycleAssumption DEF TypeOK, MeasurementsTypeOK, Round
    <2> HIDE DEF round
    <2>2. rounds' = Append(rounds, round)
      BY DEF round
    <2> QED
      BY <2>1, <2>2, LongerByOne, Zenon
  <1>4. StoreRound(round)
    BY DEF StoreRound, ReadyToSubmit
  <1>5. \A x \in DOMAIN deviations : deviations[x] \in Case
    BY DEF TypeOK, MeasurementsTypeOK
  <1>6. deviations' = [x \in DOMAIN deviations |->
          IF x \notin X THEN deviations[x]
          ELSE LET tried == [deviations[x] EXCEPT !.attempts = @ \cup {Len(rounds')}]
               IN  IF PassesRetest(samples, x)
                   THEN [tried EXCEPT !.status = "CLOSED", !.retest = Len(rounds')]
                   ELSE tried]
    <2>1. ASSUME NEW x \in X
          PROVE  [deviations[x] EXCEPT !.attempts = @ \cup {Len(rounds) + 1},
                                       !.status = "CLOSED", !.retest = Len(rounds) + 1]
                 = LET tried == [deviations[x] EXCEPT !.attempts = @ \cup {Len(rounds')}]
                   IN  IF PassesRetest(samples, x)
                       THEN [tried EXCEPT !.status = "CLOSED", !.retest = Len(rounds')]
                       ELSE tried
      BY <1>1, <1>2, <1>3, <1>5, <2>1 DEF Case
    <2> QED
      BY <2>1
  <1>7. \A x \in DOMAIN deviations :
          deviations'[x].status = "OPEN" <=> x \in Open /\ x \notin X
    BY <1>5 DEF Open, Case
  <1>8. DOMAIN deviations' = DOMAIN deviations
    OBVIOUS
  <1>9. Open' = Open \ X
    BY <1>7, <1>8 DEF Open
  <1>10. state' = StateRemediated(deviations')
    BY <1>7, <1>8 DEF StateRemediated, Open
  <1>11. RetestAttempt(X, p, samples, captured)
    BY <1>2, <1>4, <1>6, <1>10 DEF RetestAttempt
  <1>12. WouldEnterReviewPending(X, samples) <=> state' = "REVIEW_PENDING"
    BY <1>1 DEF WouldEnterReviewPending
  <1> QED
    BY <1>9, <1>11, <1>12
=============================================================================
