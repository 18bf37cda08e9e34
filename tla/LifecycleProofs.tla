--------------------------- MODULE LifecycleProofs ---------------------------
(***************************************************************************)
(* Proofs about one campaign's life, for any number of devices, persons,   *)
(* rounds, evaluations, plans and reviews.                                 *)
(*                                                                         *)
(* Types come first; every other invariant is then proved by itself, from  *)
(* the types and at most one invariant proved before it.                   *)
(* At the end, the refinement of Dossier: one lemma per entry of it.       *)
(***************************************************************************)
EXTENDS Lifecycle, FiniteSetTheorems, TLAPS

-----------------------------------------------------------------------------
(* Types *)

\* What is left of the rounds is a possible input of an evaluation.
LEMMA EffectiveType ==
  ASSUME TypeOK
  PROVE  Effective \in Input /\ DOMAIN Effective \subseteq DOMAIN rounds
  <1> USE DEF TypeOK, MeasurementsTypeOK
  <1>1. DOMAIN Effective = DOMAIN rounds \ voids
    BY DEF Effective, EffectiveRoundsWithExclusions
  <1>2. DOMAIN rounds \subseteq 1..MaxRounds
    BY MeasurementsAssumption
  <1>3. ASSUME NEW i \in DOMAIN Effective
        PROVE  Effective[i] \in Kept
    <2>0. rounds[i] \in Round
      BY <1>1, <1>3
    <2>1. rounds[i].samples \in Samples
      BY <2>0 DEF Round
    <2>2. PICK D \in SUBSET Device : rounds[i].samples \in [D -> Verdict]
      BY <2>1 DEF Samples
    <2>3. Effective[i] = Restrict(rounds[i].samples, {d \in D : <<i, d>> \notin exclusions})
      BY <1>1, <1>3, <2>2 DEF Effective, EffectiveRoundsWithExclusions
    <2>4. Effective[i] \in [{d \in D : <<i, d>> \notin exclusions} -> Verdict]
      BY <2>2, <2>3 DEF Restrict
    <2> QED
      BY <2>4 DEF Kept
  <1>4. Effective \in [DOMAIN Effective -> Kept]
    BY <1>3 DEF Effective, EffectiveRoundsWithExclusions
  <1> QED
    BY <1>1, <1>2, <1>4 DEF Input

\* Storing a round keeps the types of the data it is added to.
LEMMA StoreRoundType ==
  ASSUME TypeOK, NEW round \in Round, StoreRound(round)
  PROVE  /\ rounds' \in Seq(Round) /\ Len(rounds') = Len(rounds) + 1
         /\ Len(rounds') <= MaxRounds
         /\ DOMAIN rounds' = DOMAIN rounds \cup {Len(rounds')}
         /\ Len(rounds') \notin DOMAIN rounds
         /\ rounds'[Len(rounds')] = round
         /\ \A i \in DOMAIN rounds : rounds'[i] = rounds[i]
  BY MeasurementsAssumption DEF TypeOK, MeasurementsTypeOK, StoreRound

\* The commands that store a round keep the types of the measurements, when
\* what they do to the deviations does.
LEMMA RoundAddedType ==
  ASSUME TypeOK, NEW round \in Round, StoreRound(round),
         UNCHANGED <<voids, exclusions, evaluations>>,
         DOMAIN deviations' = DOMAIN deviations,
         \A x \in DOMAIN deviations : deviations'[x] \in Case
  PROVE  MeasurementsTypeOK' /\ Len(rounds') = Len(rounds) + 1
  BY StoreRoundType DEF TypeOK, MeasurementsTypeOK

\* Every case of a deviation has the fields the commands below change.
LEMMA CaseType ==
  ASSUME NEW c \in Case, NEW i \in Nat
  PROVE  /\ [c EXCEPT !.attempts = @ \cup {i}] \in Case
         /\ [c EXCEPT !.status = "CLOSED", !.retest = i] \in Case
         /\ [[c EXCEPT !.attempts = @ \cup {i}] EXCEPT
               !.status = "CLOSED", !.retest = i] \in Case
  BY DEF Case

\* Measuring and amending keep the types.
LEMMA MeasuringType ==
  ASSUME TypeOK, Measuring
  PROVE  TypeOK'
  <1> USE DEF Measuring, ledger, review
  <1>1. ASSUME NEW p \in Person, NEW samples \in Samples, Measure(p, samples)
        PROVE  TypeOK'
    <2> DEFINE round == [operator |-> p, purpose |-> "original",
                         samples |-> samples, captured |-> "now"]
    <2>1. round \in Round /\ StoreRound(round)
      BY <1>1 DEF Measure, Round
    <2>2. MeasurementsTypeOK' /\ Len(rounds') = Len(rounds) + 1
      <3> HIDE DEF round
      <3> QED
        BY <1>1, <2>1, RoundAddedType DEF Measure, TypeOK, MeasurementsTypeOK
    <2>3. state' \in States
      BY <1>1 DEF Measure, StateAfter, States
    <2> QED
      BY <1>1, <2>2, <2>3 DEF Measure, TypeOK, MeasurementsTypeOK, RemediationsTypeOK
  <1>2. ASSUME NEW i \in DOMAIN rounds, VoidRound(i)
        PROVE  TypeOK'
    <2>1. state' \in States
      BY <1>2 DEF VoidRound, StateAfter, States
    <2> QED
      BY <1>2, <2>1 DEF VoidRound, TypeOK, MeasurementsTypeOK, RemediationsTypeOK
  <1>3. ASSUME NEW i \in DOMAIN rounds, NEW d \in Device, ExcludeSample(i, d)
        PROVE  TypeOK'
    <2>1. state' \in States
      BY <1>3 DEF ExcludeSample, StateAfter, States
    <2> QED
      BY <1>3, <2>1 DEF ExcludeSample, TypeOK, MeasurementsTypeOK, RemediationsTypeOK
  <1>4. ASSUME Evaluate
        PROVE  TypeOK'
    <2> USE DEF TypeOK, MeasurementsTypeOK
    <2> DEFINE raised == {[device |-> f[1], metric |-> f[2],
                           evaluation |-> Len(evaluations')] : f \in Failing(Effective)}
               opened == [status |-> "OPEN", attempts |-> {}, retest |-> 0]
    <2>1. Effective \in Input /\ DOMAIN Effective \subseteq DOMAIN rounds
      BY EffectiveType
    <2>2. /\ evaluations' \in Seq(Input)
          /\ Len(evaluations') = Len(evaluations) + 1
          /\ \A k \in DOMAIN evaluations' : DOMAIN evaluations'[k] \subseteq DOMAIN rounds
      BY <1>4, <2>1 DEF Evaluate
    <2>3. raised \subseteq Deviation
      BY <2>2 DEF Failing, Deviation
    <2>4. opened \in Case
      BY DEF Case
    <2>5. deviations' = [x \in DOMAIN deviations \cup raised |->
                           IF x \in raised THEN opened ELSE deviations[x]]
      BY <1>4 DEF Evaluate
    <2>6. \A x \in raised : x.evaluation = Len(evaluations')
      OBVIOUS
    <2>7. state' \in States
      BY <1>4 DEF Evaluate, StateEvaluated, States
    <2>8. UNCHANGED <<rounds, voids, exclusions>>
      BY <1>4 DEF Evaluate, measurements
    <2> HIDE DEF raised, opened
    <2>9. /\ DOMAIN deviations' = DOMAIN deviations \cup raised
          /\ \A x \in DOMAIN deviations' : deviations'[x] \in Case
      BY <2>4, <2>5
    <2>10. \A x \in DOMAIN deviations : x.evaluation \in Nat
      BY DEF Deviation
    <2>11. \A x \in DOMAIN deviations' : x.evaluation <= Len(evaluations')
      BY <2>2, <2>6, <2>9, <2>10
    <2>12. MeasurementsTypeOK'
      BY <2>2, <2>3, <2>8, <2>9, <2>11
    <2>13. RemediationsTypeOK'
      BY <2>9 DEF Measuring, RemediationsTypeOK
    <2> QED
      BY <2>7, <2>8, <2>12, <2>13
  <1> QED
    BY <1>1, <1>2, <1>3, <1>4

\* The types of everything else when only rounds and cases have changed.
LEMMA RestType ==
  ASSUME TypeOK, MeasurementsTypeOK', Len(rounds') = Len(rounds) + 1,
         DOMAIN deviations' = DOMAIN deviations, state' \in States,
         UNCHANGED <<ledger, review>>
  PROVE  TypeOK'
  <1>1. RemediationsTypeOK'
    BY DEF TypeOK, RemediationsTypeOK, ledger
  <1>2. 0..Len(rounds) \subseteq 0..Len(rounds')
    BY DEF TypeOK, MeasurementsTypeOK
  <1> QED
    BY <1>1, <1>2 DEF TypeOK, review

\* Planning, evidence, dependencies and retests keep the types.
LEMMA RemediatingType ==
  ASSUME TypeOK, Remediating
  PROVE  TypeOK'
  <1> USE DEF TypeOK, MeasurementsTypeOK, RemediationsTypeOK, Remediating,
              review, measurements, ledger
  <1>1. ASSUME NEW X \in SUBSET Open, AddPlans(X)
        PROVE  TypeOK'
    <2>1. \A x \in X : Latest(x) \in 0..MaxPlans /\ Latest(x) + 1 \in 1..MaxPlans
      BY <1>1, RemediationsAssumption DEF AddPlans, Latest
    <2>2. \A x \in DOMAIN plans' : plans'[x] \in 1..MaxPlans
      BY <1>1, <2>1 DEF AddPlans
    <2>3. DOMAIN plans' \subseteq DOMAIN deviations
      BY <1>1 DEF AddPlans, Open
    <2>4. UNCHANGED <<evidence, prerequisites, state, rounds, voids, exclusions,
                      evaluations, deviations>>
      BY <1>1 DEF AddPlans
    <2>5. RemediationsTypeOK'
      BY <2>2, <2>3, <2>4
    <2> QED
      BY <2>4, <2>5
  <1>2. ASSUME NEW x \in Open, NEW version \in 1..MaxPlans, NEW type \in EvidenceType,
               AddRemediationEvidence(x, version, type)
        PROVE  TypeOK'
    BY <1>2 DEF AddRemediationEvidence, Open
  <1>3. ASSUME NEW edges, AddRemediationDependencies(edges)
        PROVE  TypeOK'
    BY <1>3 DEF AddRemediationDependencies
  <1>4. ASSUME NEW p \in Person, NEW samples \in Samples, NEW captured \in Captured
        PROVE  [operator |-> p, purpose |-> "retest", samples |-> samples,
                captured |-> captured] \in Round
    BY LifecycleAssumption DEF Round
  <1>5. ASSUME NEW X \in SUBSET Open, NEW p \in Person, NEW samples \in Samples,
               NEW captured \in Captured, RetestAttempt(X, p, samples, captured)
        PROVE  TypeOK'
    <2> DEFINE round == [operator |-> p, purpose |-> "retest",
                         samples |-> samples, captured |-> captured]
    <2>1. round \in Round /\ StoreRound(round)
      BY <1>4, <1>5 DEF RetestAttempt
    <2> HIDE DEF round
    <2>2. /\ DOMAIN deviations' = DOMAIN deviations
          /\ \A x \in DOMAIN deviations : deviations'[x] \in Case
      <3>1. Len(rounds') \in Nat
        BY <2>1, StoreRoundType
      <3>2. ASSUME NEW x \in DOMAIN deviations
            PROVE  deviations'[x] \in Case
        <4> DEFINE tried == [deviations[x] EXCEPT !.attempts = @ \cup {Len(rounds')}]
        <4>1. deviations'[x] = IF x \notin X THEN deviations[x]
                               ELSE IF PassesRetest(samples, x)
                                    THEN [tried EXCEPT !.status = "CLOSED",
                                                       !.retest = Len(rounds')]
                                    ELSE tried
          BY <1>5 DEF RetestAttempt
        <4>2. deviations[x] \in Case
          OBVIOUS
        <4> HIDE DEF TypeOK, MeasurementsTypeOK
        <4> QED
          BY <3>1, <4>1, <4>2, CaseType
      <3> QED
        BY <1>5, <3>2 DEF RetestAttempt
    <2>3. MeasurementsTypeOK' /\ Len(rounds') = Len(rounds) + 1
      BY <1>5, <2>1, <2>2, RoundAddedType DEF RetestAttempt
    <2>4. state' \in States
      BY <1>5 DEF RetestAttempt, StateRemediated, States
    <2>5. UNCHANGED <<ledger, review>>
      BY <1>5 DEF RetestAttempt
    <2> HIDE DEF TypeOK, MeasurementsTypeOK, RemediationsTypeOK
    <2> QED
      BY <2>2, <2>3, <2>4, <2>5, RestType
  <1>6. ASSUME NEW X \in SUBSET Open, NEW p \in Person, NEW samples \in Samples,
               NEW captured \in Captured, Remediate(X, p, samples, captured)
        PROVE  TypeOK'
    <2> DEFINE round == [operator |-> p, purpose |-> "retest",
                         samples |-> samples, captured |-> captured]
    <2>1. round \in Round /\ StoreRound(round)
      BY <1>4, <1>6 DEF Remediate
    <2> HIDE DEF round
    <2>2. /\ DOMAIN deviations' = DOMAIN deviations
          /\ \A x \in DOMAIN deviations : deviations'[x] \in Case
      <3>1. Len(rounds') \in Nat
        BY <2>1, StoreRoundType
      <3> QED
        BY <1>6, <3>1, CaseType DEF Remediate
    <2>3. MeasurementsTypeOK' /\ Len(rounds') = Len(rounds) + 1
      BY <1>6, <2>1, <2>2, RoundAddedType DEF Remediate
    <2>4. state' \in States
      BY <1>6 DEF Remediate, StateRemediated, States
    <2>5. UNCHANGED <<ledger, review>>
      BY <1>6 DEF Remediate
    <2> HIDE DEF TypeOK, MeasurementsTypeOK, RemediationsTypeOK
    <2> QED
      BY <2>2, <2>3, <2>4, <2>5, RestType
  <1> QED
    BY <1>1, <1>2, <1>3, <1>5, <1>6

\* Claims, reviews, resolutions and the archive keep the types.
LEMMA ReviewingType ==
  ASSUME TypeOK, Reviewing
  PROVE  TypeOK'
  <1> USE DEF TypeOK, MeasurementsTypeOK, RemediationsTypeOK,
              remediation, measurements, ledger
  <1>1. ASSUME NEW p \in Person, ClaimReview(p)
        PROVE  TypeOK'
    BY <1>1 DEF ClaimReview, Claim
  <1>2. ASSUME NEW p \in Person, ReleaseReviewClaim(p)
        PROVE  TypeOK'
    BY <1>2 DEF ReleaseReviewClaim, Active, Claim
  <1>3. ASSUME ClaimExpires
        PROVE  TypeOK'
    BY <1>3 DEF ClaimExpires, Active, Claim
  <1>4. Consumed \in Claim \cup {Nil}
    BY DEF Consumed, Active, Claim
  <1>5. ASSUME NEW p \in Person, Approve(p)
        PROVE  TypeOK'
    BY <1>4, <1>5 DEF Approve, States
  <1>6. ASSUME NEW p \in Person, NEW failed \in SUBSET Item, Reject(p, failed)
        PROVE  TypeOK'
    <2>1. /\ reviews' \in Seq([reviewer : Person, approved : BOOLEAN])
          /\ Len(reviews') = Len(reviews) + 1
      BY <1>6 DEF Reject
    <2>2. \A i \in failed :
            [review |-> Len(reviews'), item |-> i, rounds |-> Len(rounds)] \in Finding
      BY <2>1 DEF Finding
    <2>3. findings' \subseteq Finding /\ findings \subseteq findings'
      BY <1>6, <2>2 DEF Reject
    <2> QED
      BY <1>4, <1>6, <2>1, <2>3 DEF Reject, States
  <1>7. ASSUME NEW F \in SUBSET Unresolved, NEW cites \in [F -> 0..Len(rounds)],
               ResolveReviewFindings(cites)
        PROVE  TypeOK'
    BY <1>7 DEF ResolveReviewFindings, Unresolved, States
  <1>8. ASSUME NEW p \in Person, NEW samples \in Samples, NEW captured \in Captured,
               RetestFindings(p, samples, captured)
        PROVE  TypeOK'
    <2> DEFINE round == [operator |-> p, purpose |-> "retest",
                         samples |-> samples, captured |-> captured]
    <2>1. round \in Round
      BY LifecycleAssumption DEF Round
    <2>2. StoreRound(round)
      BY <1>8 DEF RetestFindings
    <2> HIDE DEF round
    <2>3. MeasurementsTypeOK' /\ Len(rounds') = Len(rounds) + 1
      BY <1>8, <2>1, <2>2, RoundAddedType DEF RetestFindings
    <2> QED
      BY <1>8, <2>3 DEF RetestFindings, review
  <1>9. ASSUME ArchiveWithToken
        PROVE  TypeOK'
    BY <1>9 DEF ArchiveWithToken, review, States
  <1> QED
    BY <1>1, <1>2, <1>3, <1>5, <1>6, <1>7, <1>8, <1>9 DEF Reviewing

\* The types of the lifecycle, for every command of every client.
THEOREM TypeCorrect == Spec => []TypeOK
  <1>1. Init => TypeOK
    <2> SUFFICES ASSUME Init PROVE TypeOK
      OBVIOUS
    <2>1. Len(rounds) <= MaxRounds
      BY MeasurementsAssumption DEF Init, MeasurementsInit
    <2> QED
      BY <2>1 DEF Init, MeasurementsInit, RemediationsInit, TypeOK,
                  MeasurementsTypeOK, RemediationsTypeOK, States
  <1>2. TypeOK /\ [Next]_vars => TypeOK'
    <2> SUFFICES ASSUME TypeOK, [Next]_vars PROVE TypeOK'
      OBVIOUS
    <2>1. CASE Next
      BY <2>1, MeasuringType, RemediatingType, ReviewingType DEF Next
    <2>2. CASE UNCHANGED vars
      BY <2>2 DEF vars, remediation, measurements, ledger, review,
                  TypeOK, MeasurementsTypeOK, RemediationsTypeOK
    <2> QED
      BY <2>1, <2>2
  <1> QED
    BY <1>1, <1>2, PTL DEF Spec
-----------------------------------------------------------------------------
(* Claims, signatures and the archive *)

\* The commands that measure and remediate: they leave claims, reviews and
\* findings alone, and neither start from nor lead to a signed campaign.
Working ==
  /\ state \in {"REFERENCE_VERIFIED", "MEASURED", "REMEDIATION_REQUIRED"}
  /\ state' \notin {"REVIEW_APPROVED", "ARCHIVED"}
  /\ UNCHANGED <<claim, reviews, findings>>

\* A step is one of those, or one of a reviewer, or the archiving.
LEMMA StepCases ==
  ASSUME Next
  PROVE  \/ Working
         \/ \E p \in Person : ClaimReview(p) \/ ReleaseReviewClaim(p) \/ Approve(p)
         \/ ClaimExpires
         \/ \E p \in Person, failed \in SUBSET Item : Reject(p, failed)
         \/ ArchiveWithToken
  <1> USE DEF Working, review
  <1>1. ASSUME Measuring
        PROVE  Working
    <2>1. ASSUME NEW p \in Person, NEW samples \in Samples, Measure(p, samples)
          PROVE  Working
      BY <1>1, <2>1 DEF Measuring, Measure, StoreRound, MayMeasure, StateAfter
    <2>2. ASSUME NEW i \in DOMAIN rounds, VoidRound(i)
          PROVE  Working
      BY <1>1, <2>2 DEF Measuring, VoidRound, Amendable, StateAfter
    <2>3. ASSUME NEW i \in DOMAIN rounds, NEW d \in Device, ExcludeSample(i, d)
          PROVE  Working
      BY <1>1, <2>3 DEF Measuring, ExcludeSample, Amendable, StateAfter
    <2>4. ASSUME Evaluate
          PROVE  Working
      BY <1>1, <2>4 DEF Measuring, Evaluate, StateEvaluated
    <2> QED
      BY <1>1, <2>1, <2>2, <2>3, <2>4 DEF Measuring
  <1>2. ASSUME Remediating
        PROVE  Working
    <2>1. state = "REMEDIATION_REQUIRED" /\ UNCHANGED review
      BY <1>2 DEF Remediating, AddPlans, AddRemediationEvidence,
                  AddRemediationDependencies, RetestAttempt, Remediate
    <2>2. state' \in {state, "REMEDIATION_REQUIRED", "REVIEW_PENDING"}
      BY <1>2 DEF Remediating, AddPlans, AddRemediationEvidence,
                  AddRemediationDependencies, RetestAttempt, Remediate, StateRemediated
    <2> QED
      BY <2>1, <2>2
  <1>3. ASSUME NEW cites, ResolveReviewFindings(cites)
        PROVE  Working
    BY <1>3 DEF ResolveReviewFindings
  <1>4. ASSUME NEW p, NEW samples, NEW captured, RetestFindings(p, samples, captured)
        PROVE  Working
    BY <1>4 DEF RetestFindings
  <1> QED
    BY <1>1, <1>2, <1>3, <1>4 DEF Next, Reviewing

\* A claim in force is for a review still to be made, by somebody who may
\* make it: no command leaves REVIEW_PENDING, or stores a round in it, without
\* ending the claim (Service.ClaimReview, ReviewIdem, AddMeasurements).
THEOREM ClaimsGuard == Spec => []ClaimGuardsReview
  <1>1. Init => ClaimGuardsReview
    BY DEF Init, ClaimGuardsReview, Active
  <1>2. TypeOK /\ ClaimGuardsReview /\ [Next]_vars => ClaimGuardsReview'
    <2> SUFFICES ASSUME TypeOK, ClaimGuardsReview, [Next]_vars
                 PROVE  ClaimGuardsReview'
      OBVIOUS
    <2> USE DEF ClaimGuardsReview
    <2>1. CASE Working
      BY <2>1 DEF Working, Active
    <2>2. ASSUME NEW p \in Person, ClaimReview(p)
          PROVE  ClaimGuardsReview'
      BY <2>2 DEF ClaimReview, Active, Independent, Operators, remediation, measurements
    <2>3. ASSUME NEW p \in Person, ReleaseReviewClaim(p)
          PROVE  ClaimGuardsReview'
      BY <2>3 DEF ReleaseReviewClaim, Active, TypeOK, Claim
    <2>4. CASE ClaimExpires
      BY <2>4 DEF ClaimExpires, Active, TypeOK, Claim
    <2>5. Consumed # Nil => ~(Consumed.status = "ACTIVE" /\ ~Consumed.expired)
      BY DEF Consumed, Active, TypeOK, Claim
    <2>6. ASSUME NEW p \in Person, Approve(p)
          PROVE  ClaimGuardsReview'
      BY <2>5, <2>6 DEF Approve, Active
    <2>7. ASSUME NEW p \in Person, NEW failed \in SUBSET Item, Reject(p, failed)
          PROVE  ClaimGuardsReview'
      BY <2>5, <2>7 DEF Reject, Active
    <2>8. CASE ArchiveWithToken
      BY <2>8 DEF ArchiveWithToken, review, Active
    <2>9. CASE UNCHANGED vars
      BY <2>9 DEF vars, review, remediation, measurements, Active, Independent, Operators
    <2> QED
      BY <2>1, <2>2, <2>3, <2>4, <2>6, <2>7, <2>8, <2>9, StepCases
  <1> QED
    BY <1>1, <1>2, TypeCorrect, PTL DEF Spec

\* The signer of an approved or archived campaign is neither its creator nor
\* the operator of any round, voided ones included, and stays so: nothing
\* adds a round after the signature (ReviewIdem, Campaign.HasOperator).
THEOREM SignersAreIndependent == Spec => []IndependentSigner
  <1>1. Init => IndependentSigner
    BY DEF Init, MeasurementsInit, IndependentSigner
  <1>2. TypeOK /\ IndependentSigner /\ [Next]_vars => IndependentSigner'
    <2> SUFFICES ASSUME TypeOK, IndependentSigner, [Next]_vars
                 PROVE  IndependentSigner'
      OBVIOUS
    <2> USE DEF IndependentSigner, Operators
    <2>1. CASE Working
      BY <2>1 DEF Working
    <2>2. ASSUME NEW p \in Person, Approve(p)
          PROVE  IndependentSigner'
      <3>1. /\ Len(reviews') = Len(reviews) + 1
            /\ reviews'[Len(reviews')] = [reviewer |-> p, approved |-> TRUE]
        BY <2>2 DEF Approve, TypeOK
      <3>2. p # CreatedBy /\ p \notin Operators /\ UNCHANGED rounds
        BY <2>2 DEF Approve, Admitted, Independent, remediation, measurements
      <3> QED
        BY <3>1, <3>2
    <2>3. ASSUME NEW p \in Person, NEW failed \in SUBSET Item, Reject(p, failed)
          PROVE  IndependentSigner'
      BY <2>3 DEF Reject
    <2>4. ASSUME \/ \E p \in Person : ClaimReview(p) \/ ReleaseReviewClaim(p)
                 \/ ClaimExpires \/ ArchiveWithToken \/ UNCHANGED vars
          PROVE  IndependentSigner'
      <3>1. UNCHANGED <<rounds, reviews>>
        BY <2>4 DEF ClaimReview, ReleaseReviewClaim, ClaimExpires, ArchiveWithToken,
                    vars, review, remediation, measurements
      <3>2. state' = state \/ ArchiveWithToken
        BY <2>4 DEF ClaimReview, ReleaseReviewClaim, ClaimExpires, vars
      <3>3. ArchiveWithToken => state = "REVIEW_APPROVED"
        BY DEF ArchiveWithToken
      <3> QED
        BY <3>1, <3>2, <3>3
    <2> QED
      BY <2>1, <2>2, <2>3, <2>4, StepCases
  <1> QED
    BY <1>1, <1>2, TypeCorrect, PTL DEF Spec

\* Strengthens ArchivedIsClean: what the archive must not leave behind is
\* settled by the signature already, but for the deviations.
Settled ==
  /\ state \in {"REVIEW_APPROVED", "ARCHIVED"} => Unresolved = {} /\ ~Active
  /\ state = "ARCHIVED" => Open = {}

\* Nothing is left to settle from the signature on.
LEMMA SettledAlways == Spec => []Settled
  <1>1. Init => Settled
    BY DEF Init, MeasurementsInit, Settled
  <1>2. TypeOK /\ Settled /\ [Next]_vars => Settled'
    <2> SUFFICES ASSUME TypeOK, Settled, [Next]_vars
                 PROVE  Settled'
      OBVIOUS
    <2> USE DEF Settled, Unresolved
    <2>1. CASE Working
      BY <2>1 DEF Working
    <2>2. ASSUME NEW p \in Person, ClaimReview(p)
          PROVE  Settled'
      BY <2>2 DEF ClaimReview
    <2>3. ASSUME NEW p \in Person, ReleaseReviewClaim(p)
          PROVE  Settled'
      BY <2>3 DEF ReleaseReviewClaim
    <2>4. CASE ClaimExpires
      BY <2>4 DEF ClaimExpires
    <2>5. ASSUME NEW p \in Person, Approve(p)
          PROVE  Settled'
      <3>1. Consumed # Nil => ~(Consumed.status = "ACTIVE" /\ ~Consumed.expired)
        BY DEF Consumed, Active, TypeOK, Claim
      <3> QED
        BY <2>5, <3>1 DEF Approve, Active
    <2>6. ASSUME NEW p \in Person, NEW failed \in SUBSET Item, Reject(p, failed)
          PROVE  Settled'
      BY <2>6 DEF Reject
    <2>7. CASE ArchiveWithToken
      BY <2>7 DEF ArchiveWithToken, Preflight, remediation, review, Open, Active
    <2>8. CASE UNCHANGED vars
      BY <2>8 DEF vars, remediation, review, Open, Active
    <2> QED
      BY <2>1, <2>2, <2>3, <2>4, <2>5, <2>6, <2>7, <2>8, StepCases
  <1> QED
    BY <1>1, <1>2, TypeCorrect, PTL DEF Spec

\* An archived campaign has no open deviation, no unresolved finding and no
\* active claim (Service.ArchiveWithToken and its preflight).
THEOREM ArchiveIsClean == Spec => []ArchivedIsClean
  <1>1. Settled => ArchivedIsClean
    BY DEF Settled, ArchivedIsClean
  <1> QED
    BY <1>1, SettledAlways, PTL

\* No command of any endpoint changes an archived campaign: each of them is
\* refused for the campaign's state, the release of a claim for want of one.
THEOREM ArchiveIsFinal == Spec => ArchivedIsFinal
  <1>1. Settled /\ [Next]_vars => [state # "ARCHIVED"]_vars
    <2> SUFFICES ASSUME Settled, Next
                 PROVE  state # "ARCHIVED"
      OBVIOUS
    <2> QED
      BY StepCases DEF Settled, Working, ClaimReview, ReleaseReviewClaim, ClaimExpires,
                       Approve, Reject, Admitted, ArchiveWithToken
  <1> QED
    BY <1>1, SettledAlways, PTL DEF Spec, ArchivedIsFinal
-----------------------------------------------------------------------------
(* Evaluations and deviations *)

\* How a step can change deviations: an evaluation opens new ones, a retest
\* closes some that are open with the round it stores, the rest of a case is
\* only ever added to.
EvaluateStep ==
  Evaluate /\ UNCHANGED <<ledger, review>>

RetestStep(X) ==
  \E p \in Person, samples \in Samples, captured \in Captured :
    /\ RetestAttempt(X, p, samples, captured) \/ Remediate(X, p, samples, captured)
    /\ X \subseteq Open
    /\ UNCHANGED review

\* Every other step leaves evaluations and deviations as they are.
LEMMA DeviationCases ==
  ASSUME Next
  PROVE  \/ EvaluateStep
         \/ \E X \in SUBSET Open : RetestStep(X)
         \/ UNCHANGED <<evaluations, deviations>>
  <1>1. ASSUME Measuring
        PROVE  EvaluateStep \/ UNCHANGED <<evaluations, deviations>>
    BY <1>1 DEF Measuring, EvaluateStep, Measure, VoidRound, ExcludeSample
  <1>2. ASSUME Remediating
        PROVE  \/ \E X \in SUBSET Open : RetestStep(X)
               \/ UNCHANGED <<evaluations, deviations>>
    <2>1. ASSUME NEW X \in SUBSET Open, AddPlans(X)
          PROVE  UNCHANGED <<evaluations, deviations>>
      BY <2>1 DEF AddPlans
    <2>2. ASSUME NEW x, NEW version, NEW type, AddRemediationEvidence(x, version, type)
          PROVE  UNCHANGED <<evaluations, deviations>>
      BY <2>2 DEF AddRemediationEvidence
    <2>3. ASSUME NEW edges, AddRemediationDependencies(edges)
          PROVE  UNCHANGED <<evaluations, deviations>>
      BY <2>3 DEF AddRemediationDependencies
    <2> QED
      BY <1>2, <2>1, <2>2, <2>3 DEF Remediating, RetestStep
  <1>3. ASSUME Reviewing
        PROVE  UNCHANGED <<evaluations, deviations>>
    BY <1>3 DEF Reviewing, ClaimReview, ReleaseReviewClaim, ClaimExpires, Approve, Reject,
                ResolveReviewFindings, RetestFindings, ArchiveWithToken, remediation
  <1> QED
    BY <1>1, <1>2, <1>3 DEF Next

\* What an evaluation does to the deviations: those it raises are new.
LEMMA EvaluateEffect ==
  ASSUME TypeOK, Evaluate
  PROVE  /\ Len(evaluations') = Len(evaluations) + 1
         /\ evaluations'[Len(evaluations')] = Effective
         /\ \A k \in DOMAIN evaluations : evaluations'[k] = evaluations[k]
         /\ DOMAIN deviations \subseteq DOMAIN deviations'
         /\ \A x \in DOMAIN deviations : deviations'[x] = deviations[x]
         /\ \A x \in DOMAIN deviations' \ DOMAIN deviations :
              deviations'[x] = [status |-> "OPEN", attempts |-> {}, retest |-> 0]
         /\ Failing(Effective) # {} => Open' # {}
  <1> USE DEF TypeOK, MeasurementsTypeOK
  <1> DEFINE raised == {[device |-> f[1], metric |-> f[2],
                         evaluation |-> Len(evaluations')] : f \in Failing(Effective)}
             opened == [status |-> "OPEN", attempts |-> {}, retest |-> 0]
  <1>1. /\ Len(evaluations') = Len(evaluations) + 1
        /\ evaluations'[Len(evaluations')] = Effective
        /\ \A k \in DOMAIN evaluations : evaluations'[k] = evaluations[k]
    BY EffectiveType DEF Evaluate
  <1>2. deviations' = [x \in DOMAIN deviations \cup raised |->
                         IF x \in raised THEN opened ELSE deviations[x]]
    BY DEF Evaluate
  <1>3. \A x \in DOMAIN deviations : x \notin raised
    <2>1. \A x \in raised : x.evaluation = Len(evaluations) + 1
      BY <1>1
    <2>2. \A x \in DOMAIN deviations : x.evaluation \in Nat /\ x.evaluation <= Len(evaluations)
      BY DEF Deviation
    <2> HIDE DEF raised
    <2> QED
      BY <2>1, <2>2
  <1>4. Failing(Effective) # {} => raised # {}
    OBVIOUS
  <1>5. opened.status = "OPEN"
    OBVIOUS
  <1> HIDE DEF raised, opened
  <1>6. /\ DOMAIN deviations' = DOMAIN deviations \cup raised
        /\ \A x \in raised : deviations'[x] = opened
    BY <1>2
  <1>7. Failing(Effective) # {} => Open' # {}
    BY <1>4, <1>5, <1>6 DEF Open
  <1> QED
    BY <1>1, <1>2, <1>3, <1>7 DEF opened

\* What a retest does: the cases it is not for stay, those it is for are
\* closed by the round it stores, or stay open.
LEMMA RetestEffect ==
  ASSUME TypeOK, NEW X \in SUBSET Open, RetestStep(X)
  PROVE  /\ DOMAIN deviations' = DOMAIN deviations
         /\ \A x \in DOMAIN deviations \ X : deviations'[x] = deviations[x]
         /\ Len(rounds') \notin DOMAIN rounds
         /\ Len(rounds') \in DOMAIN rounds'
         /\ rounds'[Len(rounds')].purpose = "retest"
         /\ \A x \in X :
              /\ x.device \in DOMAIN rounds'[Len(rounds')].samples
              /\ deviations'[x].attempts \subseteq deviations[x].attempts \cup {Len(rounds')}
              /\ deviations'[x].status = "CLOSED" =>
                   /\ deviations'[x].retest = Len(rounds')
                   /\ PassesRetest(rounds'[Len(rounds')].samples, x)
         /\ UNCHANGED <<evaluations, voids, exclusions, ledger, review>>
         /\ state' = "REMEDIATION_REQUIRED" => Open' # {}
  <1>1. PICK p \in Person, samples \in Samples, captured \in Captured :
          /\ RetestAttempt(X, p, samples, captured) \/ Remediate(X, p, samples, captured)
          /\ X \subseteq Open
          /\ UNCHANGED review
    BY DEF RetestStep
  <1> DEFINE round == [operator |-> p, purpose |-> "retest",
                       samples |-> samples, captured |-> captured]
  <1>2. round \in Round /\ StoreRound(round)
    BY <1>1, LifecycleAssumption DEF Round, RetestAttempt, Remediate
  <1>3. round.purpose = "retest" /\ round.samples = samples
    OBVIOUS
  <1> HIDE DEF round
  <1>4. /\ Len(rounds') \in DOMAIN rounds' /\ Len(rounds') \notin DOMAIN rounds
        /\ rounds'[Len(rounds')] = round
    BY <1>2, StoreRoundType
  <1>5. \A x \in X : x \in DOMAIN deviations /\ deviations[x].status = "OPEN"
    BY DEF Open
  <1>6. ASSUME NEW x \in X
        PROVE  /\ x.device \in DOMAIN samples
               /\ deviations'[x].attempts \subseteq deviations[x].attempts \cup {Len(rounds')}
               /\ deviations'[x].status = "CLOSED" =>
                    deviations'[x].retest = Len(rounds') /\ PassesRetest(samples, x)
    <2>1. deviations[x] \in Case
      BY <1>5 DEF TypeOK, MeasurementsTypeOK
    <2>2. CASE Remediate(X, p, samples, captured)
      <3>1. deviations'[x] = [deviations[x] EXCEPT !.status = "CLOSED", !.retest = Len(rounds')]
        BY <1>5, <2>2 DEF Remediate
      <3>2. x.device \in DOMAIN samples /\ PassesRetest(samples, x)
        BY <2>2 DEF Remediate
      <3> QED
        BY <2>1, <3>1, <3>2 DEF Case
    <2>3. CASE RetestAttempt(X, p, samples, captured)
      <3> DEFINE tried == [deviations[x] EXCEPT !.attempts = @ \cup {Len(rounds')}]
      <3>1. deviations'[x] = IF PassesRetest(samples, x)
                             THEN [tried EXCEPT !.status = "CLOSED", !.retest = Len(rounds')]
                             ELSE tried
        BY <1>5, <2>3 DEF RetestAttempt
      <3>2. x.device \in DOMAIN samples
        BY <2>3 DEF RetestAttempt
      <3> QED
        BY <1>5, <2>1, <3>1, <3>2 DEF Case
    <2> QED
      BY <1>1, <2>2, <2>3
  <1>7. /\ DOMAIN deviations' = DOMAIN deviations
        /\ \A x \in DOMAIN deviations \ X : deviations'[x] = deviations[x]
    BY <1>1 DEF RetestAttempt, Remediate
  <1>8. state' = StateRemediated(deviations')
        /\ UNCHANGED <<evaluations, voids, exclusions, ledger, review>>
    BY <1>1 DEF RetestAttempt, Remediate
  <1>9. state' = "REMEDIATION_REQUIRED" => Open' # {}
    BY <1>8 DEF StateRemediated, Open
  <1> QED
    BY <1>3, <1>4, <1>6, <1>7, <1>8, <1>9

\* Rounds are only ever added.
LEMMA RoundsGrow ==
  ASSUME TypeOK, Next
  PROVE  /\ DOMAIN rounds \subseteq DOMAIN rounds'
         /\ \A i \in DOMAIN rounds : rounds'[i] = rounds[i]
  <1>1. ASSUME NEW round, StoreRound(round)
        PROVE  /\ DOMAIN rounds \subseteq DOMAIN rounds'
               /\ \A i \in DOMAIN rounds : rounds'[i] = rounds[i]
    BY <1>1 DEF StoreRound, TypeOK, MeasurementsTypeOK
  <1>2. UNCHANGED rounds \/ \E round : StoreRound(round)
    <2>1. ASSUME Measuring
          PROVE  UNCHANGED rounds \/ \E round : StoreRound(round)
      BY <2>1 DEF Measuring, Measure, VoidRound, ExcludeSample, Evaluate, measurements
    <2>2. ASSUME Remediating
          PROVE  UNCHANGED rounds \/ \E round : StoreRound(round)
      BY <2>2 DEF Remediating, AddPlans, AddRemediationEvidence,
                  AddRemediationDependencies, RetestAttempt, Remediate, measurements
    <2>3. ASSUME Reviewing
          PROVE  UNCHANGED rounds \/ \E round : StoreRound(round)
      BY <2>3 DEF Reviewing, ClaimReview, ReleaseReviewClaim, ClaimExpires, Approve,
                  Reject, ResolveReviewFindings, RetestFindings, ArchiveWithToken,
                  remediation, measurements
    <2> QED
      BY <2>1, <2>2, <2>3 DEF Next
  <1> QED
    BY <1>1, <1>2

\* What ClosedByPassingRetest says of a deviation that is closed.
Closed(x) ==
  LET i == deviations[x].retest
  IN  /\ i \in DOMAIN rounds /\ i \notin DOMAIN evaluations[x.evaluation]
      /\ rounds[i].purpose = "retest"
      /\ x.device \in DOMAIN rounds[i].samples
      /\ rounds[i].samples[x.device] #
           (IF x.metric = "time_deviation" THEN "late" ELSE "fast")

\* A deviation is closed by a retest captured after the evaluation that raised
\* it, within the limit it broke, and stays closed by that round whatever is
\* measured, voided or evaluated later (RetestAttempt, RemediateDetailed).
THEOREM ClosedByRetest == Spec => []ClosedByPassingRetest
  <1>1. Init => ClosedByPassingRetest
    BY DEF Init, MeasurementsInit, ClosedByPassingRetest
  <1>2. TypeOK /\ ClosedByPassingRetest /\ [Next]_vars => ClosedByPassingRetest'
    <2> SUFFICES ASSUME TypeOK, ClosedByPassingRetest, [Next]_vars,
                        NEW x \in DOMAIN deviations', deviations'[x].status = "CLOSED"
                 PROVE  Closed(x)'
      BY DEF ClosedByPassingRetest, Closed
    <2>1. x \in DOMAIN deviations => x.evaluation \in DOMAIN evaluations
      BY DEF TypeOK, MeasurementsTypeOK, Deviation
    <2>2. /\ DOMAIN rounds \subseteq DOMAIN rounds'
          /\ \A i \in DOMAIN rounds : rounds'[i] = rounds[i]
      BY RoundsGrow DEF vars, remediation, measurements
    <2>3. ASSUME x \in DOMAIN deviations, deviations'[x] = deviations[x],
                 evaluations'[x.evaluation] = evaluations[x.evaluation]
          PROVE  Closed(x)'
      BY <2>2, <2>3 DEF ClosedByPassingRetest, Closed
    <2>4. CASE EvaluateStep
      BY <2>1, <2>3, <2>4, EvaluateEffect DEF EvaluateStep
    <2>5. ASSUME NEW X \in SUBSET Open, RetestStep(X)
          PROVE  Closed(x)'
      <3>1. CASE x \notin X
        BY <2>1, <2>3, <2>5, <3>1, RetestEffect
      <3>2. CASE x \in X
        <4>1. x \in DOMAIN deviations
          BY <3>2 DEF Open
        <4>2. Len(rounds') \notin DOMAIN evaluations[x.evaluation]
          BY <2>1, <2>5, <4>1, RetestEffect DEF TypeOK, MeasurementsTypeOK
        <4> QED
          BY <2>5, <3>2, <4>2, RetestEffect DEF PassesRetest, Closed
      <3> QED
        BY <3>1, <3>2
    <2>6. CASE UNCHANGED <<evaluations, deviations>>
      BY <2>3, <2>6
    <2> QED
      BY <2>4, <2>5, <2>6, DeviationCases DEF vars, remediation
  <1> QED
    BY <1>1, <1>2, TypeCorrect, PTL DEF Spec

\* No void or exclusion reaches back into a stored evaluation: both are
\* refused once there is one, and every other command only adds rounds
\* (Service.VoidRound, Service.ExcludeSample, EvaluateIdem).
THEOREM EvaluationsIntact == Spec => []EvaluatedDataIntact
  <1>1. Init => EvaluatedDataIntact
    BY DEF Init, MeasurementsInit, EvaluatedDataIntact
  <1>2. TypeOK /\ EvaluatedDataIntact /\ [Next]_vars => EvaluatedDataIntact'
    <2> SUFFICES ASSUME TypeOK, EvaluatedDataIntact, [Next]_vars
                 PROVE  EvaluatedDataIntact'
      OBVIOUS
    <2> USE DEF EvaluatedDataIntact
    <2>1. UNCHANGED <<voids, exclusions>> \/ evaluations' = <<>>
      <3>1. ASSUME Measuring
            PROVE  UNCHANGED <<voids, exclusions>> \/ evaluations' = <<>>
        BY <3>1 DEF Measuring, Measure, VoidRound, ExcludeSample, Amendable, Evaluate,
                    measurements
      <3>2. ASSUME Remediating
            PROVE  UNCHANGED <<voids, exclusions>>
        BY <3>2 DEF Remediating, AddPlans, AddRemediationEvidence,
                    AddRemediationDependencies, RetestAttempt, Remediate, measurements
      <3>3. ASSUME Reviewing
            PROVE  UNCHANGED <<voids, exclusions>>
        BY <3>3 DEF Reviewing, ClaimReview, ReleaseReviewClaim, ClaimExpires, Approve,
                    Reject, ResolveReviewFindings, RetestFindings, ArchiveWithToken,
                    remediation, measurements
      <3> QED
        BY <3>1, <3>2, <3>3 DEF Next, vars, remediation, measurements
    <2>2. CASE evaluations' = <<>>
      BY <2>2
    <2>3. CASE UNCHANGED <<voids, exclusions>>
      <3>1. /\ DOMAIN rounds \subseteq DOMAIN rounds'
            /\ \A i \in DOMAIN rounds : rounds'[i] = rounds[i]
        BY RoundsGrow DEF vars, remediation, measurements
      <3>2. \A i \in DOMAIN Effective : i \in DOMAIN Effective' /\ Effective'[i] = Effective[i]
        BY <2>3, <3>1 DEF Effective, EffectiveRoundsWithExclusions
      <3>3. CASE UNCHANGED evaluations
        BY <3>2, <3>3
      <3>4. CASE EvaluateStep
        <4>1. DOMAIN evaluations' = DOMAIN evaluations \cup {Len(evaluations')}
          BY <3>4, EffectiveType DEF EvaluateStep, Evaluate, TypeOK, MeasurementsTypeOK
        <4>2. \A k \in DOMAIN evaluations : evaluations'[k] = evaluations[k]
          BY <3>4, EvaluateEffect DEF EvaluateStep
        <4>3. evaluations'[Len(evaluations')] = Effective
          BY <3>4, EvaluateEffect DEF EvaluateStep
        <4>4. ASSUME NEW k \in DOMAIN evaluations', NEW i \in DOMAIN evaluations'[k]
              PROVE  i \in DOMAIN Effective /\ Effective[i] = evaluations'[k][i]
          BY <4>1, <4>2, <4>3, <4>4
        <4> QED
          BY <3>2, <4>4
      <3>5. ASSUME NEW X \in SUBSET Open, RetestStep(X)
            PROVE  UNCHANGED evaluations
        BY <3>5, RetestEffect
      <3> QED
        BY <3>3, <3>4, <3>5, DeviationCases DEF vars, remediation
    <2> QED
      BY <2>1, <2>2, <2>3
  <1> QED
    BY <1>1, <1>2, TypeCorrect, PTL DEF Spec

\* Without excluded samples all of a round counts.
LEMMA NothingExcluded ==
  ASSUME NEW rs \in Seq(Round), NEW vs
  PROVE  EffectiveRoundsWithExclusions(rs, vs, {}) = EffectiveRounds(rs, vs)
  <1> SUFFICES ASSUME NEW i \in DOMAIN rs
               PROVE  Restrict(rs[i].samples, {d \in DOMAIN rs[i].samples : <<i, d>> \notin {}})
                        = rs[i].samples
    BY DEF EffectiveRoundsWithExclusions, EffectiveRounds
  <1>1. rs[i] \in Round
    OBVIOUS
  <1>2. PICK D \in SUBSET Device : rs[i].samples \in [D -> Verdict]
    BY <1>1 DEF Round, Samples
  <1>3. {d \in DOMAIN rs[i].samples : <<i, d>> \notin {}} = DOMAIN rs[i].samples
    OBVIOUS
  <1> QED
    BY <1>2, <1>3 DEF Restrict

\* As long as nothing is excluded, MEASURED says exactly that the plan's
\* rounds are complete, after every round, void and evaluation
\* (MeasureIdem, VoidRound, MeasurementPlanCompliance).
THEOREM MeasuredMeansComplete == Spec => []MeasuredWhenComplete
  <1>1. Init => MeasuredWhenComplete
    <2> SUFFICES ASSUME Init PROVE ~Complete(Effective)
      BY DEF Init, MeasurementsInit, MeasuredWhenComplete
    <2>1. DOMAIN Effective = {}
      BY DEF Init, MeasurementsInit, Effective, EffectiveRoundsWithExclusions
    <2>2. ASSUME NEW d \in Device
          PROVE  Cardinality(Observations(Effective, d)) = 0
      BY <2>1, FS_EmptySet DEF Observations
    <2> QED
      BY <2>2, MeasurementsAssumption DEF Complete
  <1>2. TypeOK /\ MeasuredWhenComplete /\ [Next]_vars => MeasuredWhenComplete'
    <2> SUFFICES ASSUME TypeOK, MeasuredWhenComplete, [Next]_vars,
                        exclusions' = {}, state' \in {"REFERENCE_VERIFIED", "MEASURED"}
                 PROVE  state' = "MEASURED" <=> Complete(Effective)'
      BY DEF MeasuredWhenComplete
    <2>1. ASSUME UNCHANGED <<state, rounds, voids, exclusions>>
          PROVE  state' = "MEASURED" <=> Complete(Effective)'
      <3>1. Effective' = Effective
        BY <2>1 DEF Effective
      <3>2. Complete(Effective)' = Complete(Effective)
        BY <3>1 DEF Complete, Observations
      <3> QED
        BY <2>1, <3>2 DEF MeasuredWhenComplete
    <2>2. ASSUME state' = StateAfter(Effective')
          PROVE  state' = "MEASURED" <=> Complete(Effective)'
      BY <2>2 DEF StateAfter, Complete, Observations
    <2>3. ASSUME NEW p \in Person, NEW samples \in Samples, Measure(p, samples)
          PROVE  state' = StateAfter(Effective')
      BY <2>3 DEF Measure, Effective
    <2>4. ASSUME NEW i \in DOMAIN rounds, VoidRound(i)
          PROVE  state' = StateAfter(Effective')
      <3>1. UNCHANGED rounds /\ state' = StateAfter(EffectiveRounds(rounds, voids'))
        BY <2>4 DEF VoidRound
      <3>2. Effective' = EffectiveRounds(rounds, voids')
        BY <3>1, NothingExcluded DEF Effective, TypeOK, MeasurementsTypeOK
      <3> QED
        BY <3>1, <3>2
    <2>5. ASSUME NEW i, NEW d, ExcludeSample(i, d)
          PROVE  FALSE
      BY <2>5 DEF ExcludeSample
    <2>6. ASSUME Evaluate
          PROVE  UNCHANGED <<state, rounds, voids, exclusions>>
      BY <2>6 DEF Evaluate, StateEvaluated, measurements
    <2>7. CASE Measuring
      BY <2>1, <2>2, <2>3, <2>4, <2>5, <2>6, <2>7 DEF Measuring
    <2>8. CASE Remediating
      BY <2>8 DEF Remediating, AddPlans, AddRemediationEvidence,
                  AddRemediationDependencies, RetestAttempt, Remediate, StateRemediated
    <2>9. CASE Reviewing
      BY <2>1, <2>9 DEF Reviewing, ClaimReview, ReleaseReviewClaim, ClaimExpires, Approve,
                        Reject, ResolveReviewFindings, RetestFindings, ArchiveWithToken,
                        remediation, measurements
    <2>10. CASE UNCHANGED vars
      BY <2>1, <2>10 DEF vars, remediation, measurements
    <2> QED
      BY <2>7, <2>8, <2>9, <2>10 DEF Next
  <1> QED
    BY <1>1, <1>2, TypeCorrect, PTL DEF Spec
-----------------------------------------------------------------------------
(* Remediation *)

\* Reviews of findings were made before now; attempts cite stored rounds.
Recorded ==
  /\ \A f \in findings : f.review <= Len(reviews)
  /\ \A x \in DOMAIN deviations : deviations[x].attempts \subseteq DOMAIN rounds

\* A finding's review is on record, and an attempt's round is.
LEMMA RecordedAlways == Spec => []Recorded
  <1>1. Init => Recorded
    BY DEF Init, MeasurementsInit, Recorded
  <1>2. TypeOK /\ Recorded /\ [Next]_vars => Recorded'
    <2> SUFFICES ASSUME TypeOK, Recorded, [Next]_vars
                 PROVE  Recorded'
      OBVIOUS
    <2>1. \A f \in findings' : f.review <= Len(reviews')
      <3>1. CASE UNCHANGED <<reviews, findings>>
        BY <3>1 DEF Recorded
      <3>2. \A f \in findings : f.review \in Nat
        BY DEF TypeOK, Finding
      <3>3. ASSUME NEW p \in Person, Approve(p)
            PROVE  UNCHANGED findings /\ Len(reviews') = Len(reviews) + 1
        BY <3>3 DEF Approve, TypeOK
      <3>4. ASSUME NEW p \in Person, NEW failed \in SUBSET Item, Reject(p, failed)
            PROVE  /\ Len(reviews') = Len(reviews) + 1
                   /\ \A f \in findings' : f \in findings \/ f.review = Len(reviews')
        BY <3>4 DEF Reject, TypeOK
      <3>5. Len(reviews) \in Nat
        BY DEF TypeOK
      <3>6. CASE \E p \in Person : Approve(p)
        BY <3>2, <3>3, <3>5, <3>6 DEF Recorded
      <3>7. CASE \E p \in Person, failed \in SUBSET Item : Reject(p, failed)
        BY <3>2, <3>4, <3>5, <3>7 DEF Recorded
      <3> QED
        BY <3>1, <3>6, <3>7, StepCases DEF Working, ClaimReview, ReleaseReviewClaim,
           ClaimExpires, ArchiveWithToken, vars, review
    <2>2. \A x \in DOMAIN deviations' : deviations'[x].attempts \subseteq DOMAIN rounds'
      <3>1. DOMAIN rounds \subseteq DOMAIN rounds'
        BY RoundsGrow DEF vars, remediation, measurements
      <3>2. CASE UNCHANGED deviations
        BY <3>1, <3>2 DEF Recorded
      <3>3. CASE EvaluateStep
        BY <3>1, <3>3, EvaluateEffect DEF EvaluateStep, Recorded
      <3>4. ASSUME NEW X \in SUBSET Open, RetestStep(X)
            PROVE  \A x \in DOMAIN deviations' : deviations'[x].attempts \subseteq DOMAIN rounds'
        BY <3>1, <3>4, RetestEffect DEF Recorded
      <3> QED
        BY <3>2, <3>3, <3>4, DeviationCases DEF vars, remediation
    <2> QED
      BY <2>1, <2>2 DEF Recorded
  <1> QED
    BY <1>1, <1>2, TypeCorrect, PTL DEF Spec

\* In REMEDIATION_REQUIRED there is always a deviation or a finding for the
\* commands that leave the state to work on, however evaluations, retests,
\* rejections and resolutions follow each other (BuildEvaluation,
\* RetestAttempt, ReviewIdem, ResolveReviewFindings).
THEOREM RemediationNeverIdle == Spec => []RemediationHasWork
  <1>1. Init => RemediationHasWork
    BY DEF Init, MeasurementsInit, RemediationHasWork
  <1>2. TypeOK /\ Recorded /\ RemediationHasWork /\ [Next]_vars => RemediationHasWork'
    <2> SUFFICES ASSUME TypeOK, Recorded, RemediationHasWork, [Next]_vars,
                        state' = "REMEDIATION_REQUIRED"
                 PROVE  Open' # {} \/ Unresolved' # {}
      BY DEF RemediationHasWork
    <2>1. ASSUME UNCHANGED <<state, deviations, findings, resolutions>>
          PROVE  Open' # {} \/ Unresolved' # {}
      BY <2>1 DEF RemediationHasWork, Open, Unresolved
    <2>2. CASE Measuring
      <3>1. EvaluateStep
        BY <2>2 DEF Measuring, EvaluateStep, Measure, VoidRound, ExcludeSample, StateAfter
      <3>2. CASE Failing(Effective) # {}
        BY <3>1, <3>2, EvaluateEffect DEF EvaluateStep
      <3>3. CASE Failing(Effective) = {}
        <4>1. state = "REMEDIATION_REQUIRED"
          BY <3>1, <3>3 DEF EvaluateStep, Evaluate, StateEvaluated
        <4>2. Open \subseteq Open'
          BY <3>1, EvaluateEffect DEF EvaluateStep, Open
        <4>3. Unresolved' = Unresolved
          BY <3>1 DEF EvaluateStep, review, Unresolved
        <4> QED
          BY <4>1, <4>2, <4>3 DEF RemediationHasWork
      <3> QED
        BY <3>2, <3>3
    <2>3. CASE Remediating
      <3>1. ASSUME NEW X \in SUBSET Open, RetestStep(X)
            PROVE  Open' # {}
        BY <3>1, RetestEffect
      <3>2. \/ \E X \in SUBSET Open : RetestStep(X)
            \/ UNCHANGED <<state, deviations, findings, resolutions>>
        BY <2>3 DEF Remediating, RetestStep, AddPlans, AddRemediationEvidence,
                    AddRemediationDependencies, review
      <3> QED
        BY <2>1, <3>1, <3>2
    <2>4. ASSUME NEW p \in Person, NEW failed \in SUBSET Item, Reject(p, failed)
          PROVE  Unresolved' # {}
      <3>1. PICK i \in failed : TRUE
        BY <2>4 DEF Reject
      <3> DEFINE f == [review |-> Len(reviews'), item |-> i, rounds |-> Len(rounds)]
      <3>2. f \in findings' /\ UNCHANGED resolutions
        BY <2>4 DEF Reject
      <3>3. Len(reviews') = Len(reviews) + 1 /\ Len(reviews) \in Nat
        BY <2>4 DEF Reject, TypeOK
      <3>4. f.review = Len(reviews')
        OBVIOUS
      <3> HIDE DEF f
      <3>5. f \notin findings
        BY <3>3, <3>4 DEF Recorded
      <3>6. f \notin DOMAIN resolutions
        BY <3>5 DEF TypeOK
      <3> QED
        BY <3>2, <3>6 DEF Unresolved
    <2>5. ASSUME NEW cites, ResolveReviewFindings(cites)
          PROVE  Unresolved' # {}
      BY <2>5 DEF ResolveReviewFindings
    <2>6. CASE Reviewing
      <3>1. \/ \E p \in Person, failed \in SUBSET Item : Reject(p, failed)
            \/ \E cites : ResolveReviewFindings(cites)
            \/ UNCHANGED <<state, deviations, findings, resolutions>>
        BY <2>6 DEF Reviewing, ClaimReview, ReleaseReviewClaim, ClaimExpires, Approve,
                    RetestFindings, ArchiveWithToken, remediation, review
      <3> QED
        BY <2>1, <2>4, <2>5, <3>1
    <2>7. CASE UNCHANGED vars
      BY <2>1, <2>7 DEF vars, remediation, review
    <2> QED
      BY <2>2, <2>3, <2>6, <2>7 DEF Next
  <1> QED
    BY <1>1, <1>2, TypeCorrect, RecordedAlways, PTL DEF Spec

\* How a step can change the ledger: plans are for open deviations only,
\* evidence and dependencies are only added, the latter acyclic and for open
\* deviations.
LEMMA LedgerCases ==
  ASSUME TypeOK, Next
  PROVE  \/ UNCHANGED ledger
         \/ /\ UNCHANGED deviations
            /\ \A x \in DOMAIN deviations \ Open : Latest(x)' = Latest(x)
            /\ evidence \subseteq evidence' /\ prerequisites \subseteq prerequisites'
            /\ \A e \in prerequisites' \ prerequisites : e[1] \in Open
            /\ Acyclic(prerequisites) => Acyclic(prerequisites')
  <1> DEFINE Grows ==
        /\ UNCHANGED deviations
        /\ \A x \in DOMAIN deviations \ Open : Latest(x)' = Latest(x)
        /\ evidence \subseteq evidence' /\ prerequisites \subseteq prerequisites'
        /\ \A e \in prerequisites' \ prerequisites : e[1] \in Open
        /\ Acyclic(prerequisites) => Acyclic(prerequisites')
  <1>1. ASSUME NEW X \in SUBSET Open, AddPlans(X)
        PROVE  Grows
    <2>1. UNCHANGED <<deviations, evidence, prerequisites>>
      BY <1>1 DEF AddPlans
    <2>2. ASSUME NEW x \in DOMAIN deviations \ Open
          PROVE  Latest(x)' = Latest(x)
      BY <1>1 DEF AddPlans, Latest
    <2> QED
      BY <2>1, <2>2
  <1>2. ASSUME NEW x, NEW version, NEW type, AddRemediationEvidence(x, version, type)
        PROVE  Grows
    BY <1>2 DEF AddRemediationEvidence, Latest
  <1>3. ASSUME NEW edges, AddRemediationDependencies(edges)
        PROVE  Grows
    BY <1>3 DEF AddRemediationDependencies, Acceptable, Latest
  <1>4. ASSUME Measuring
        PROVE  UNCHANGED ledger
    BY <1>4 DEF Measuring
  <1>5. ASSUME Reviewing
        PROVE  UNCHANGED ledger
    BY <1>5 DEF Reviewing, ClaimReview, ReleaseReviewClaim, ClaimExpires, Approve, Reject,
                ResolveReviewFindings, RetestFindings, ArchiveWithToken, remediation
  <1>6. ASSUME NEW X, RetestStep(X)
        PROVE  UNCHANGED ledger
    BY <1>6 DEF RetestStep, RetestAttempt, Remediate
  <1> QED
    BY <1>1, <1>2, <1>3, <1>4, <1>5, <1>6 DEF Next, Remediating, RetestStep

\* The dependencies never close a circle, in whatever batches and orders they
\* are registered (Service.AddRemediationDependencies): of the deviations that
\* are open one is blocked by none.
THEOREM NeverAllBlocked == Spec => []SomethingActionable
  <1>1. Init => Acyclic(prerequisites)
    <2>1. Init => prerequisites = {}
      BY DEF Init, RemediationsInit
    <2>2. ASSUME prerequisites = {}
          PROVE  (SUBSET {e[1] : e \in prerequisites}) \ {{}} = {}
      <3>1. {e[1] : e \in prerequisites} = {}
        BY <2>2
      <3> QED
        BY <3>1
    <2> QED
      BY <2>1, <2>2 DEF Acyclic
  <1>2. TypeOK /\ Acyclic(prerequisites) /\ [Next]_vars => Acyclic(prerequisites)'
    BY LedgerCases DEF vars, ledger, remediation, Acyclic
  <1>3. Acyclic(prerequisites) => SomethingActionable
    <2> SUFFICES ASSUME Acyclic(prerequisites), Open # {},
                        \A x \in Open : \E y \in Open : <<x, y>> \in prerequisites
                 PROVE  FALSE
      BY DEF SomethingActionable
    <2>1. ASSUME NEW x \in Open
          PROVE  x \in {e[1] : e \in prerequisites}
      <3>1. PICK y \in Open : <<x, y>> \in prerequisites
        OBVIOUS
      <3>2. <<x, y>>[1] = x
        OBVIOUS
      <3> QED
        BY <3>1, <3>2
    <2> QED
      BY <2>1 DEF Acyclic
  <1> QED
    BY <1>1, <1>2, <1>3, TypeCorrect, PTL DEF Spec

\* A deviation closed by a round it was tried with was closed by
\* retest-attempts, which demands the evidence and asks for what blocks it;
\* remediate closes by a round that no attempt has on record.
LEMMA ClosedByAttempt ==
  ASSUME TypeOK, Recorded, NEW X \in SUBSET Open, RetestStep(X), NEW x \in X,
         deviations'[x].status = "CLOSED",
         deviations'[x].retest \in deviations'[x].attempts
  PROVE  FullyEvidenced(x) /\ Blocking(x) = {}
  <1>1. PICK p \in Person, samples \in Samples, captured \in Captured :
          RetestAttempt(X, p, samples, captured) \/ Remediate(X, p, samples, captured)
    BY DEF RetestStep
  <1>2. x \in DOMAIN deviations
    BY DEF Open
  <1>3. CASE Remediate(X, p, samples, captured)
    <2>1. deviations'[x] = [deviations[x] EXCEPT !.status = "CLOSED", !.retest = Len(rounds')]
      BY <1>2, <1>3 DEF Remediate
    <2>2. deviations[x] \in Case
      BY <1>2 DEF TypeOK, MeasurementsTypeOK
    <2>3. deviations'[x].attempts = deviations[x].attempts
      BY <2>1, <2>2 DEF Case
    <2>4. deviations'[x].retest = Len(rounds') /\ Len(rounds') \notin DOMAIN rounds
      BY RetestEffect
    <2> QED
      BY <1>2, <2>3, <2>4 DEF Recorded
  <1>4. CASE RetestAttempt(X, p, samples, captured)
    BY <1>4 DEF RetestAttempt
  <1> QED
    BY <1>1, <1>3, <1>4

\* What retest-attempts closed has the evidence its latest plan demands: a
\* newer plan cannot be added to it, and evidence is never taken back
\* (Service.AddPlans, Service.AddRemediationEvidence, RetestAttempt).
THEOREM ClosedIsEvidenced == Spec => []EvidencedWhenClosed
  <1>1. Init => EvidencedWhenClosed
    BY DEF Init, MeasurementsInit, EvidencedWhenClosed
  <1>2. TypeOK /\ Recorded /\ EvidencedWhenClosed /\ [Next]_vars => EvidencedWhenClosed'
    <2> SUFFICES ASSUME TypeOK, Recorded, EvidencedWhenClosed, [Next]_vars,
                        NEW x \in DOMAIN deviations', deviations'[x].status = "CLOSED",
                        deviations'[x].retest \in deviations'[x].attempts
                 PROVE  FullyEvidenced(x)'
      BY DEF EvidencedWhenClosed, FullyEvidenced
    <2>1. x \in DOMAIN deviations /\ deviations'[x] = deviations[x] => FullyEvidenced(x)
      BY DEF EvidencedWhenClosed, FullyEvidenced
    <2>2. UNCHANGED ledger => FullyEvidenced(x)' = FullyEvidenced(x)
      BY DEF ledger, FullyEvidenced, Latest
    <2>3. CASE EvaluateStep
      BY <2>1, <2>2, <2>3, EvaluateEffect DEF EvaluateStep
    <2>4. ASSUME NEW X \in SUBSET Open, RetestStep(X)
          PROVE  FullyEvidenced(x)'
      <3>1. x \in X => FullyEvidenced(x)
        BY <2>4, ClosedByAttempt
      <3> QED
        BY <2>1, <2>2, <2>4, <3>1, RetestEffect
    <2>5. CASE UNCHANGED <<evaluations, deviations>>
      <3>1. x \in DOMAIN deviations \ Open /\ FullyEvidenced(x)
        BY <2>1, <2>5 DEF Open
      <3>2. \/ UNCHANGED ledger
            \/ Latest(x)' = Latest(x) /\ evidence \subseteq evidence'
        BY <3>1, LedgerCases DEF vars, remediation
      <3> QED
        BY <2>2, <3>1, <3>2 DEF FullyEvidenced
    <2> QED
      BY <2>3, <2>4, <2>5, DeviationCases DEF vars, remediation
  <1> QED
    BY <1>1, <1>2, TypeCorrect, RecordedAlways, PTL DEF Spec

\* What retest-attempts closed was closed after its prerequisites, and no
\* prerequisite is added, or opens again, behind it
\* (BuildDependencyProjection, Service.AddRemediationDependencies).
THEOREM ClosedInOrder == Spec => []PrerequisitesFirst
  <1>1. Init => PrerequisitesFirst
    BY DEF Init, RemediationsInit, PrerequisitesFirst
  <1>2. TypeOK /\ Recorded /\ PrerequisitesFirst /\ [Next]_vars => PrerequisitesFirst'
    <2> SUFFICES ASSUME TypeOK, Recorded, PrerequisitesFirst, [Next]_vars,
                        NEW e \in prerequisites', deviations'[e[1]].status = "CLOSED",
                        deviations'[e[1]].retest \in deviations'[e[1]].attempts
                 PROVE  deviations'[e[2]].status = "CLOSED"
      BY DEF PrerequisitesFirst
    <2>1. e \in prerequisites =>
            /\ e = <<e[1], e[2]>>
            /\ e[1] \in DOMAIN deviations /\ e[2] \in DOMAIN deviations
      BY DEF TypeOK, RemediationsTypeOK
    <2>2. ASSUME e \in prerequisites, deviations'[e[1]] = deviations[e[1]]
          PROVE  deviations[e[2]].status = "CLOSED"
      BY <2>2 DEF PrerequisitesFirst
    <2>3. CASE EvaluateStep
      <3>1. e \in prerequisites
        BY <2>3 DEF EvaluateStep, ledger
      <3> QED
        BY <2>1, <2>2, <2>3, <3>1, EvaluateEffect DEF EvaluateStep
    <2>4. ASSUME NEW X \in SUBSET Open, RetestStep(X)
          PROVE  deviations'[e[2]].status = "CLOSED"
      <3>1. e \in prerequisites
        BY <2>4, RetestEffect DEF ledger
      <3>2. deviations[e[2]].status = "CLOSED"
        <4>1. CASE e[1] \notin X
          BY <2>1, <2>2, <2>4, <3>1, <4>1, RetestEffect
        <4>2. CASE e[1] \in X
          <5>1. e[2] \notin Open
            BY <2>1, <2>4, <3>1, <4>2, ClosedByAttempt DEF Blocking
          <5>2. deviations[e[2]] \in Case
            BY <2>1, <3>1 DEF TypeOK, MeasurementsTypeOK
          <5> QED
            BY <2>1, <3>1, <5>1, <5>2 DEF Open, Case
        <4> QED
          BY <4>1, <4>2
      <3>3. e[2] \notin X
        BY <3>2 DEF Open
      <3> QED
        BY <2>1, <2>4, <3>1, <3>2, <3>3, RetestEffect
    <2>5. CASE UNCHANGED <<evaluations, deviations>>
      <3>1. e[1] \notin Open
        BY <2>5 DEF Open
      <3>2. e \in prerequisites
        BY <3>1, LedgerCases DEF vars, remediation, ledger
      <3> QED
        BY <2>2, <2>5, <3>2
    <2> QED
      BY <2>3, <2>4, <2>5, DeviationCases DEF vars, remediation
  <1> QED
    BY <1>1, <1>2, TypeCorrect, RecordedAlways, PTL DEF Spec
-----------------------------------------------------------------------------
(* The record *)

\* Later has all that Earlier has, unaltered.
Extends(Earlier, Later) ==
  DOMAIN Earlier \subseteq DOMAIN Later /\ \A i \in DOMAIN Earlier : Later[i] = Earlier[i]

\* Deviations stay on record with their attempts, and those closed as they are.
DeviationsKept ==
  \A x \in DOMAIN deviations :
    /\ x \in DOMAIN deviations'
    /\ deviations[x].attempts \subseteq deviations'[x].attempts
    /\ deviations[x].status = "CLOSED" => deviations'[x] = deviations[x]

\* So do plans, which only get later versions while the deviation is open.
LedgerKept ==
  /\ evidence \subseteq evidence' /\ prerequisites \subseteq prerequisites'
  /\ \A x \in DOMAIN plans :
       /\ x \in DOMAIN plans' /\ plans[x] <= plans'[x]
       /\ x \notin Open => plans'[x] = plans[x]

\* Nothing that was recorded is altered or removed: what takes a round or a
\* sample out of force, or closes a deviation or a finding, is on record too.
RecordKept ==
  /\ Extends(rounds, rounds') /\ voids \subseteq voids' /\ exclusions \subseteq exclusions'
  /\ Extends(evaluations, evaluations') /\ DeviationsKept /\ LedgerKept
  /\ Extends(reviews, reviews') /\ findings \subseteq findings'
  /\ Extends(resolutions, resolutions')

\* Commands that are for no deviation leave them alone; a retest adds to those
\* that it is for.
LEMMA DeviationsStay ==
  ASSUME TypeOK, Next
  PROVE  DeviationsKept /\ Extends(evaluations, evaluations')
  <1>1. ASSUME EvaluateStep
        PROVE  DeviationsKept /\ Extends(evaluations, evaluations')
    <2>1. Evaluate
      BY <1>1 DEF EvaluateStep
    <2>2. DOMAIN evaluations \subseteq DOMAIN evaluations'
      BY <2>1, EvaluateEffect, EffectiveType DEF Evaluate, TypeOK, MeasurementsTypeOK
    <2> QED
      BY <2>1, <2>2, EvaluateEffect DEF DeviationsKept, Extends
  <1>2. ASSUME NEW X \in SUBSET Open, RetestStep(X)
        PROVE  DeviationsKept /\ Extends(evaluations, evaluations')
    <2>1. ASSUME NEW x \in X
          PROVE  /\ x \in DOMAIN deviations /\ deviations[x].status = "OPEN"
                 /\ deviations[x].attempts \subseteq deviations'[x].attempts
      <3>1. x \in DOMAIN deviations /\ deviations[x].status = "OPEN" /\ deviations[x] \in Case
        BY <2>1 DEF Open, TypeOK, MeasurementsTypeOK
      <3>2. PICK p \in Person, samples \in Samples, captured \in Captured :
              RetestAttempt(X, p, samples, captured) \/ Remediate(X, p, samples, captured)
        BY <1>2 DEF RetestStep
      <3>3. CASE Remediate(X, p, samples, captured)
        <4>1. deviations'[x] = [deviations[x] EXCEPT !.status = "CLOSED", !.retest = Len(rounds')]
          BY <3>1, <3>3 DEF Remediate
        <4> QED
          BY <3>1, <4>1 DEF Case
      <3>4. CASE RetestAttempt(X, p, samples, captured)
        <4> DEFINE tried == [deviations[x] EXCEPT !.attempts = @ \cup {Len(rounds')}]
        <4>1. deviations'[x] = IF PassesRetest(samples, x)
                               THEN [tried EXCEPT !.status = "CLOSED", !.retest = Len(rounds')]
                               ELSE tried
          BY <3>1, <3>4 DEF RetestAttempt
        <4> QED
          BY <3>1, <4>1 DEF Case
      <3> QED
        BY <3>1, <3>2, <3>3, <3>4
    <2>2. /\ DOMAIN deviations' = DOMAIN deviations /\ UNCHANGED evaluations
          /\ \A x \in DOMAIN deviations \ X : deviations'[x] = deviations[x]
      BY <1>2, RetestEffect
    <2> QED
      BY <2>1, <2>2 DEF DeviationsKept, Extends
  <1>3. ASSUME UNCHANGED <<evaluations, deviations>>
        PROVE  DeviationsKept /\ Extends(evaluations, evaluations')
    BY <1>3 DEF DeviationsKept, Extends
  <1> QED
    BY <1>1, <1>2, <1>3, DeviationCases

\* The ledger is only written by the three commands that are for it.
LEMMA LedgerStays ==
  ASSUME TypeOK, Next
  PROVE  LedgerKept
  <1>0. \A x \in DOMAIN plans : plans[x] \in Nat
    BY RemediationsAssumption DEF TypeOK, RemediationsTypeOK
  <1>1. ASSUME NEW X \in SUBSET Open, AddPlans(X)
        PROVE  LedgerKept
    BY <1>0, <1>1 DEF AddPlans, LedgerKept, Latest
  <1>2. ASSUME NEW x, NEW version, NEW type, AddRemediationEvidence(x, version, type)
        PROVE  LedgerKept
    BY <1>0, <1>2 DEF AddRemediationEvidence, LedgerKept
  <1>3. ASSUME NEW edges, AddRemediationDependencies(edges)
        PROVE  LedgerKept
    BY <1>0, <1>3 DEF AddRemediationDependencies, LedgerKept
  <1>4. ASSUME UNCHANGED ledger
        PROVE  LedgerKept
    BY <1>0, <1>4 DEF ledger, LedgerKept
  <1>5. ASSUME Measuring
        PROVE  UNCHANGED ledger
    BY <1>5 DEF Measuring
  <1>6. ASSUME Reviewing
        PROVE  UNCHANGED ledger
    BY <1>6 DEF Reviewing, ClaimReview, ReleaseReviewClaim, ClaimExpires, Approve, Reject,
                ResolveReviewFindings, RetestFindings, ArchiveWithToken, remediation
  <1>7. ASSUME NEW X, NEW p, NEW samples, NEW captured,
               RetestAttempt(X, p, samples, captured) \/ Remediate(X, p, samples, captured)
        PROVE  UNCHANGED ledger
    BY <1>7 DEF RetestAttempt, Remediate
  <1> QED
    BY <1>1, <1>2, <1>3, <1>4, <1>5, <1>6, <1>7 DEF Next, Remediating

\* Voids and exclusions are not taken back.
LEMMA AmendmentsStay ==
  ASSUME Next
  PROVE  voids \subseteq voids' /\ exclusions \subseteq exclusions'
  <1>1. ASSUME Measuring
        PROVE  voids \subseteq voids' /\ exclusions \subseteq exclusions'
    BY <1>1 DEF Measuring, Measure, VoidRound, ExcludeSample, Evaluate, measurements
  <1>2. ASSUME Remediating
        PROVE  voids \subseteq voids' /\ exclusions \subseteq exclusions'
    BY <1>2 DEF Remediating, AddPlans, AddRemediationEvidence, AddRemediationDependencies,
                RetestAttempt, Remediate, measurements
  <1>3. ASSUME Reviewing
        PROVE  voids \subseteq voids' /\ exclusions \subseteq exclusions'
    BY <1>3 DEF Reviewing, ClaimReview, ReleaseReviewClaim, ClaimExpires, Approve, Reject,
                ResolveReviewFindings, RetestFindings, ArchiveWithToken, remediation, measurements
  <1> QED
    BY <1>1, <1>2, <1>3 DEF Next

\* Neither are reviews, findings and their resolutions; a finding is resolved
\* once.
LEMMA ReviewsStay ==
  ASSUME TypeOK, Next
  PROVE  /\ Extends(reviews, reviews') /\ findings \subseteq findings'
         /\ Extends(resolutions, resolutions')
  <1> USE DEF Extends
  <1>1. CASE UNCHANGED <<reviews, findings, resolutions>>
    BY <1>1
  <1>2. ASSUME NEW p \in Person, Approve(p) \/ \E failed \in SUBSET Item : Reject(p, failed)
        PROVE  /\ Extends(reviews, reviews') /\ findings \subseteq findings'
               /\ Extends(resolutions, resolutions')
    BY <1>2 DEF Approve, Reject, TypeOK
  <1>3. ASSUME NEW cites, ResolveReviewFindings(cites)
        PROVE  /\ Extends(reviews, reviews') /\ findings \subseteq findings'
               /\ Extends(resolutions, resolutions')
    <2>1. \A f \in DOMAIN resolutions : f \notin DOMAIN cites
      BY <1>3 DEF ResolveReviewFindings, Unresolved
    <2> QED
      BY <1>3, <2>1 DEF ResolveReviewFindings
  <1>4. ASSUME Measuring \/ Remediating
        PROVE  UNCHANGED <<reviews, findings, resolutions>>
    BY <1>4 DEF Measuring, Remediating, review
  <1> QED
    BY <1>1, <1>2, <1>3, <1>4 DEF Next, Reviewing, ClaimReview, ReleaseReviewClaim,
         ClaimExpires, RetestFindings, ArchiveWithToken, review

\* No command of any endpoint rewrites or removes what another has recorded:
\* corrections are records of their own, a deviation that is closed is not
\* opened again, and a finding is resolved only once (VoidRound, ExcludeSample,
\* RetestAttempt, RemediateDetailed, ReviewIdem, ResolveReviewFindings).
THEOREM RecordIsKept == Spec => [][RecordKept]_vars
  <1>1. TypeOK /\ Next => RecordKept
    BY RoundsGrow, AmendmentsStay, DeviationsStay, LedgerStays, ReviewsStay
       DEF RecordKept, Extends
  <1> QED
    BY <1>1, TypeCorrect, PTL DEF Spec
-----------------------------------------------------------------------------
(* The dossier *)

\* The phase each state stands for, before and after a step.
LEMMA Phases ==
  /\ state = "REVIEW_PENDING" => Phase = "REVIEW"
  /\ state = "REVIEW_APPROVED" => Phase = "SIGNED"
  /\ state = "ARCHIVED" => Phase = "ARCHIVED"
  /\ state \notin {"REVIEW_PENDING", "REVIEW_APPROVED", "ARCHIVED"} => Phase = "WORK"
  /\ state' = "REVIEW_PENDING" => Phase' = "REVIEW"
  /\ state' = "REVIEW_APPROVED" => Phase' = "SIGNED"
  /\ state' = "ARCHIVED" => Phase' = "ARCHIVED"
  /\ state' \notin {"REVIEW_PENDING", "REVIEW_APPROVED", "ARCHIVED"} => Phase' = "WORK"
  BY DEF Phase

\* Nobody's claim and nobody's signature change in the steps that measure and
\* remediate.
LEMMA WorkKeepsReview ==
  ASSUME Working
  PROVE  /\ Holder' = Holder /\ Signer' = Signer
         /\ Phase = "WORK" /\ Phase' \in {"WORK", "REVIEW"}
         /\ (Phase' = "REVIEW") = (state' = "REVIEW_PENDING")
         /\ UNCHANGED findings
  <1>1. Holder' = Holder
    BY DEF Working, Holder, Active
  <1>2. Signer' = Signer
    BY DEF Working, Signer
  <1>3. Phase = "WORK" /\ Phase' = IF state' = "REVIEW_PENDING" THEN "REVIEW" ELSE "WORK"
    BY Phases DEF Working
  <1> QED
    BY <1>1, <1>2, <1>3 DEF Working

\* Nor do what was raised, remedied, objected to and answered, when the
\* records of it do not change.
LEMMA RecordsOfDossier ==
  /\ UNCHANGED deviations => UNCHANGED <<DOMAIN deviations, DOMAIN deviations \ Open>>
  /\ UNCHANGED rounds => UNCHANGED Operators
  /\ DOMAIN deviations \ (DOMAIN deviations \ Open) = Open
  /\ findings \ DOMAIN resolutions = Unresolved
  BY DEF Open, Operators, Unresolved

\* Whoever measured a round that is stored has taken part from then on.
LEMMA OperatorJoins ==
  ASSUME TypeOK, NEW round \in Round, StoreRound(round)
  PROVE  Operators' = Operators \cup {round.operator}
  <1>1. /\ DOMAIN rounds' = DOMAIN rounds \cup {Len(rounds')}
        /\ rounds'[Len(rounds')] = round
        /\ \A i \in DOMAIN rounds : rounds'[i] = rounds[i]
    BY StoreRoundType
  <1> QED
    BY <1>1 DEF Operators

\* An original round, and a retest for findings, are captures.
LEMMA CaptureStep ==
  ASSUME TypeOK, Working, NEW round \in Round, StoreRound(round), Phase' = "WORK",
         UNCHANGED <<deviations, resolutions>>
  PROVE  Promised!Capture(round.operator)
  <1>1. Operators' = Operators \cup {round.operator}
    BY OperatorJoins
  <1> QED
    BY <1>1, WorkKeepsReview, RecordsOfDossier
       DEF Promised!Capture, Promised!objections

\* What a retest does to the deviations it is for, with one round of p.
LEMMA RemedyStep ==
  ASSUME TypeOK, NEW X \in SUBSET Open, NEW p \in Person, NEW samples \in Samples,
         NEW captured \in Captured,
         RetestAttempt(X, p, samples, captured) \/ Remediate(X, p, samples, captured),
         Working, UNCHANGED review
  PROVE  \/ Promised!Capture(p)
         \/ \E done \in SUBSET Open : Promised!Remedy(p, done)
  <1> DEFINE round == [operator |-> p, purpose |-> "retest",
                       samples |-> samples, captured |-> captured]
             done == Open \ Open'
  <1>1. round \in Round /\ StoreRound(round) /\ round.operator = p
    BY LifecycleAssumption DEF Round, RetestAttempt, Remediate
  <1> HIDE DEF round
  <1>2. Operators' = Operators \cup {p}
    BY <1>1, OperatorJoins
  <1>3. RetestStep(X)
    BY DEF RetestStep
  <1>4. /\ DOMAIN deviations' = DOMAIN deviations
        /\ \A x \in DOMAIN deviations \ X : deviations'[x] = deviations[x]
    BY <1>3, RetestEffect
  <1>5. Open' \subseteq Open
    BY <1>4 DEF Open
  <1>6. state' = IF Open' # {} THEN "REMEDIATION_REQUIRED" ELSE "REVIEW_PENDING"
    <2>1. state' = StateRemediated(deviations')
      BY DEF RetestAttempt, Remediate
    <2> QED
      BY <2>1 DEF StateRemediated, Open
  <1>7. Phase = "WORK" /\ Phase' = IF Open' # {} THEN "WORK" ELSE "REVIEW"
    BY <1>6, Phases, WorkKeepsReview
  <1>8. Open # {}
    BY DEF RetestAttempt, Remediate
  <1>9. UNCHANGED <<DOMAIN deviations, findings, DOMAIN resolutions, Holder, Signer>>
    BY <1>4, WorkKeepsReview DEF review
  <1>10. CASE Open' = Open
    <2>1. Phase' = "WORK" /\ UNCHANGED (DOMAIN deviations \ Open)
      BY <1>4, <1>7, <1>8, <1>10
    <2> QED
      BY <1>2, <1>7, <1>9, <2>1 DEF Promised!Capture, Promised!objections
  <1>11. CASE Open' # Open
    <2>1. done # {} /\ done \subseteq Open
      BY <1>5, <1>11
    <2>2. (DOMAIN deviations \ Open)' = (DOMAIN deviations \ Open) \cup done
      BY <1>4, <1>5 DEF Open
    <2>3. (done = Open) <=> (Open' = {})
      BY <1>5
    <2> HIDE DEF done
    <2>4. Promised!Remedy(p, done)
      BY <1>2, <1>7, <1>9, <2>1, <2>2, <2>3, RecordsOfDossier
         DEF Promised!Remedy, Promised!objections
    <2> QED
      BY <2>1, <2>4
  <1> QED
    BY <1>10, <1>11

\* An evaluation leads to the review only when it raises nothing.
LEMMA EvaluationStep ==
  ASSUME TypeOK, Working, Evaluate, UNCHANGED review
  PROVE  Promised!Evaluate
  <1>1. /\ DOMAIN deviations \subseteq DOMAIN deviations'
        /\ \A x \in DOMAIN deviations : deviations'[x] = deviations[x]
        /\ \A x \in DOMAIN deviations' \ DOMAIN deviations :
             deviations'[x] = [status |-> "OPEN", attempts |-> {}, retest |-> 0]
    BY EvaluateEffect
  <1>2. UNCHANGED (DOMAIN deviations \ Open)
    BY <1>1 DEF Open
  <1>3. UNCHANGED Operators
    BY DEF Evaluate, measurements, Operators
  <1>4. DOMAIN deviations' # DOMAIN deviations => state' = "REMEDIATION_REQUIRED"
    <2>1. ASSUME Failing(Effective) = {}
          PROVE  DOMAIN deviations' = DOMAIN deviations
      BY <2>1 DEF Evaluate
    <2>2. Failing(Effective) # {} => state' = "REMEDIATION_REQUIRED"
      BY DEF Evaluate, StateEvaluated
    <2> QED
      BY <2>1, <2>2
  <1>5. DOMAIN deviations' # DOMAIN deviations => Phase' = "WORK"
    BY <1>4, Phases
  <1>6. UNCHANGED <<findings, DOMAIN resolutions>>
    BY DEF review
  <1> QED
    BY <1>1, <1>2, <1>3, <1>5, <1>6, WorkKeepsReview
       DEF Promised!Evaluate, Promised!objections

\* Answers lead to the review when none is left to give.
LEMMA AnswerStep ==
  ASSUME TypeOK, Working, NEW cites, ResolveReviewFindings(cites)
  PROVE  \E done \in SUBSET Unresolved : Promised!Answer(done)
  <1>1. /\ DOMAIN cites # {} /\ DOMAIN cites \subseteq Unresolved
        /\ UNCHANGED <<deviations, rounds, findings>>
        /\ DOMAIN resolutions' = DOMAIN resolutions \cup DOMAIN cites
        /\ state' = IF Unresolved' = {} THEN "REVIEW_PENDING" ELSE state
    BY DEF ResolveReviewFindings, remediation, measurements
  <1>2. Unresolved' = Unresolved \ DOMAIN cites
    BY <1>1 DEF Unresolved
  <1>3. (DOMAIN cites = Unresolved) <=> (Unresolved' = {})
    BY <1>1, <1>2
  <1>4. Phase = "WORK"
        /\ Phase' = IF DOMAIN cites = Unresolved THEN "REVIEW" ELSE "WORK"
    BY <1>1, <1>3, Phases DEF Working
  <1>5. Promised!Answer(DOMAIN cites)
    BY <1>1, <1>4, WorkKeepsReview, RecordsOfDossier DEF Promised!Answer, Promised!work
  <1> QED
    BY <1>1, <1>5

\* The steps of Working are steps of the dossier's work, or leave it as it is.
LEMMA WorkingStep ==
  ASSUME TypeOK, Next, Working
  PROVE  Promised!Next \/ UNCHANGED Promised!dossier
  <1> USE DEF Promised!Next
  <1>1. ASSUME NEW p \in Person, NEW samples \in Samples, Measure(p, samples), UNCHANGED review
        PROVE  Promised!Next
    <2> DEFINE round == [operator |-> p, purpose |-> "original",
                         samples |-> samples, captured |-> "now"]
    <2>1. round \in Round /\ StoreRound(round) /\ round.operator = p
      BY <1>1 DEF Round, Measure
    <2>2. Phase' = "WORK"
      BY <1>1, Phases DEF Measure, StateAfter
    <2>3. UNCHANGED <<deviations, resolutions>>
      BY <1>1 DEF Measure, review
    <2> HIDE DEF round
    <2> QED
      BY <2>1, <2>2, <2>3, CaptureStep
  <1>2. ASSUME NEW p \in Person, NEW samples \in Samples, NEW captured \in Captured,
               RetestFindings(p, samples, captured)
        PROVE  Promised!Next
    <2> DEFINE round == [operator |-> p, purpose |-> "retest",
                         samples |-> samples, captured |-> captured]
    <2>1. round \in Round /\ StoreRound(round) /\ round.operator = p
      BY <1>2, LifecycleAssumption DEF Round, RetestFindings
    <2>2. Phase' = "WORK"
      BY <1>2, Phases DEF RetestFindings
    <2>3. UNCHANGED <<deviations, resolutions>>
      BY <1>2 DEF RetestFindings, review
    <2> HIDE DEF round
    <2> QED
      BY <2>1, <2>2, <2>3, CaptureStep
  <1>3. ASSUME Evaluate, UNCHANGED review
        PROVE  Promised!Next
    BY <1>3, EvaluationStep
  <1>4. ASSUME NEW X \in SUBSET Open, RetestStep(X)
        PROVE  Promised!Next
    <2>1. PICK p \in Person, samples \in Samples, captured \in Captured :
            /\ RetestAttempt(X, p, samples, captured) \/ Remediate(X, p, samples, captured)
            /\ UNCHANGED review
      BY <1>4 DEF RetestStep
    <2> QED
      BY <2>1, RemedyStep, RecordsOfDossier
  <1>5. ASSUME NEW cites, ResolveReviewFindings(cites)
        PROVE  Promised!Next
    BY <1>5, AnswerStep, RecordsOfDossier
  <1>6. ASSUME UNCHANGED <<rounds, deviations, findings, resolutions>>,
               state' # "REVIEW_PENDING"
        PROVE  UNCHANGED Promised!dossier
    <2>1. Phase' = Phase
      BY <1>6, WorkKeepsReview
    <2> QED
      BY <1>6, <2>1, WorkKeepsReview, RecordsOfDossier
         DEF Promised!dossier, Promised!work, Promised!objections
  <1>7. ASSUME Measuring
        PROVE  Promised!Next \/ UNCHANGED Promised!dossier
    <2>1. ASSUME NEW i \in DOMAIN rounds, VoidRound(i)
          PROVE  UNCHANGED Promised!dossier
      BY <1>6, <1>7, <2>1 DEF Measuring, VoidRound, StateAfter, review
    <2>2. ASSUME NEW i \in DOMAIN rounds, NEW d \in Device, ExcludeSample(i, d)
          PROVE  UNCHANGED Promised!dossier
      BY <1>6, <1>7, <2>2 DEF Measuring, ExcludeSample, StateAfter, review
    <2> QED
      BY <1>1, <1>3, <1>7, <2>1, <2>2 DEF Measuring
  <1>8. ASSUME Remediating
        PROVE  Promised!Next \/ UNCHANGED Promised!dossier
    <2>1. ASSUME NEW X \in SUBSET Open, AddPlans(X)
          PROVE  UNCHANGED Promised!dossier
      BY <1>6, <1>8, <2>1 DEF Remediating, AddPlans, measurements, review
    <2>2. ASSUME NEW x, NEW version, NEW type, AddRemediationEvidence(x, version, type)
          PROVE  UNCHANGED Promised!dossier
      BY <1>6, <1>8, <2>2 DEF Remediating, AddRemediationEvidence, measurements, review
    <2>3. ASSUME NEW edges, AddRemediationDependencies(edges)
          PROVE  UNCHANGED Promised!dossier
      BY <1>6, <1>8, <2>3 DEF Remediating, AddRemediationDependencies, measurements, review
    <2> QED
      BY <1>4, <1>8, <2>1, <2>2, <2>3 DEF Remediating, RetestStep
  <1>9. ASSUME Reviewing
        PROVE  Promised!Next \/ UNCHANGED Promised!dossier
    <2>1. ASSUME \/ \E p \in Person : ReleaseReviewClaim(p)
                 \/ ClaimExpires
          PROVE  FALSE
      <3>1. claim \in Claim /\ claim.status = "ACTIVE" /\ claim.expired = FALSE
        BY <2>1 DEF ReleaseReviewClaim, ClaimExpires, Active, TypeOK, Claim
      <3>2. claim'.status = "RELEASED" \/ claim'.expired = TRUE
        BY <2>1, <3>1 DEF ReleaseReviewClaim, ClaimExpires, Claim
      <3> QED
        BY <3>1, <3>2 DEF Working
    <2>2. /\ ~\E p \in Person : ClaimReview(p) \/ Approve(p)
          /\ ~\E p \in Person, failed \in SUBSET Item : Reject(p, failed)
          /\ ~ArchiveWithToken
      BY DEF Working, ClaimReview, Approve, Reject, Admitted, ArchiveWithToken
    <2> QED
      BY <1>2, <1>5, <1>9, <2>1, <2>2 DEF Reviewing
  <1> QED
    BY <1>7, <1>8, <1>9 DEF Next

\* A claim consumed by its review holds the review no longer.
LEMMA ConsumedHoldsNothing ==
  ASSUME TypeOK, claim' = Consumed
  PROVE  Holder' = Nil
  <1>1. Consumed # Nil => ~(Consumed.status = "ACTIVE" /\ ~Consumed.expired)
    BY DEF Consumed, Active, TypeOK, Claim
  <1> QED
    BY <1>1 DEF Holder, Active

\* Whoever the service admits to the review may sign the dossier.
LEMMA AdmittedMaySign ==
  ASSUME NEW p, Admitted(p)
  PROVE  Promised!MaySign(p) /\ Signer = Nil
  BY Phases DEF Admitted, Independent, Promised!MaySign, Holder, Signer

\* Reserving the review and giving it up.
LEMMA ClaimStep ==
  ASSUME TypeOK,
         \/ \E p \in Person : ClaimReview(p) \/ ReleaseReviewClaim(p)
         \/ ClaimExpires
  PROVE  Promised!Next
  <1>1. UNCHANGED <<state, rounds, deviations, findings, resolutions, reviews>>
    BY DEF ClaimReview, ReleaseReviewClaim, ClaimExpires, remediation, measurements
  <1>2. UNCHANGED <<Phase, Signer>>
    BY <1>1 DEF Phase, Signer
  <1>3. UNCHANGED <<Promised!work, Promised!objections>>
    BY <1>1, RecordsOfDossier DEF Promised!work, Promised!objections
  <1>4. ASSUME NEW p \in Person, ClaimReview(p)
        PROVE  Promised!Reserve(p)
    <2>1. Holder' = p
      <3>1. [reviewer |-> p, status |-> "ACTIVE", expired |-> FALSE] \in Claim
        BY DEF Claim
      <3>2. Nil \notin Claim
        BY LifecycleAssumption DEF Claim
      <3> QED
        BY <1>4, <3>1, <3>2 DEF ClaimReview, Holder, Active
    <2>2. Phase = "REVIEW" /\ p \notin Operators /\ Holder \in {p, Nil}
      BY <1>4, Phases DEF ClaimReview, Independent, Holder
    <2> QED
      BY <1>2, <1>3, <2>1, <2>2 DEF Promised!Reserve
  <1>5. ASSUME (\E p \in Person : ReleaseReviewClaim(p)) \/ ClaimExpires
        PROVE  Promised!GiveUp
    <2>1. claim \in Claim
      BY <1>5 DEF ReleaseReviewClaim, ClaimExpires, Active, TypeOK
    <2>2. claim'.status = "RELEASED" \/ claim'.expired
      BY <1>5, <2>1 DEF ReleaseReviewClaim, ClaimExpires, Claim
    <2>3. Holder' = Nil
      BY <2>2 DEF Holder, Active
    <2> QED
      BY <1>2, <1>3, <2>3 DEF Promised!GiveUp
  <1> QED
    BY <1>4, <1>5 DEF Promised!Next

\* An approval signs the dossier, in the name of whoever made it.
LEMMA ApproveStep ==
  ASSUME TypeOK, NEW p \in Person, Approve(p)
  PROVE  Promised!Next
  <1>1. /\ Admitted(p) /\ Unresolved = {} /\ claim' = Consumed
        /\ state' = "REVIEW_APPROVED"
        /\ UNCHANGED <<rounds, deviations, findings, resolutions>>
    BY DEF Approve, remediation, measurements
  <1>2. Signer' = p
    <2>1. /\ Len(reviews') = Len(reviews) + 1
          /\ reviews'[Len(reviews')] = [reviewer |-> p, approved |-> TRUE]
      BY DEF Approve, TypeOK
    <2> QED
      BY <1>1, <2>1 DEF Signer
  <1>3. Phase' = "SIGNED" /\ Holder' = Nil
    BY <1>1, Phases, ConsumedHoldsNothing
  <1>4. UNCHANGED <<Promised!work, Promised!objections>>
    BY <1>1, RecordsOfDossier DEF Promised!work, Promised!objections
  <1>5. findings \ DOMAIN resolutions = {}
    BY <1>1, RecordsOfDossier
  <1>6. Promised!Sign(p)
    BY <1>1, <1>2, <1>3, <1>4, <1>5, AdmittedMaySign DEF Promised!Sign
  <1> QED
    BY <1>6 DEF Promised!Next

\* A rejection objects to something new: its findings carry the number of a
\* review that was not on record before.
LEMMA RejectStep ==
  ASSUME TypeOK, Recorded, NEW p \in Person, NEW failed \in SUBSET Item, Reject(p, failed)
  PROVE  Promised!Next
  <1>1. /\ Admitted(p) /\ failed # {} /\ claim' = Consumed
        /\ state' = "REMEDIATION_REQUIRED"
        /\ UNCHANGED <<rounds, deviations, resolutions>>
    BY DEF Reject, remediation, measurements
  <1>2. findings \subseteq findings'
    BY DEF Reject
  <1>3. findings' # findings
    <2>1. PICK i \in failed : TRUE
      BY <1>1
    <2> DEFINE f == [review |-> Len(reviews'), item |-> i, rounds |-> Len(rounds)]
    <2>2. f \in findings' /\ f.review = Len(reviews')
      BY DEF Reject
    <2> HIDE DEF f
    <2>3. Len(reviews') = Len(reviews) + 1 /\ Len(reviews) \in Nat
      BY DEF Reject, TypeOK
    <2>4. f \notin findings
      BY <2>2, <2>3 DEF Recorded
    <2> QED
      BY <2>2, <2>4
  <1>4. Phase' = "WORK" /\ Holder' = Nil /\ Signer' = Nil
    BY <1>1, Phases, ConsumedHoldsNothing DEF Signer
  <1>5. UNCHANGED <<Promised!work, DOMAIN resolutions>>
    BY <1>1, RecordsOfDossier DEF Promised!work
  <1>6. Promised!Object(p)
    BY <1>1, <1>2, <1>3, <1>4, <1>5, AdmittedMaySign DEF Promised!Object
  <1> QED
    BY <1>6 DEF Promised!Next

\* The archive needs everything raised to be remedied: the preflight asks.
LEMMA ArchiveStep ==
  ASSUME ArchiveWithToken
  PROVE  Promised!Next
  <1>1. /\ state = "REVIEW_APPROVED" /\ state' = "ARCHIVED" /\ Open = {}
        /\ UNCHANGED <<rounds, deviations, claim, reviews, findings, resolutions>>
    BY DEF ArchiveWithToken, Preflight, remediation, review, measurements
  <1>2. UNCHANGED <<Promised!work, Promised!objections, Holder, Signer>>
    BY <1>1, RecordsOfDossier
       DEF Promised!work, Promised!objections, Holder, Signer, Active
  <1>3. Promised!Archive
    BY <1>1, <1>2, Phases, RecordsOfDossier DEF Promised!Archive
  <1> QED
    BY <1>3 DEF Promised!Next

\* The campaign keeps the dossier it promises: each command is one entry of
\* it, or none.  Whoever measured is on record for good, nothing raised or
\* objected to is forgotten, the review is held by at most one person with no
\* part in the work, and the signature by such a person is followed by the
\* archive alone (MeasureIdem, EvaluateIdem, RetestAttempt, RemediateDetailed,
\* ClaimReview, ReviewIdem, ResolveReviewFindings, ArchiveWithToken).
THEOREM DossierKept == Spec => ImplementsDossier
  <1>1. Init => Promised!Init
    <2> SUFFICES ASSUME Init
                 PROVE  Promised!Init
      OBVIOUS
    <2>1. /\ state = "REFERENCE_VERIFIED" /\ rounds = <<>> /\ DOMAIN deviations = {}
          /\ claim = Nil /\ findings = {} /\ DOMAIN resolutions = {}
      BY DEF Init, MeasurementsInit
    <2> QED
      BY <2>1, Phases DEF Promised!Init, Operators, Holder, Signer, Active
  <1>2. TypeOK /\ Recorded /\ [Next]_vars => [Promised!Next]_(Promised!dossier)
    <2> SUFFICES ASSUME TypeOK, Recorded, [Next]_vars
                 PROVE  Promised!Next \/ UNCHANGED Promised!dossier
      OBVIOUS
    <2>1. CASE UNCHANGED vars
      BY <2>1 DEF vars, remediation, measurements, review, Promised!dossier, Promised!work,
         Promised!objections, Phase, Holder, Signer, Operators, Open, Active
    <2>2. CASE Next
      BY <2>2, StepCases, WorkingStep, ClaimStep, ApproveStep, RejectStep, ArchiveStep
    <2> QED
      BY <2>1, <2>2
  <1> QED
    BY <1>1, <1>2, TypeCorrect, RecordedAlways, PTL DEF Spec, ImplementsDossier, Promised!Spec
=============================================================================
