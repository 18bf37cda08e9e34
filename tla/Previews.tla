------------------------------ MODULE Previews ------------------------------
(***************************************************************************)
(* What the service says of one campaign beforehand, or again: whether a   *)
(* person may review (reviewer-eligibility), what a retest would achieve   *)
(* (remediation-preflight), and whether an evaluation can be reproduced    *)
(* (evaluations/{revision}/reproducibility).  None of them writes, and     *)
(* each has conditions of its own beside those of the commands.            *)
(*                                                                         *)
(* Left out: ids and sequence numbers of a candidate round, the wording of *)
(* what is missing, and the drift slope, for which the preflight looks at  *)
(* the effective rounds and the command at all of them.                    *)
(***************************************************************************)
EXTENDS Lifecycle

ASSUME PreviewsAssumption == EvidenceType # {}
-----------------------------------------------------------------------------
\* Mutant: the operator of a voided round is eligible.
EligibilityByEffective(p) ==
  IF state # "REVIEW_PENDING" THEN "CAMPAIGN_NOT_REVIEWABLE"
  ELSE IF ~IndependentOfEffective(p) THEN "INDEPENDENCE_CONFLICT"
  ELSE IF Active /\ claim.reviewer # p THEN "CLAIM_OCCUPIED" ELSE "ELIGIBLE"

\* ReviewerEligibility of one of the candidates.
ReviewerEligibility(p) ==
  IF state # "REVIEW_PENDING" THEN "CAMPAIGN_NOT_REVIEWABLE"
  ELSE IF p \in Operators THEN "INDEPENDENCE_CONFLICT"
  ELSE IF Active /\ claim.reviewer # p THEN "CLAIM_OCCUPIED" ELSE "ELIGIBLE"

\* The deviations a preflight is about: those asked for, or all that are open.
Selected(X) == IF X = {} THEN Open ELSE X

\* Mutant: dependencies are listed, but do not block.
ReadyUnlessBlocked(X, samples) ==
  /\ MayMeasure
  /\ Selected(X) # {}
  /\ \A x \in Selected(X) \cap Open :
       /\ x \in DOMAIN plans /\ FullyEvidenced(x)
       /\ x.device \in DOMAIN samples /\ PassesRetest(samples, x)

\* RemediationPreflight, ready_to_submit: there is no blocking check, neither
\* of the candidate round nor of the selected deviations that are open.
ReadyToSubmit(X, samples) ==
  /\ MayMeasure
  /\ Selected(X) # {}
  /\ \A x \in Selected(X) \cap Open :
       /\ Blocking(x) = {}
       /\ x \in DOMAIN plans /\ FullyEvidenced(x)
       /\ x.device \in DOMAIN samples /\ PassesRetest(samples, x)

\* RemediationPreflight, would_enter_review_pending.
WouldEnterReviewPending(X, samples) ==
  ReadyToSubmit(X, samples) /\ Open \subseteq Selected(X)

\* VerifyReproducibility of evaluation k: the evaluation of all that is
\* effective by now is the one that was stored.
VerifyReproducibility(k) == Effective = evaluations[k]
-----------------------------------------------------------------------------
\* Whoever is told to be eligible may claim the review, and nobody else may;
\* and may sign at once, unless it is the creator, of whom the answer does not
\* know.
EligibilityKeepsWord ==
  \A p \in Person :
    LET eligible == ReviewerEligibility(p) = "ELIGIBLE"
    IN  /\ eligible <=> ENABLED ClaimReview(p)
        /\ Len(reviews) < MaxReviews =>
             (eligible /\ p # CreatedBy <=> ENABLED \E failed \in SUBSET Item : Reject(p, failed))

\* While the campaign is in remediation a preflight of open deviations says yes
\* exactly if a retest submitted now closes all of them, and announces a review
\* exactly if that leads to one, although it asks for a plan, of which the
\* command knows nothing, and not for the state.
RetestAsPredicted ==
  state = "REMEDIATION_REQUIRED" /\ Len(rounds) < MaxRounds =>
    \A X \in (SUBSET Open) \ {{}}, samples \in Samples :
      LET Submit == RetestAttempt(X, CreatedBy, samples, "now")
      IN  /\ ReadyToSubmit(X, samples) <=> ENABLED (Submit /\ X \cap Open' = {})
          /\ WouldEnterReviewPending(X, samples) <=>
               ENABLED (Submit /\ state' = "REVIEW_PENDING")

\* No measurement gets past the evaluation: when a campaign comes to review,
\* by an evaluation, a retest or a resolved finding, the latest evaluation has
\* all samples in force but for those of retests, and is reproducible if there
\* are none of these.  Rounds may be added while deviations are remedied.
SignedIsEvaluated ==
  state \in {"REVIEW_PENDING", "REVIEW_APPROVED", "ARCHIVED"} =>
    LET last == Len(evaluations)
        retests == {i \in DOMAIN Effective : rounds[i].purpose = "retest"}
    IN  /\ last # 0
        /\ DOMAIN Effective \ DOMAIN evaluations[last] \subseteq retests
        /\ retests = {} => VerifyReproducibility(last)
=============================================================================
