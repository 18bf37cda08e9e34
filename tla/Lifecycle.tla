----------------------------- MODULE Lifecycle -----------------------------
(***************************************************************************)
(* One campaign from verified references to the archive: measurement and   *)
(* remediation (the modules extended), review claims, reviews, the         *)
(* findings of a rejected review and their resolution, and archiving.      *)
(*                                                                         *)
(* Left out: revisions and stored snapshots (CampaignCommit has them), the *)
(* wording that requests are refused for, and the four codes of a check    *)
(* list, of which only the failed items matter.                            *)
(***************************************************************************)
EXTENDS Remediations

CONSTANTS Endpoint,    \* the endpoints clients call
          Captured,    \* capture times they give retests: "now", "ahead"
          MaxReviews,  \* bound on the reviews made
          MaxFailed,   \* bound on the failed items of a review
          Nil

ASSUME LifecycleAssumption ==
  /\ Endpoint \subseteq
       {"measure", "round-voids", "sample-exclusions", "evaluate",
        "remediation-plans", "remediation-evidence", "remediation-dependencies",
        "retest-attempts", "remediate", "review-claims", "review",
        "review-findings", "archive"}
  /\ Captured \subseteq {"now", "ahead"}
  /\ MaxReviews \in Nat /\ MaxFailed \in Nat
  /\ Nil \notin [reviewer : Person, status : {"ACTIVE", "RELEASED", "CONSUMED"},
                 expired : BOOLEAN]

VARIABLES
  claim,       \* the latest review claim, or Nil
  reviews,     \* reviews in order: [reviewer, approved]
  findings,    \* findings of rejected reviews
  resolutions  \* finding -> the retest round it cites, 0 for none

remediation == <<measurements, evaluations, deviations, ledger>>
review == <<claim, reviews, findings, resolutions>>
vars == <<state, remediation, review>>
-----------------------------------------------------------------------------
Claim == [reviewer : Person, status : {"ACTIVE", "RELEASED", "CONSUMED"},
          expired : BOOLEAN]

\* A failed item of a check list; Nil stands for no device in particular.
Item == [device : Device \cup {Nil}, retest : BOOLEAN]

\* rounds is the number of rounds captured when the finding was made.
Finding == [review : Nat \ {0}, item : Item, rounds : Nat]

Unresolved == findings \ DOMAIN resolutions

Active == claim # Nil /\ claim.status = "ACTIVE" /\ ~claim.expired

\* Mutant: operators of voided rounds do not count.
IndependentOfEffective(reviewer) ==
  \A i \in DOMAIN rounds \ voids : rounds[i].operator # reviewer

\* No round, voided or not, is the reviewer's.
Independent(reviewer) == reviewer \notin Operators

\* ClaimReview: a first claim, the renewal of one's own, or the claim of a
\* review nobody holds any longer.
ClaimReview(reviewer) ==
  /\ state = "REVIEW_PENDING"
  /\ Independent(reviewer)
  /\ Active => claim.reviewer = reviewer
  /\ claim' = [reviewer |-> reviewer, status |-> "ACTIVE", expired |-> FALSE]
  /\ UNCHANGED <<state, remediation, reviews, findings, resolutions>>

\* ReleaseReviewClaim: it asks for no state.
ReleaseReviewClaim(reviewer) ==
  /\ Active /\ claim.reviewer = reviewer
  /\ claim' = [claim EXCEPT !.status = "RELEASED"]
  /\ UNCHANGED <<state, remediation, reviews, findings, resolutions>>

\* Time passes, and the claim's with it.
ClaimExpires ==
  /\ Active
  /\ claim' = [claim EXCEPT !.expired = TRUE]
  /\ UNCHANGED <<state, remediation, reviews, findings, resolutions>>

\* Who may sign: nobody while another holds an active claim.
Admitted(reviewer) ==
  /\ state = "REVIEW_PENDING"
  /\ Len(reviews) < MaxReviews
  /\ Independent(reviewer)
  /\ Active => claim.reviewer = reviewer
  /\ reviewer # CreatedBy

Unconsumed == claim   \* Mutant: the claim outlives the review made under it.
Consumed == IF Active THEN [claim EXCEPT !.status = "CONSUMED"] ELSE claim

\* ReviewIdem, all items passed: every finding is resolved, and cited.
Approve(reviewer) ==
  /\ Admitted(reviewer)
  /\ Unresolved = {}
  /\ claim' = Consumed
  /\ reviews' = Append(reviews, [reviewer |-> reviewer, approved |-> TRUE])
  /\ state' = "REVIEW_APPROVED"
  /\ UNCHANGED <<remediation, findings, resolutions>>

\* Mutant: a rejection stores no findings.
RejectSilently(reviewer, failed) ==
  /\ Admitted(reviewer)
  /\ failed # {}
  /\ claim' = Consumed
  /\ reviews' = Append(reviews, [reviewer |-> reviewer, approved |-> FALSE])
  /\ state' = "REMEDIATION_REQUIRED"
  /\ UNCHANGED <<remediation, findings, resolutions>>

\* Mutant: the findings are numbered before the review is.
RejectUnnumbered(reviewer, failed) ==
  /\ Admitted(reviewer)
  /\ failed # {}
  /\ claim' = Consumed
  /\ reviews' = Append(reviews, [reviewer |-> reviewer, approved |-> FALSE])
  /\ findings' = findings \cup
       {[review |-> Len(reviews), item |-> i, rounds |-> Len(rounds)] : i \in failed}
  /\ state' = "REMEDIATION_REQUIRED"
  /\ UNCHANGED <<remediation, resolutions>>

\* ReviewIdem with failed items, each of which becomes a finding.
Reject(reviewer, failed) ==
  /\ Admitted(reviewer)
  /\ failed # {}
  /\ claim' = Consumed
  /\ reviews' = Append(reviews, [reviewer |-> reviewer, approved |-> FALSE])
  /\ findings' = findings \cup
       {[review |-> Len(reviews'), item |-> i, rounds |-> Len(rounds)] : i \in failed}
  /\ state' = "REMEDIATION_REQUIRED"
  /\ UNCHANGED <<remediation, resolutions>>

\* RetestAttempt for no deviation in particular: a round for the findings
\* that require a retest, within the limits for every device it samples.
RetestFindings(operator, samples, captured) ==
  LET due == {f \in Unresolved : f.item.retest}
  IN  /\ state = "REMEDIATION_REQUIRED"
      /\ due # {}
      /\ \A d \in DOMAIN samples : samples[d] = "good"
      /\ {f.item.device : f \in due} \ {Nil} \subseteq DOMAIN samples
      /\ StoreRound([operator |-> operator, purpose |-> "retest",
                     samples |-> samples, captured |-> captured])
      /\ UNCHANGED <<state, voids, exclusions, evaluations, deviations, ledger, review>>

\* A round that resolves f: a retest, dated after f, with a sample of f's
\* device (of any, when it names none) within the limits.
Proves(f, i) ==
  /\ i \in DOMAIN rounds /\ rounds[i].purpose = "retest"
  /\ i > f.rounds \/ rounds[i].captured = "ahead"
  /\ \E d \in DOMAIN rounds[i].samples :
       f.item.device \in {Nil, d} /\ rounds[i].samples[d] = "good"

\* ResolveReviewFindings: cites[f] is the round cited for f.  The deviations
\* that may still be open are not looked at.
ResolveReviewFindings(cites) ==
  /\ state = "REMEDIATION_REQUIRED"
  /\ DOMAIN cites # {} /\ DOMAIN cites \subseteq Unresolved
  /\ \A f \in DOMAIN cites : IF f.item.retest THEN Proves(f, cites[f]) ELSE cites[f] = 0
  /\ UNCHANGED <<remediation, claim, reviews, findings>>
  /\ resolutions' = [f \in DOMAIN resolutions \cup DOMAIN cites |->
                       IF f \in DOMAIN cites THEN cites[f] ELSE resolutions[f]]
  /\ state' = IF Unresolved' = {} THEN "REVIEW_PENDING" ELSE state

\* ArchiveWithToken: the preflight, and Archive.
PreflightWithoutDeviations ==   \* Mutant: DEVIATIONS_CLOSED is not asked for.
  /\ rounds # <<>> /\ evaluations # <<>>
  /\ \E i \in DOMAIN reviews : reviews[i].approved
Preflight ==
  /\ rounds # <<>> /\ evaluations # <<>>
  /\ Open = {}
  /\ \E i \in DOMAIN reviews : reviews[i].approved

ArchiveWithToken ==
  /\ state = "REVIEW_APPROVED"
  /\ Preflight
  /\ state' = "ARCHIVED"
  /\ UNCHANGED <<remediation, review>>
-----------------------------------------------------------------------------
Init ==
  /\ MeasurementsInit /\ RemediationsInit
  /\ claim = Nil /\ reviews = <<>> /\ findings = {} /\ resolutions = <<>>

Measuring ==
  /\ UNCHANGED <<ledger, review>>
  /\ \/ /\ "measure" \in Endpoint
        /\ \E p \in Person, samples \in Samples : Measure(p, samples)
     \/ /\ "round-voids" \in Endpoint
        /\ \E i \in DOMAIN rounds : VoidRound(i)
     \/ /\ "sample-exclusions" \in Endpoint
        /\ \E i \in DOMAIN rounds, d \in Device : ExcludeSample(i, d)
     \/ "evaluate" \in Endpoint /\ Evaluate

Remediating ==
  /\ UNCHANGED review
  /\ \/ /\ "remediation-plans" \in Endpoint
        /\ \E X \in SUBSET Open : AddPlans(X)
     \/ /\ "remediation-evidence" \in Endpoint
        /\ \E x \in Open, version \in 1..MaxPlans, type \in EvidenceType :
             AddRemediationEvidence(x, version, type)
     \/ /\ "remediation-dependencies" \in Endpoint
        /\ \E edges \in SUBSET (Open \X (DOMAIN deviations)) :
             AddRemediationDependencies(edges)
     \/ \E X \in SUBSET Open, p \in Person, samples \in Samples, captured \in Captured :
          \/ "retest-attempts" \in Endpoint /\ RetestAttempt(X, p, samples, captured)
          \/ "remediate" \in Endpoint /\ Remediate(X, p, samples, captured)

Reviewing ==
  \/ /\ "review-claims" \in Endpoint
     /\ \E p \in Person : ClaimReview(p) \/ ReleaseReviewClaim(p)
  \/ ClaimExpires
  \/ /\ "review" \in Endpoint
     /\ \E p \in Person :
          \/ Approve(p)
          \/ \E failed \in SUBSET Item : Cardinality(failed) <= MaxFailed /\ Reject(p, failed)
  \/ /\ "review-findings" \in Endpoint
     /\ \E F \in SUBSET Unresolved :
          \E cites \in [F -> 0..Len(rounds)] : ResolveReviewFindings(cites)
  \/ /\ "retest-attempts" \in Endpoint
     /\ \E p \in Person, samples \in Samples, captured \in Captured :
          RetestFindings(p, samples, captured)
  \/ "archive" \in Endpoint /\ ArchiveWithToken

Next == Measuring \/ Remediating \/ Reviewing

Spec == Init /\ [][Next]_vars
-----------------------------------------------------------------------------
States == {"REFERENCE_VERIFIED", "MEASURED", "REMEDIATION_REQUIRED",
           "REVIEW_PENDING", "REVIEW_APPROVED", "ARCHIVED"}

TypeOK ==
  /\ state \in States
  /\ MeasurementsTypeOK
  /\ RemediationsTypeOK
  /\ claim \in Claim \cup {Nil}
  /\ reviews \in Seq([reviewer : Person, approved : BOOLEAN])
  /\ findings \subseteq Finding
  /\ DOMAIN resolutions \subseteq findings
  /\ \A f \in DOMAIN resolutions : resolutions[f] \in 0..Len(rounds)

\* In the two states between rounds the campaign is MEASURED exactly when the
\* samples that count complete the plan; true as long as no excluded sample
\* comes back when another round is voided (see ExclusionsCount).
MeasuredWhenComplete ==
  exclusions = {} /\ state \in {"REFERENCE_VERIFIED", "MEASURED"} =>
    (state = "MEASURED" <=> Complete(Effective))

\* What an evaluation was computed from stays as it was: later rounds add to
\* it, but no void or exclusion reaches back into a stored evaluation.
EvaluatedDataIntact ==
  \A k \in DOMAIN evaluations : \A i \in DOMAIN evaluations[k] :
    i \in DOMAIN Effective /\ Effective[i] = evaluations[k][i]

\* A deviation counts as closed only on the strength of a retest captured
\* after the evaluation that raised it, and within the very limit it broke.
ClosedByPassingRetest ==
  \A x \in DOMAIN deviations : deviations[x].status = "CLOSED" =>
    LET i == deviations[x].retest
    IN  /\ i \in DOMAIN rounds /\ i \notin DOMAIN evaluations[x.evaluation]
        /\ rounds[i].purpose = "retest"
        /\ x.device \in DOMAIN rounds[i].samples
        /\ rounds[i].samples[x.device] #
             (IF x.metric = "time_deviation" THEN "late" ELSE "fast")

\* What retest-attempts closed has all evidence for its latest plan: neither
\* a later version of the plan nor evidence for an older one gets around it.
EvidencedWhenClosed ==
  \A x \in DOMAIN deviations :
    deviations[x].status = "CLOSED" /\ deviations[x].retest \in deviations[x].attempts =>
      \A type \in EvidenceType :
        [deviation |-> x, version |-> Latest(x), type |-> type] \in evidence

\* Remediation is never everyone waiting on everyone: while deviations are
\* open, whatever dependencies were registered in whatever order, one of them
\* is blocked by none.
SomethingActionable ==
  Open # {} => \E x \in Open : \A y \in Open : <<x, y>> \notin prerequisites

\* The deviations retest-attempts closed were closed after all of their
\* prerequisites, also those registered late.
PrerequisitesFirst ==
  \A e \in prerequisites :
    LET x == deviations[e[1]]
    IN  x.status = "CLOSED" /\ x.retest \in x.attempts =>
          deviations[e[2]].status = "CLOSED"

\* A claim in force means a review that is still to be made, by someone who
\* may make it: no claim outlives the pending review or its independence.
ClaimGuardsReview ==
  Active => state = "REVIEW_PENDING" /\ Independent(claim.reviewer)

\* The one who approved is neither the creator nor the operator of any round,
\* of a voided one or of one captured since.
IndependentSigner ==
  state \in {"REVIEW_APPROVED", "ARCHIVED"} =>
    LET signer == reviews[Len(reviews)].reviewer
    IN  /\ reviews[Len(reviews)].approved
        /\ signer # CreatedBy /\ signer \notin Operators

\* A campaign sent to remediation has something to remedy: the commands that
\* leave the state have a deviation or a finding to work on.
RemediationHasWork ==
  state = "REMEDIATION_REQUIRED" => Open # {} \/ Unresolved # {}

\* What is archived left nothing open: every deviation is closed, every
\* finding resolved, and nobody claims its review.
ArchivedIsClean ==
  state = "ARCHIVED" => Open = {} /\ Unresolved = {} /\ ~Active

\* The archive is final: no command of any endpoint changes anything.
ArchivedIsFinal == [][state # "ARCHIVED"]_vars
-----------------------------------------------------------------------------
(* What a campaign's dossier promises *)

\* The states in which the campaign is worked on are one phase of the dossier.
Phase ==
  CASE state = "REVIEW_PENDING" -> "REVIEW"
    [] state = "REVIEW_APPROVED" -> "SIGNED"
    [] state = "ARCHIVED" -> "ARCHIVED"
    [] OTHER -> "WORK"

\* Who has reserved the review: only a claim in force counts.
Holder == IF Active THEN claim.reviewer ELSE Nil

\* Who made the review the signature rests on.
Signer ==
  IF state \in {"REVIEW_APPROVED", "ARCHIVED"} THEN reviews[Len(reviews)].reviewer ELSE Nil

Promised == INSTANCE Dossier WITH
          Nobody <- Nil, phase <- Phase, operators <- Operators,
          raised <- DOMAIN deviations, remedied <- DOMAIN deviations \ Open,
          objected <- findings, answered <- DOMAIN resolutions,
          holder <- Holder, signer <- Signer

\* Every command writes one entry of the dossier the service promises, or none:
\* operators are never forgotten, nothing raised or objected to is dropped, the
\* signature is by an outsider nobody had displaced, and only the archive
\* follows it, after which nothing changes.
ImplementsDossier == Promised!Spec
-----------------------------------------------------------------------------
(* What the documentation says and the code does not do *)

\* BENZHI_README.md: when a metric is over its limit the retest must be
\* completed; then the reviewer signs.
SignedAfterRemediation == state = "REVIEW_APPROVED" => Open = {}

\* README.md: a blocked deviation cannot submit a retest.
BlockedStaysOpen ==
  [][\A x \in Open : Blocking(x) # {} =>
       deviations'[x].status = "OPEN"]_vars

\* README.md: an item that demands a retest can only cite a retest round
\* added after the rejection.
ResolvedByLaterRetest ==
  \A f \in DOMAIN resolutions : f.item.retest => resolutions[f] > f.rounds

\* README.md: coverage uses the samples that are not excluded.
ExclusionsCount == state = "MEASURED" => Complete(Effective)
=============================================================================
