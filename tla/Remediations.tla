---------------------------- MODULE Remediations ----------------------------
(***************************************************************************)
(* How the deviations of a campaign are closed: plans, the ledger of       *)
(* evidence for the latest plan, dependencies between deviations, and the  *)
(* two endpoints that submit a retest, retest-attempts and remediate.      *)
(***************************************************************************)
EXTENDS Measurements

CONSTANTS EvidenceType,  \* the types of evidence a plan demands
          MaxPlans       \* bound on the plan versions of a deviation

ASSUME RemediationsAssumption ==
  /\ EvidenceType \subseteq {"ROOT_CAUSE", "CONTAINMENT", "CORRECTIVE_ACTION"}
  /\ MaxPlans \in Nat

VARIABLES
  plans,         \* deviation -> its latest plan version
  evidence,      \* the ledger: [deviation, version, type]
  prerequisites  \* <<deviation, prerequisite>>

ledger == <<plans, evidence, prerequisites>>
-----------------------------------------------------------------------------
\* The latest version of x's plan, 0 when it has none.
Latest(x) == IF x \in DOMAIN plans THEN plans[x] ELSE 0

\* Mutant: evidence counts whatever plan it was collected for.
FullyEvidencedByAny(x) ==
  \A type \in EvidenceType : \E e \in evidence : e.deviation = x /\ e.type = type

\* All types of evidence for the latest plan of x.
FullyEvidenced(x) ==
  \A type \in EvidenceType :
    [deviation |-> x, version |-> Latest(x), type |-> type] \in evidence

\* No cycle: every set of deviations has one without a prerequisite in it.
Acyclic(edges) ==
  \A X \in (SUBSET {e[1] : e \in edges}) \ {{}} :
    \E x \in X : \A y \in X : <<x, y>> \notin edges

\* BuildDependencyProjection: the prerequisites of x that are not closed.
BlockedByNothing(x) == {}   \* Mutant: dependencies do not block.
Blocking(x) == {y \in Open : <<x, y>> \in prerequisites}

\* passesRetest: the sample of the retest meets the limit of x.
PassesAnything(samples, x) == TRUE   \* Mutant: the sample is not looked at.
PassesRetest(samples, x) ==
  samples[x.device] # (IF x.metric = "time_deviation" THEN "late" ELSE "fast")

\* The campaign is ready for review when no deviation is left open.
StateRemediated(cases) ==
  IF \E x \in DOMAIN cases : cases[x].status = "OPEN"
  THEN "REMEDIATION_REQUIRED" ELSE "REVIEW_PENDING"
-----------------------------------------------------------------------------
(* Commands, all of them in REMEDIATION_REQUIRED *)

\* AddPlans: the next plan version of each of some open deviations.
AddPlans(X) ==
  /\ state = "REMEDIATION_REQUIRED"
  /\ X # {} /\ X \subseteq Open
  /\ \A x \in X : Latest(x) < MaxPlans
  /\ plans' = [x \in DOMAIN plans \cup X |->
                 IF x \in X THEN Latest(x) + 1 ELSE plans[x]]
  /\ UNCHANGED <<evidence, prerequisites, state, measurements, evaluations, deviations>>

\* AddRemediationEvidence, for any version of the plan.
AddRemediationEvidence(x, version, type) ==
  /\ state = "REMEDIATION_REQUIRED"
  /\ x \in Open
  /\ version \in 1..Latest(x)
  /\ evidence' = evidence \cup {[deviation |-> x, version |-> version, type |-> type]}
  /\ UNCHANGED <<plans, prerequisites, state, measurements, evaluations, deviations>>

\* Mutant: what the batch adds up to with earlier ones is not looked at.
AcceptableAlone(edges) ==
  /\ \A e \in edges : e[1] \in Open /\ e[1] # e[2]
  /\ Acyclic(edges)

\* AddRemediationDependencies: a batch of new pairs.  Once a retest of the
\* dependent deviation was attempted it gets no new prerequisite.
Acceptable(edges) ==
  /\ \A e \in edges :
       /\ e[1] \in Open /\ e[1] # e[2]
       /\ deviations[e[1]].attempts = {}
  /\ edges \cap prerequisites = {}
  /\ Acyclic(prerequisites \cup edges)

AddRemediationDependencies(edges) ==
  /\ state = "REMEDIATION_REQUIRED"
  /\ edges # {} /\ edges \subseteq (DOMAIN deviations) \X (DOMAIN deviations)
  /\ Acceptable(edges)
  /\ prerequisites' = prerequisites \cup edges
  /\ UNCHANGED <<plans, evidence, state, measurements, evaluations, deviations>>

\* RetestAttempt of deviations X: those the new round passes are closed, the
\* others keep the attempt on record; the round is stored either way.
RetestAttempt(X, operator, samples, captured) ==
  /\ state = "REMEDIATION_REQUIRED"
  /\ X # {} /\ X \subseteq Open
  /\ \A x \in X : /\ Blocking(x) = {}
                  /\ FullyEvidenced(x)
                  /\ x.device \in DOMAIN samples
  /\ StoreRound([operator |-> operator, purpose |-> "retest",
                 samples |-> samples, captured |-> captured])
  /\ deviations' = [x \in DOMAIN deviations |->
       IF x \notin X THEN deviations[x]
       ELSE LET tried == [deviations[x] EXCEPT !.attempts = @ \cup {Len(rounds')}]
            IN  IF PassesRetest(samples, x)
                THEN [tried EXCEPT !.status = "CLOSED", !.retest = Len(rounds')]
                ELSE tried]
  /\ state' = StateRemediated(deviations')
  /\ UNCHANGED <<ledger, voids, exclusions, evaluations>>

\* RemediateDetailed: a retest that passes all of the deviations it is for.
\* It looks at neither the ledger nor the dependencies.
Remediate(X, operator, samples, captured) ==
  /\ state = "REMEDIATION_REQUIRED"
  /\ X # {} /\ X \subseteq Open
  /\ \A x \in X : x.device \in DOMAIN samples /\ PassesRetest(samples, x)
  /\ StoreRound([operator |-> operator, purpose |-> "retest",
                 samples |-> samples, captured |-> captured])
  /\ deviations' = [x \in DOMAIN deviations |->
       IF x \in X THEN [deviations[x] EXCEPT !.status = "CLOSED", !.retest = Len(rounds')]
       ELSE deviations[x]]
  /\ state' = StateRemediated(deviations')
  /\ UNCHANGED <<ledger, voids, exclusions, evaluations>>
-----------------------------------------------------------------------------
RemediationsTypeOK ==
  /\ DOMAIN plans \subseteq DOMAIN deviations
  /\ \A x \in DOMAIN plans : plans[x] \in 1..MaxPlans
  /\ evidence \subseteq [deviation : DOMAIN deviations, version : 1..MaxPlans,
                         type : EvidenceType]
  /\ prerequisites \subseteq (DOMAIN deviations) \X (DOMAIN deviations)

RemediationsInit == plans = <<>> /\ evidence = {} /\ prerequisites = {}
=============================================================================
