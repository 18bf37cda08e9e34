------------------------------ MODULE Dossier ------------------------------
(***************************************************************************)
(* What the service promises of the dossier of one campaign: whoever takes *)
(* part in the measurements is on record for good, nothing that was raised *)
(* or objected to is forgotten, the signature is given by somebody who had *)
(* no part in the work and whose place nobody held, and after it only the  *)
(* archive follows, when everything that was raised is remedied.           *)
(***************************************************************************)
CONSTANTS Person, CreatedBy,
          Nobody  \* stands for no person

VARIABLES
  phase,      \* "WORK", "REVIEW", "SIGNED" or "ARCHIVED"
  operators,  \* those who took part in the measurements
  raised,     \* what evaluations found over its limit
  remedied,   \* what of it a retest has proved remedied
  objected,   \* what reviewers objected to
  answered,   \* what of it was answered
  holder,     \* who has reserved the review
  signer      \* who has signed

work == <<operators, raised, remedied>>
objections == <<objected, answered>>
dossier == <<phase, work, objections, holder, signer>>
-----------------------------------------------------------------------------
Init ==
  /\ phase = "WORK"
  /\ operators = {} /\ raised = {} /\ remedied = {}
  /\ objected = {} /\ answered = {}
  /\ holder = Nobody /\ signer = Nobody

\* A round is captured.
Capture(p) ==
  /\ phase = "WORK"
  /\ operators' = operators \cup {p}
  /\ UNCHANGED <<phase, raised, remedied, objections, holder, signer>>

\* A round that remedies something; the last of it leads to the review.
Remedy(p, done) ==
  /\ phase = "WORK"
  /\ done # {} /\ done \subseteq raised \ remedied
  /\ operators' = operators \cup {p}
  /\ remedied' = remedied \cup done
  /\ phase' = IF done = raised \ remedied THEN "REVIEW" ELSE "WORK"
  /\ UNCHANGED <<raised, objections, holder, signer>>

\* An evaluation: what it raises has to be remedied before the review.
Evaluate ==
  /\ phase = "WORK"
  /\ raised \subseteq raised'
  /\ phase' \in IF raised' = raised THEN {"WORK", "REVIEW"} ELSE {"WORK"}
  /\ UNCHANGED <<operators, remedied, objections, holder, signer>>

\* The review is reserved, by nobody who measured.
Reserve(p) ==
  /\ phase = "REVIEW"
  /\ p \notin operators
  /\ holder \in {p, Nobody}
  /\ holder' = p
  /\ UNCHANGED <<phase, work, objections, signer>>

GiveUp ==
  /\ holder' = Nobody
  /\ UNCHANGED <<phase, work, objections, signer>>

MaySign(p) ==
  /\ phase = "REVIEW"
  /\ p \notin operators \cup {CreatedBy}
  /\ holder \in {p, Nobody}

Sign(p) ==
  /\ MaySign(p)
  /\ objected \ answered = {}
  /\ phase' = "SIGNED" /\ signer' = p /\ holder' = Nobody
  /\ UNCHANGED <<work, objections>>

\* A rejection always objects to something, on top of what was objected to.
Object(p) ==
  /\ MaySign(p)
  /\ objected \subseteq objected' /\ objected' # objected
  /\ phase' = "WORK" /\ holder' = Nobody
  /\ UNCHANGED <<work, answered, signer>>

Answer(done) ==
  /\ phase = "WORK"
  /\ done # {} /\ done \subseteq objected \ answered
  /\ answered' = answered \cup done
  /\ phase' = IF done = objected \ answered THEN "REVIEW" ELSE "WORK"
  /\ UNCHANGED <<work, objected, holder, signer>>

Archive ==
  /\ phase = "SIGNED"
  /\ raised \ remedied = {}
  /\ phase' = "ARCHIVED"
  /\ UNCHANGED <<work, objections, holder, signer>>

Next ==
  \/ \E p \in Person :
       \/ Capture(p) \/ Reserve(p) \/ Sign(p) \/ Object(p)
       \/ \E done \in SUBSET (raised \ remedied) : Remedy(p, done)
  \/ \E done \in SUBSET (objected \ answered) : Answer(done)
  \/ Evaluate \/ GiveUp \/ Archive

Spec == Init /\ [][Next]_dossier
=============================================================================
