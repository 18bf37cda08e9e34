---------------------------- MODULE Measurements ----------------------------
(***************************************************************************)
(* The measurement data of one campaign whose references are verified: the *)
(* rounds, the records that void a round or exclude a sample of it, the    *)
(* evaluations computed from what is left, and the deviations they raise.  *)
(*                                                                         *)
(* Every handler is one step here: CampaignCommit shows that a handler     *)
(* whose commit succeeds decided on the latest revision.                   *)
(*                                                                         *)
(* A sample is abstracted to its verdict.  Against limits of 1 for either  *)
(* metric a "late" one has a time deviation of 2, a "fast" one a frequency *)
(* deviation of 3, and all the rest is 0.  Left out: the drift slope, the  *)
(* environment rules of a locked plan (they only refuse rounds) and its    *)
(* minimal span, batches of rounds (several commands in a row), and which  *)
(* void a round replaces (a label that decides nothing).                   *)
(***************************************************************************)
EXTENDS Integers, Sequences, FiniteSets, Functions

CONSTANTS Device,          \* the campaign's devices
          Person,          \* operators, reviewers and the creator
          CreatedBy,       \* who created the campaign
          Verdict,         \* verdicts that occur, of "good", "late", "fast"
          RequiredRounds,  \* of the measurement plan
          MaxRounds,       \* bound on the rounds captured
          MaxEvaluations   \* bound on the evaluations made

ASSUME MeasurementsAssumption ==
  /\ IsFiniteSet(Device) /\ Device # {}
  /\ CreatedBy \in Person
  /\ Verdict \subseteq {"good", "late", "fast"}
  /\ RequiredRounds \in Nat \ {0}
  /\ MaxRounds \in Nat /\ MaxEvaluations \in Nat

VARIABLES
  state,        \* the campaign's state
  rounds,       \* rounds in the order of their insertion
  voids,        \* indexes of voided rounds
  exclusions,   \* <<round, device>> of excluded samples
  evaluations,  \* the inputs evaluated, in order
  deviations    \* deviation cases by id

measurements == <<rounds, voids, exclusions>>
-----------------------------------------------------------------------------
(* Rounds and what is effective of them *)

Metric == {"time_deviation", "frequency_deviation"}

Samples == UNION {[D -> Verdict] : D \in (SUBSET Device) \ {{}}}

\* What an evaluation is computed from: some samples of some rounds.
Kept == UNION {[D -> Verdict] : D \in SUBSET Device}
Input == UNION {[I -> Kept] : I \in SUBSET (1..MaxRounds)}

\* CapturedAt is the client's to say: "now", or a time yet to come.
Round == [operator : Person, purpose : {"original", "retest"},
          samples : Samples, captured : {"now", "ahead"}]

Deviation == [device : Device, metric : Metric, evaluation : Nat \ {0}]

\* attempts and retest are indexes of rounds; 0 is none.
Case == [status : {"OPEN", "CLOSED"}, attempts : SUBSET Nat, retest : Nat]

\* EffectiveRounds: what is left without the voided ones.
EffectiveRounds(rs, vs) == [i \in DOMAIN rs \ vs |-> rs[i].samples]

\* EffectiveRoundsWithExclusions: and without the excluded samples.
EffectiveRoundsWithExclusions(rs, vs, xs) ==
  [i \in DOMAIN rs \ vs |->
     Restrict(rs[i].samples, {d \in DOMAIN rs[i].samples : <<i, d>> \notin xs})]

Effective == EffectiveRoundsWithExclusions(rounds, voids, exclusions)

\* The rounds with a sample of device d.
Observations(effective, d) ==
  {i \in DOMAIN effective : d \in DOMAIN effective[i]}

\* MeasurementPlanCompliance: every device is in as many rounds as planned.
Complete(effective) ==
  \A d \in Device : Cardinality(Observations(effective, d)) >= RequiredRounds

StateAfter(effective) ==
  IF Complete(effective) THEN "MEASURED" ELSE "REFERENCE_VERIFIED"

\* The greatest time deviation, or the mean frequency, is over its limit.
Exceeds(effective, d, metric) ==
  LET obs == Observations(effective, d)
      having(v) == {i \in obs : effective[i][d] = v}
  IN  IF metric = "time_deviation" THEN having("late") # {}
      ELSE 3 * Cardinality(having("fast")) > Cardinality(obs)

Insufficient(effective) ==
  {d \in Device : Cardinality(Observations(effective, d)) < 2}

\* Pairs of device and metric that fail; a device with too few observations
\* is only insufficient.
Failing(effective) ==
  {f \in (Device \ Insufficient(effective)) \X Metric :
     Exceeds(effective, f[1], f[2])}

Open == {x \in DOMAIN deviations : deviations[x].status = "OPEN"}

Operators == {rounds[i].operator : i \in DOMAIN rounds}
-----------------------------------------------------------------------------
(* Commands *)

\* AddMeasurements: the states in which a round may be stored.
MayMeasure ==
  state \in {"REFERENCE_VERIFIED", "MEASURED", "REMEDIATION_REQUIRED"}

\* A new round, of an operator who measures some of the devices.
StoreRound(round) ==
  /\ MayMeasure
  /\ Len(rounds) < MaxRounds
  /\ rounds' = Append(rounds, round)

\* Mutant: voided rounds complete the plan too.
MeasureRaw(operator, samples) ==
  /\ StoreRound([operator |-> operator, purpose |-> "original",
                 samples |-> samples, captured |-> "now"])
  /\ state' = StateAfter(EffectiveRounds(rounds', {}))
  /\ UNCHANGED <<voids, exclusions, evaluations, deviations>>

\* Mutant: a campaign in remediation stays there.
MeasureInPlace(operator, samples) ==
  /\ StoreRound([operator |-> operator, purpose |-> "original",
                 samples |-> samples, captured |-> "now"])
  /\ state' = IF state = "REMEDIATION_REQUIRED" THEN state
              ELSE StateAfter(EffectiveRoundsWithExclusions(rounds', voids, exclusions))
  /\ UNCHANGED <<voids, exclusions, evaluations, deviations>>

\* MeasureIdem.  In REMEDIATION_REQUIRED too: it then leaves that state.
Measure(operator, samples) ==
  /\ StoreRound([operator |-> operator, purpose |-> "original",
                 samples |-> samples, captured |-> "now"])
  /\ state' = StateAfter(EffectiveRoundsWithExclusions(rounds', voids, exclusions))
  /\ UNCHANGED <<voids, exclusions, evaluations, deviations>>

\* Original rounds may be amended until the first evaluation is stored.
AmendableAlways(i) == i \in DOMAIN rounds   \* Mutant: at any time.
Amendable(i) ==
  /\ state \in {"REFERENCE_VERIFIED", "MEASURED"}
  /\ evaluations = <<>>
  /\ i \in DOMAIN rounds /\ rounds[i].purpose = "original"

\* VoidRound.  It computes the new state from the rounds that are not voided,
\* samples that are excluded included.
VoidRound(i) ==
  /\ Amendable(i)
  /\ i \notin voids
  /\ voids' = voids \cup {i}
  /\ state' = StateAfter(EffectiveRounds(rounds, voids'))
  /\ UNCHANGED <<rounds, exclusions, evaluations, deviations>>

\* ExcludeSample.
ExcludeSample(i, d) ==
  /\ Amendable(i)
  /\ d \in DOMAIN rounds[i].samples
  /\ <<i, d>> \notin exclusions
  /\ exclusions' = exclusions \cup {<<i, d>>}
  /\ state' = StateAfter(EffectiveRoundsWithExclusions(rounds, voids, exclusions'))
  /\ UNCHANGED <<rounds, voids, evaluations, deviations>>

\* BuildEvaluation: the state after an evaluation of effective.
StateEvaluated(effective) ==
  IF Failing(effective) # {} THEN "REMEDIATION_REQUIRED"
  ELSE IF Insufficient(effective) = {} THEN "REVIEW_PENDING" ELSE state

\* EvaluateIdem.  An input already evaluated answers with what is stored.
Evaluate ==
  /\ state \in {"MEASURED", "REMEDIATION_REQUIRED"}
  /\ DOMAIN Effective # {}
  /\ Effective \notin Range(evaluations)
  /\ Len(evaluations) < MaxEvaluations
  /\ evaluations' = Append(evaluations, Effective)
  /\ LET raised == {[device |-> f[1], metric |-> f[2],
                     evaluation |-> Len(evaluations')] : f \in Failing(Effective)}
         opened == [status |-> "OPEN", attempts |-> {}, retest |-> 0]
     IN  deviations' = [x \in DOMAIN deviations \cup raised |->
           IF x \in raised THEN opened ELSE deviations[x]]
  /\ state' = StateEvaluated(Effective)
  /\ UNCHANGED measurements
-----------------------------------------------------------------------------
MeasurementsTypeOK ==
  /\ rounds \in Seq(Round) /\ Len(rounds) <= MaxRounds
  /\ voids \subseteq DOMAIN rounds
  /\ exclusions \subseteq (DOMAIN rounds) \X Device
  /\ evaluations \in Seq(Input)
  /\ \A k \in DOMAIN evaluations : DOMAIN evaluations[k] \subseteq DOMAIN rounds
  /\ DOMAIN deviations \subseteq Deviation
  /\ \A x \in DOMAIN deviations : x.evaluation <= Len(evaluations)
  /\ \A x \in DOMAIN deviations : deviations[x] \in Case

MeasurementsInit ==
  /\ state = "REFERENCE_VERIFIED"
  /\ rounds = <<>>
  /\ voids = {} /\ exclusions = {}
  /\ evaluations = <<>>
  /\ deviations = <<>>
=============================================================================
