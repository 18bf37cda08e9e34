# TimeSync campaigns in TLA+

Models, model-checking runs and machine-checked proofs for the service in this repository: it keeps
*campaigns* that verify the time synchronisation of a station's devices, from the booking of a
window to an archived, signed artifact. The modules are written from the code under `src/internal/`;
`PROJECT.json` maps each definition to the lines it stands for.

## 1. The system

Paths below are relative to `src/internal/`.

| Component | State it keeps | Operations | Hard part |
|---|---|---|---|
| HTTP interface, `httpapi/http.go` | none | one goroutine per request; `Idempotency-Key`, `If-Match` | any number of requests on one campaign at once |
| Application service, `application/*.go` | none: every handler reads the database anew | some twenty mutating commands, all built alike: `get`, `replay`, `check`, read tables, decide, `newEvent`, `Store.Commit` | what was read may be over when it is written |
| Store, `persistence/*.go` | SQLite tables; one mutex around transactions | autocommit reads; `Commit`, `CommitAmendment`, `CreateCampaignAtomic` | the only fence is a primary key |
| Audit chain and artifact, `audit/audit.go` | `audit_events`, `artifacts` | `NewEvent`, `ValidateDetailed`, sealing and verification of sections | chain forks, gaps, torn collections |
| Campaign creation and windows, `domain/extensions.go`, `application/refill.go`, `v40.go` | station, devices, window, state | create, successors, amendments, cancel | two campaigns after the same station or device |
| References and baselines, `domain/domain.go`, `domain/v41.go`, `application/features.go`, `extensions.go`, `refill.go` | evidence, its replacement and withdrawal, device baselines | reference, batch, correction, withdrawal, device-baselines | coverage of a window that moves; fingerprints shared by campaigns |
| Measurement and evaluation, `domain/domain.go`, `domain/v40.go` | rounds, voids, exclusions, evaluations | measure, round-voids, sample-exclusions, evaluate | recomputing states from data that is taken back |
| Remediation, `application/extensions.go`, `v41.go`, `domain/v41.go` | deviations, plans, evidence ledger, dependencies | remediation-plans, -evidence, -dependencies, retest-attempts, remediate | two routes to a closed deviation, dependency deadlock |
| Review and archive, `application/service.go`, `v40.go`, `refill.go`, `extensions.go` | claims, reviews, findings, resolutions, snapshots to sign, artifact | review-claims, review, review-findings, review-snapshots, archive | leases that expire, loops back into remediation |
| Analyses, previews, lineage, qualification, availability, `domain/analysis.go`, `v40.go`, `v41.go`, `refill.go` | none | read only | interval algorithms with restarts and moving cut points; conditions repeated beside those of the commands; floating point |

**Interaction.** Handlers share nothing but the database. A handler reads the campaign row first,
then whatever tables it needs, one statement at a time, without a transaction. It then takes
`Store.mu` and writes a whole revision in one transaction: the campaign row (an unconditional
upsert), all new evidence, one audit event and the idempotency row. `audit_events` has the primary
key `(campaign_id, revision)`, and a handler inserts the event of the revision after the one it
read; that key alone turns "read, decide, write" into something atomic. `CreateCampaignAtomic` and
`CommitAmendment` additionally compare windows with all other campaigns inside the transaction, and
`Commit` compares certificate fingerprints.

**What has to be true**, per component:

- commit protocol: no lost update, no request twice under one key, no row of evidence without its
  revision, one unforked chain, readers see one revision, an archive is complete and final (as far as
  the reads whose error the code looks at can make it so);
- windows: no station or device promised twice; what was measured in is never given back; successors
  repeat what is archived;
- queries: free windows, gaps, critical evidence and qualification are exactly what they are by
  definition; a preflight agrees with the command it previews; one line of succession, one report;
- references: past `DRAFT` the window is covered by evidence of both kinds in force; a digest has one
  fingerprint;
- measurement: what was evaluated is never taken back; `MEASURED` means complete;
- remediation: closed by a retest that passes, evidenced, prerequisites first, never all blocked;
- review and archive: independent signer, claims that guard exactly one review, nothing open inside
  the archive.

The hazards behind these, each at its line, are the `hazards` list of `PROJECT.json`.

## 2. Modules

| Module | Models | Promises / proofs |
|---|---|---|
| `CampaignLog` | the abstract promise: an append-only log, each request applied atomically to what its predecessors left, once per key, honouring `If-Match`, none after the archive | |
| `CampaignCommit` | the commit protocol of **one** campaign, statement by statement, with failing statements and crashes | refines `CampaignLog`; `CampaignCommitProofs`, `CampaignReadersProofs` |
| `Calendar` | the abstract promise of bookings: slots (a resource at a moment) that one campaign holds at a time, exchanged or given back until they are used | |
| `Campaigns` | **several** campaigns: bookings, references, baselines, cancellation, succession; two steps per handler (decide, commit) | refines `Calendar`; `CampaignsProofs` |
| `Registry` (EXTENDS `Campaigns`) | the queries over the stored campaigns: `resource-availability`, coverage gaps, `reference-preflight`, `reference-resilience`, `qualification-checks`, `qualification-lineage` | `DataInduction` ← `SpansProofs` ← `RegistryProofs` |
| `Dossier` | the abstract promise of a campaign's life: operators on record for good, nothing raised or objected to forgotten, an outsider's signature, then only the archive | |
| `Measurements` ← `Remediations` ← `Lifecycle` | the business rules of **one** campaign from verified references to the archive; one step per command (each EXTENDS the one before) | refines `Dossier`; `LifecycleProofs` |
| `Previews` (EXTENDS `Lifecycle`) | what is said of one campaign beforehand, or again: `reviewer-eligibility`, `remediation-preflight`, reproducibility of an evaluation | `PreviewsProofs` |
| `MCCampaignCommit`, `MCCampaigns`, `MCRegistry`, `MCLifecycle` | instances for TLC | |

The three groups divide the program by what can go wrong in it. `CampaignCommit` has every
interleaving and no business rule; `Lifecycle` has the rules and takes a command as one step, which
is what `FreshDecision` and `ImplementsLog` of `CampaignCommit` justify: a command that commits
decided on rows that were all still current (and, but for the few tables whose failing read it does
not notice, on all of them). `Campaigns` is in between: across campaigns there is no
revision to fence with, so read and commit must be two steps. `Registry` and `Previews` add no state:
their properties are about what the queries answer in every state of `Campaigns` and of `Lifecycle`.

### Correspondence

`CampaignCommit`. A handler's `pc` is the place in the common body of the commands, `loc` its local
variables: `ReadArtifact`, `ReadCampaign` (`Store.GetCampaign`), `Replay` (`Service.replay` and `check`),
`ReadTable` (one table per step), `ReadAudit` (`newEvent` of a writer, the last read of
`SnapshotForDevice` and `VerifySection`), `Refuse` (any domain rule), `Commit` (one transaction, under
the mutex), `Reply` and `Crash`. A failing statement has one of two consequences. `Fail`: the handler
answers with the error, and the transaction, if one was begun, is rolled back. `ReadPart`: the handler
drops the error (`x, _ := s.Store...`) and goes on with the rows it got, none if the query itself failed.
`Dropping` lists by kind of request the tables read in that way: exclusions in measure and evaluate,
plans in remediation-plans and snapshots, reviews in review, and baselines, evidence ledger and
exclusions in archive and verification. `LookupSnapshot`, too, takes a failing look-up for an answer, as
`service.go:627` and `features.go:546` do: where there is a snapshot of the revision, the handler may
still go on to store one, whose key is then taken, which nobody is told. Six kinds of request: `WRITE`
(any command), `SIGN` (a review naming a snapshot digest), `ARCHIVE`, `SNAPSHOT`, `PIN`
(review-snapshots), `VERIFY`. A campaign's content is the sequence of requests folded into it and a
digest is the history it hashes, so equal digests mean equal histories, as for a collision-free hash.
Which of the insertions of a transaction fails does not matter, since all are rolled back.

`Campaigns`. `pending[h]` is the mutation a handler has made, from `Create` to `CancelCampaign` one
action per command; `Commit` applies it if `Admits` (the transaction's own checks: existing id,
`WindowConflicts`, `FingerprintAgrees`, and the keys, `UniqueIds` of evidence and `UniqueEvent`), else
`Rollback`. A reference is an id, a digest, a kind, a provider and a validity; replaced and withdrawn
ones stay in the tables, as in the code, and their ids and digests are compared with those of each new
one (`NewIds`). Only `ConfirmReferenceBatch` asks also for new sources, kind, provider and validity
(`NewSources`): `ReferenceDetailed` and `CorrectReference` do not. Windows are half-open intervals of
natural numbers. `MEASURED` stands for every state from the first round to the archive. `Slots` of a
booking are its resources at its moments, `Held` what a campaign that is not cancelled has booked, `Used`
the campaigns with rounds: the mapping to `Calendar`.

`Registry`. Each algorithm is the code's, data structures aside: `Merged` and `Sweep` are the bodies of
the loops, folded over the spans sorted by their starts (`ByStart` leaves open which of two that start
together comes first: the code breaks such ties by the end in one place and not in the other);
`NextStart` and `PreviousStart` begin the loop anew after every move, as `i = -1` and `i = len(busy)` do;
`ResilienceGaps` cuts the window where evidence begins or ends; `Ancestry` and `Descent` are the two
walks of the lineage over `ListCampaigns`, the first with the loop's variables `seen` and `cursor` as its
state. `CanVerify` compares a batch with the evidence in force only (`domain/v40.go:40`), `Verifies` with
what the command and its transaction compare it with. Each query is compared with a definition that
shares nothing with it: points in time, or the commands of `Campaigns`.

`Measurements`, `Remediations`, `Lifecycle`. Rounds are numbered in the order of insertion; voids and
exclusions are records beside them; an evaluation is the set of samples it was computed from, since
input digest, metrics and deviations are functions of that set. A sample is its verdict (`good`,
`late`, `fast`), with the maximum of time deviations and the mean of frequency deviations computed
as the code does. A claim's expiry is an action, so it may fall between any two commands.
The mapping to `Dossier` forgets rounds, samples, plans and ledger: `Phase` joins the three states in
which a campaign is worked on, `Holder` is whose claim is in force, `Signer` who made the last review
once it is signed; the dossier's `raised` are the deviations' ids and `remedied` those not open.
`Endpoint` selects the commands clients use. There are two routes to a closed deviation: the run
`Lifecycle` takes `remediate` (its `retest-attempts` are for findings, since there are no plans), the
run `Remediation` takes plans, evidence, dependencies and `retest-attempts`.

`Previews`. `ReadyToSubmit` says that no check of `RemediationPreflight` blocks: its own copies of the
conditions of `RetestAttempt`, and a plan. `ReviewerEligibility` is compared with the commands it is
about, `ClaimReview` and `Reject`, by asking whether they are enabled. An evaluation is the set of
samples it was made from, so it can be reproduced just if all that is effective by now is that set.

## 3. Runs

Passing runs:

| Run | Question | Bounds |
|---|---|---|
| `CampaignCommit` | Do two concurrent writers or archives, with keys, `If-Match`, retries, failures and crashes, implement the atomic log, and is the chain whole? | 2 handlers, 1 key, 2 bodies, 2 tables (one read with its error dropped), `MaxRevision` 3 (1.1 million states) |
| `CampaignReaders` | Is what readers assemble from single statements one revision, is what is signed what was shown, does verification depend on anything but reads that failed unnoticed, is the artifact complete? | 2 handlers of all six kinds, 2 tables, `MaxRevision` 2 (1.9 million) |
| `Answered` | Is every request answered? | 2 handlers, 4 kinds, 1 table, `MaxRevision` 2, no symmetry (39,600) |
| `Campaigns` | Bookings, coverage, fingerprints, baselines, cancellation under concurrent requests; do the bookings implement the calendar? | 2 campaigns, 2 handlers, 3 bookings, 4 certificates, 5 events (1.4 million) |
| `Registry` | Do the queries answer what they should, in every registry the commands lead to? | 3 campaigns, one archived at the start, 1 handler, 4 bookings, 3 certificates, 6 candidates, 9 events (84,700) |
| `Lifecycle` | The rules that relate several commands; is whoever is told to be eligible able to claim and sign; does a campaign come to review only after what it measured was evaluated; do the commands implement the dossier? | 1 device, 3 people, 3 rounds, 3 evaluations, 2 reviews, 1 failed item (181,500) |
| `Remediation` | Plans, evidence, dependencies and retests in every order; does a retest do what its preflight says? | 2 devices with 1 metric over 4 rounds, 2 plan versions, 1 type of evidence (529,000) |

Why the bounds suffice for the cases meant: a lost update, a fork or a torn read needs two handlers and
one commit between two statements of the other. Writers arrive below revision `MaxRevision`, and two that
are in flight may still commit one after the other: with 2 that is a write and a review or an archive
after it, with readers at any time during and after them, and with 3 one more. A second table is what
makes a torn snapshot possible. The tables are chosen so that each kind of request but `SIGN` reads one
with its error dropped and one with its error looked at: `rounds`, whose errors nobody drops, and
`sample_exclusions` for the writers; `device_baselines`, dropped by archive and verification, and
`remediation_plans`, dropped by snapshots and writes, for the readers, each of them looked at by the
others. The three bookings share a station, share a device, and touch without overlapping; the
certificates contain two of one digest, which have two fingerprints, and two of the other kind, of which
each may correct the other. Five events are an archived campaign and a second one being created, with two
more in flight. That a successor is created at all takes more: `Registry` has that. `Registry` needs
registries, not races, so it has one handler and begins (`SeededInit`) after the four commands that
archive a first campaign, a state `Campaigns` reaches, on evidence whose ids nobody submits again; the
candidates for a preflight are those that are offered and some that differ from them in the digest, the
source or the id alone; three campaigns give a line of succession and a branch, and the bookings leave a
gap between two spans, fill it, and put a span inside another; questions last one or two units and begin
before, in and after them. Three rounds are a complete plan of two and one retest or void; two reviews
are a rejection and the review after it. Two devices give two deviations, so that one depends on the
other and a retest can close one of the two; four rounds are the plan and two retests. `MaxRevision`,
`MaxEvents`, `MaxRounds`, `MaxEvaluations`, `MaxPlans`, `MaxReviews` and `MaxFailed` are guards of the
actions that receive or store, never of an invariant. Deadlock is checked where the system never stops
(`CampaignCommit` and its runs) and off where the bounds or the archive end the behaviours. Symmetry is
used for ids the code does not compare or order, and not in the liveness run.

**Fairness.** `Answered` assumes weak fairness of each handler's steps: the Go scheduler runs every
runnable goroutine, and `sync.Mutex` hands over a contended lock (starvation mode), so a handler that
can take a step takes one. Nothing is assumed of clients or of crashes, and in the model losing the
race is itself an answer (a constraint error), so no retry loop has to be fair. `Fail` is not among the
fair steps, nor is `ReadPart`: a statement may fail and need not, and a request is answered either way.

Violation runs: what a document says and the code does not do.

| Run | The document | The code |
|---|---|---|
| `SameRequestReplayed` | README.md:50, the same request is replayed safely | a retry concurrent with its first attempt passes the replay check and fails on a key |
| `SignedAfterRemediation` | BENZHI_README.md:13, retests are completed, then the reviewer signs | resolving the last finding leads to review whether deviations are open or not; such a campaign is approved and can never be archived |
| `ResolvedByLaterRetest` | README.md:43, only a retest added after the rejection resolves a finding | the client's capture time is compared, not the order of insertion |
| `ExclusionsCount` | README.md:37, coverage uses samples that are not excluded | voiding a round recomputes the state with excluded samples put back |
| `BlockedStaysOpen` | README.md:34, a blocked deviation cannot submit a retest | `remediate` does not look at dependencies |

Also noted, without a run:

- a review snapshot made while a command commits is stored under the revision before the one it shows
  (it cannot be signed any more, see `SignedWhatWasShown`);
- `VerifyReproducibility` recomputes an evaluation from all rounds there are by now, so one more round,
  a retest too, makes a sound evaluation report a mismatch (README.md:38 does not say which rounds it
  means); `SignedIsEvaluated` says when it does confirm the last one;
- `remediation-preflight` says yes in any state that allows a measurement, where `retest-attempts` asks
  for `REMEDIATION_REQUIRED`, and leaves out deviations that are closed, where it refuses them:
  `RetestAsPredicted` is about open deviations in remediation;
- `reviewer-eligibility` and claims do not know the creator, who may claim but not sign
  (`EligibilityKeepsWord`);
- an amendment drops a successor's link to its predecessor (`SuccessorOfArchived` needs that) and leaves
  the baselines of devices that were replaced;
- `reference-preflight` is given the evidence in force only. A batch may use neither the id nor the digest
  nor the source (kind, provider, validity) of evidence that was replaced or withdrawn, no id that another
  campaign has, and no digest that is in force there with another fingerprint: `PreflightKeepsWord` says
  that it is right if none of these is the case, and that nothing approved passes if one is. Formats
  are left out: the preflight does not ask who submits, as the command does, and refuses an id of blanks,
  which the command takes;
- an archive during which the read of baselines, evidence ledger or exclusions fails is sealed without
  their rows, for good, and every verification of it reports a mismatch; so does a verification of a sound
  one whose own read fails (`ArtifactComplete`, `MismatchIsShortRead`);
- the previous slot of `resource-availability` ends by the start that was asked for, the next one may
  overlap the window asked for: `AvailabilityNearest` states both as they are;
- the observed value of a drift retest whose samples have one time is infinite, and its JSON encoding
  fails.

## 4. Proofs

All theorems hold for every value of the constants; TLC's instances are small cases of them.

**`CampaignCommitProofs`**: `TypeCorrect`, `AuditChainHolds`, `Refinement` (the handlers implement
`CampaignLog`), from `Invariance`. `AuditChain` is not inductive: that the event a handler is about
to insert continues the chain depends on what the handler read. The invariant adds that a handler's
row is a prefix of the campaign's history with the right revision, and that if its revision is still
the latest, its row *is* the stored row and the digest it read is the head. A commit passes the key
only in that case, so the new event extends the chain by one.

`Promise` reads the refinement as a client does, and is proved of the log alone and carried down: no key
is used twice in a campaign's history, every `If-Match` was honoured, and the archive is its last entry.
`RunOut` and `NeverBlocked` are what makes `Answered` true, without its fairness: every step leaves a
request in flight where it was, or at a later stage of its handler, or with one of its (finitely many)
tables less to read; and a request in flight always has a statement that it may execute now. Both follow
from `GoInv`: each step leaves the handler something to read exactly while there is something it has to
read.

**`CampaignReadersProofs`** extends them to what readers are told: `EvidenceHasEvent`,
`SnapshotsConsistent`, `SignedIsShown`, `ArtifactsComplete`, `MismatchesAreShortReads`, and the action
properties `DecisionsAreFresh` and `ConflictsAreReal`, from `ReadersInvariance`. Evidence is written
once: rows of revision *r* are stored with the campaign's revision *r* and never after. So a table read
while the campaign is at revision *n* or later has all rows up to *n*, unless its read failed;
`ReaderInv` states for each phase of a handler that the tables it has read so far have at least those,
but for tables whose failing read it does not notice, and no more if no event after *n* is stored when
the chain is read last, which is what the check of the chain's length amounts to. `Shows` is how the
properties say this of one table. Of a false alarm of verification two parts remain, `ShortRead`: the
artifact's rows are not all, or those just read are not. The other parts of `RInv` (`Sealed`,
`SnapshotsCurrent`) say the same of the stored artifact and snapshots.

**`CampaignsProofs`**: all seven properties of the run (`TypeCorrect`, `BookedOnce`, `Covered`,
`Fingerprints`, `BaselinesComeFirst`, `ClosedForGood`, `Refinement`) and `Succession`, from one invariant
`IInv`. Its core is `Timely`: a mutation in hand is a new campaign's, or it has the successor of a
stored revision and, *if that revision is still free*, it applies to what is stored (the campaign is
open, the booking of a mere `Commit` is the stored one, row and tables would agree). `PrepareStep`
shows it for each command when it decides, `CommitStep` that the commit of one mutation makes all
others of the same campaign untimely. Windows and fingerprints of other campaigns are not in `Timely`
at all: they are true because the transaction looks again, which `NoConflictAdmitted` isolates.
`Refinement` maps each commit to one step of `Calendar`: a creation, an amendment or a cancellation
books or releases (the campaign has no rounds yet, by the invariant), a first round uses, everything
else stutters. Two promises of the calendar are carried down from there: `SlotsExclusive` (no resource at
one moment has two holders) and `SlotsUsedForGood` (what a campaign with rounds holds stays its own,
whatever requests interleave). `NoLostUpdate`: whatever a step changes of a campaign comes with
the event of the revision right after the stored one. `Succession` is an invariant because an archived row never changes and amendments, the
only commands that change a booking, take the link away.

**`RegistryProofs`**: all seven properties of the run `Registry` (with `Succession` above), for any number
of campaigns, bookings and references. The queries have no state; what has to be invariant is what is
stored: `IInv` of `CampaignsProofs` and, by `StoredInvariance`, `StoredInv`: only evidence that was
submitted, finitely many campaigns, and in every set of them one whose predecessor is not in it.
The rest is about algorithms, in three layers.

- `DataInduction` gets around a limit of the provers: none can instantiate the library's induction
  theorems, whose parameter is a predicate. Its lemmas speak of the *set* of those for which something
  holds. From the well-founded order of the naturals follow induction, least and greatest members, the
  existence of a sorted listing (`SortedExists`), and that a fold (`FoldExists`) and a loop with a
  decreasing measure (`LoopExists`) are functions at all, without which nothing can be said of
  the `CHOOSE` in a recursive definition.
- `SpansProofs` gives each loop of the service on spans its invariant and proves that a round keeps it:
  `SweptTo` and `SweepStep` (every moment before the cursor is in a gap or in a span, and gaps do not
  touch), `MergedTo` and `MergeStep`. From these come `SweepExact`, `MergeExact` and `ResilienceExact`
  (moments between two cuts are alike), and `NextFree` and `PreviousFree`: no window between where a
  search begins and what it finds is free, and both loops end.
- `RegistryProofs` applies them to what is stored. `GapsAreExact`; `CriticalIsRight`, although the cuts move when a
  reference is left out: one that holds only where others do lies outside of all gaps and cuts none of
  them in two; `PreflightIsRight`, where the evidence of a campaign is what is in force and what is replaced
or withdrawn, so that what the batch compares with is what the preflight compares with and `Unspent`;
`AvailabilityIsNearest`, where a busy span is one that meets a
  slot held. `LineageIsSound`: the first walk computes the least set closed under predecessors
  (`AncestryIsUp`, the campaigns not seen yet grow fewer and a cycle would contradict `StoredInv`), the
  second the least one closed under successors (`DescentIsDown`); their composition is the same for
  all its members (`OneLine`), because predecessors are unique and lines therefore trees.

`Qualified`: two archived campaigns that qualify one device at one moment would share a slot, and
archived campaigns are past `DRAFT`, so covered.

**`LifecycleProofs`**: every property of the runs `Lifecycle` and `Remediation`. Two strengthenings
carry it: `Settled` (what each state implies about evaluations, claims, reviews, findings and open
deviations) and `Recorded` (what deviations, attempts and the ledger record about rounds and
evaluations). For example `ArchivedIsClean` needs that an approving review left no finding
unresolved and that nothing between approval and archive can add one; `EvaluatedDataIntact` needs
that states which permit a void imply that no evaluation used it; `SomethingActionable` follows from
every set of deviations having a member without a prerequisite in it, which the acyclicity check
keeps true across batches. `RecordIsKept` is an action property that no run checks: rounds, voids,
exclusions, evaluations, reviews, findings and their resolutions, evidence, dependencies and plan
versions are only ever added to, and a closed deviation stays as it was closed.

`DossierKept` is the refinement of `Dossier`, one lemma per entry of it. `StepCases` splits the steps
into those of reviewers and of work. A retest is an entry *Remedy* with what is open before and not
after it, or a mere *Capture* when that is nothing; and it leads to the review just if that was all that
was open. An answer is the same for findings. An evaluation goes to review only if it
raises nothing. A rejection objects to something *new* because its findings carry the number of a
review that was not on record: that is where `Recorded` is needed. Commands on plans, evidence,
dependencies, voids and exclusions write no entry. `ArchiveIsFinal`, an action property that no run
checks, says of the commands themselves that none changes an archived campaign.

**`PreviewsProofs`**: `SignedAfterEvaluation`, `RetestsArePredicted` and `EligibilityIsReliable`. `SignedIsEvaluated` speaks of
three states and is not inductive; `Reckoned` says of every state but `REFERENCE_VERIFIED` and `MEASURED`
that the latest evaluation has all original rounds in force. It is inductive because a step that leads
out of these two is an evaluation, and a step between the others stores no round but a retest and takes
nothing back (`CarryCases`). With `EvaluationsIntact` the latest evaluation then *is* what is in force,
unless there are retests. `RetestsArePredicted` says of every step that is an accepted retest what
`RetestAsPredicted` says of the preflight and `ENABLED`: that it asks for no plan makes no difference,
because evidence names a plan's version. `EligibilityIsReliable` does the same for `EligibilityKeepsWord`
(only who is eligible claims or signs) and says how long the answer is good: until somebody else claims
the review or it is signed, since nobody becomes an operator while it is pending. The converses name the
successor: `EligibleMayClaim`, `EligibleMaySign` and `ReadyMaySubmit` say that the claim, review or
retest written out in their hypotheses is a step of the command, given only what the preview answered.

**Assumptions**: `ConstantsAssumption`, `CampaignsAssumption`, `NilAssumption`, `RegistryAssumption`,
`MeasurementsAssumption`, `RemediationsAssumption`, `LifecycleAssumption`, `PreviewsAssumption` (some
evidence is asked for): what the constants are, and that `Nil` is not one of the values it is told apart
from (a campaign without predecessor has the empty string there, which is no id). `RegistryAssumption`
has the evidence that clients offer finite: requests are, and the sweep and the cuts are loops over
it. The set of campaigns may be infinite. TLC evaluates each assumption in a run.

**Only model-checked.** What is written with `ENABLED` or fairness is beyond the proof system; for each of
the three properties concerned, what it amounts to is proved.

- `Answered`: `RunOut` and `NeverBlocked` are the two halves of the argument. That fairness turns
  "may go on, with less to do" into "goes on, and ends" is checked by TLC only.
- `EligibilityKeepsWord`: `EligibilityIsReliable` is the half that speaks of claims and reviews that
  happen, `EligibleMayClaim` and `EligibleMaySign` the half that speaks of those that can.
- `RetestAsPredicted`: `RetestsArePredicted` and `ReadyMaySubmit`, likewise.

That the successors named there make `ENABLED` true is left to TLC. All other properties of the passing
runs are proved.

## 5. Not modelled, and why

- Analyses but for `reference-resilience` (`domain/analysis.go`, `environment_correlation.go`), the drift
  slope and regression: floating-point statistics over stored rounds, without effect on the state but
  for the drift metric, which is left out of `Measurements`.
- The comparison of two artifacts, the qualification matrix (several checks side by side), the
  simulations: listings of stored values, which no command reads.
- The preview of measurements. It writes nothing and asks a smaller question than the command: it knows
  duplicates only among effective rounds, and what it says besides is about times and environment, which
  samples do not have here. Of the preview of remediations the drift slope is left out, for which it
  looks at the effective rounds and the command at all of them.
- Of failing reads: rows that `store.go:297-299`, `407-409`, `444-446` and `465-467` would skip over or
  leave empty if they could not be decoded, since every row is the encoding of the same type and decodes;
  in a short read a revision counts as read if all of its rows were. The archive's first read of
  the reviews (`service.go:808`), which only finds the name to print on the artifact; the reads of previews and
  summaries that write nothing (`extensions.go:139`, `304`, `605`, `refill.go:265`, `v40.go:249`,
  `service.go:447`, `456`) and, as the seals of a source are taken to verify, `v41.go:375`.
  Verification is always of all sections.
- Idempotency keys of creations. A retry that meets its own first attempt is answered "already exists";
  the second replay (`service.go:186`) is reached only by a window conflict, which comes after it.
- Who submits evidence, device data, thresholds, measurement plan details, wording and codes of refusals,
  decoding, `main.go`.
- The single-table `Save...` operations of the store and the in-memory audit `Log`: no handler
  calls them.

## 6. Order of work, and what could follow

The modules were written in the order of what rests on them: the commit protocol with its refinement,
the life cycle of a campaign, several campaigns with theirs, the queries, the dossier; the proofs after the runs of
each. What would come next:

1. keys and the second replay in `Campaigns`, which doubles the steps of a creation;
2. the composition of `Campaigns` and `Lifecycle` as a refinement (`Campaigns` has the states after
   `MEASURED` in outline);
3. the drift metric as a sign of a slope, with the measurement preflight against its command.
