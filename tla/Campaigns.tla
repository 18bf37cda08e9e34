------------------------------ MODULE Campaigns ------------------------------
(***************************************************************************)
(* All campaigns, up to the verified references and what comes after them  *)
(* in outline: how they book a station and devices for a window of time,   *)
(* how they are created, amended, succeeded and cancelled, and how the     *)
(* reference evidence that covers the window is added, replaced and        *)
(* withdrawn.                                                              *)
(*                                                                         *)
(* A handler has two steps: it reads and decides, which leaves it with a   *)
(* mutation in hand, and commits the mutation in one transaction.  It      *)
(* reads the row of its own campaign first and the tables after it, so one *)
(* step is enough: if a commit comes in between, the revision it goes for  *)
(* is taken.  CampaignCommit reads table by table, and has the retries,    *)
(* the audit digests and crashes.  What a transaction looks at again are   *)
(* the other campaigns: windows when a campaign is created or amended,     *)
(* certificates when evidence is added.                                    *)
(*                                                                         *)
(* Left out: who submits evidence; the devices' types, serials and         *)
(* calibration; thresholds and the measurement plan.                       *)
(***************************************************************************)
EXTENDS Naturals, FiniteSets

CONSTANTS Campaign,   \* campaign ids
          Handler,    \* requests that can be in flight at once
          Station, Device,
          Id, Digest, Provider,   \* of reference evidence
          Asked,      \* the bookings clients ask for
          Offered,    \* the evidence they submit
          MaxEvents,  \* bound: no request is received with so many events stored
          Nil

Booking ==
  {b \in [station : Station, devices : (SUBSET Device) \ {{}}, start : Nat, end : Nat] :
     b.start < b.end}

Kinds == {"clock", "frequency"}

Reference ==
  {r \in [id : Id, digest : Digest, kind : Kinds, provider : Provider,
          from : Nat, until : Nat] : r.from < r.until}

\* CertificateFingerprint of a certificate, and the tuple a batch compares.
Fingerprint(r) == <<r.kind, r.provider, r.from, r.until>>

ASSUME CampaignsAssumption ==
  /\ Asked \subseteq Booking
  /\ Offered \subseteq Reference
  /\ MaxEvents \in Nat

VARIABLES
  campaigns,  \* id -> row, or Nil
  tables,     \* id -> what the campaign's other tables hold
  events,     \* id -> revisions of its audit events
  pending     \* handler -> the mutation it is about to commit, or Nil

vars == <<campaigns, tables, events, pending>>
-----------------------------------------------------------------------------
States == {"DRAFT", "REFERENCE_VERIFIED", "MEASURED", "ARCHIVED", "CANCELLED"}

\* MEASURED stands for all states between the first round and the archive.
Row == [booking : Booking, state : States, revision : Nat \ {0},
        predecessor : Campaign \cup {Nil}]

ASSUME NilAssumption == Nil \notin Row \cup Campaign

\* measured tells whether there are rounds, voided ones included.
Tables == [references : SUBSET Reference, replaced : SUBSET Reference,
           withdrawn : SUBSET Reference, baselines : SUBSET Device, measured : BOOLEAN]

Empty == [references |-> {}, replaced |-> {}, withdrawn |-> {}, baselines |-> {},
          measured |-> FALSE]

\* What a handler commits: a row, and what it adds to the tables.
Mutation == [call : {"CreateCampaignAtomic", "CommitAmendment", "Commit"},
             campaign : Campaign, row : Row, adds : Tables]

\* EffectiveReferences: neither replaced nor withdrawn.
EffectiveOf(t) == t.references \ (t.replaced \cup t.withdrawn)
EffectiveReferences(c) == EffectiveOf(tables[c])

\* coverageGaps: one of the references, all of one kind, is valid at t.
Holds(refs, kind, t) == \E r \in refs : r.kind = kind /\ r.from <= t /\ t < r.until

\* ReferenceCoverage: neither kind leaves a gap in the window.
Covers(refs, b) ==
  \A kind \in Kinds : \A t \in b.start .. b.end - 1 : Holds(refs, kind, t)

StateCovered(refs, b) == IF Covers(refs, b) THEN "REFERENCE_VERIFIED" ELSE "DRAFT"

\* Half-open windows.
Overlaps(a, b) == a.start < b.end /\ b.start < a.end

Shares(a, b) == a.station = b.station \/ a.devices \cap b.devices # {}

\* WindowConflicts of campaign c, were its booking b.
WindowConflicts(c, b) ==
  {d \in Campaign \ {c} :
     /\ campaigns[d] # Nil /\ campaigns[d].state # "CANCELLED"
     /\ Overlaps(b, campaigns[d].booking) /\ Shares(b, campaigns[d].booking)}

\* CompareCertificateFingerprint: in other campaigns the digest of r, if it is
\* in use there, has the fingerprint of r.
FingerprintUnchecked(c, r) == TRUE   \* Mutant: the transaction trusts the handler.
FingerprintAgrees(c, r) ==
  \A d \in Campaign \ {c} : \A q \in EffectiveReferences(d) :
    q.digest = r.digest => Fingerprint(q) = Fingerprint(r)

\* certificateSources, by which a handler refuses before any transaction.
CertificateSources(c, r) ==
  \A d \in Campaign \ {c} : \A q \in EffectiveReferences(d) :
    q.digest = r.digest => Fingerprint(q) = Fingerprint(r)

Exists(c) == campaigns[c] # Nil
InState(c, states) == Exists(c) /\ campaigns[c].state \in states
-----------------------------------------------------------------------------
(* What handlers read and decide *)

\* All audit events.
Stored == UNION {{<<c, n>> : n \in events[c]} : c \in Campaign}

\* Handler h is free for another request.
Receive(h) == pending[h] = Nil /\ Cardinality(Stored) < MaxEvents

\* Handler h takes mutation m in hand.
Prepare(h, m) ==
  /\ pending' = [pending EXCEPT ![h] = m]
  /\ UNCHANGED <<campaigns, tables, events>>

\* The next revision of campaign c, in state s, with additions to its tables.
Revise(c, s, adds) ==
  [call |-> "Commit", campaign |-> c,
   row |-> [campaigns[c] EXCEPT !.state = s, !.revision = @ + 1], adds |-> adds]

\* Mutant: the revision is left to be set by the first change.
NewRowUnnumbered(b, predecessor) ==
  [booking |-> b, state |-> "DRAFT", revision |-> 0, predecessor |-> predecessor]

NewRow(b, predecessor) ==
  [booking |-> b, state |-> "DRAFT", revision |-> 1, predecessor |-> predecessor]

\* createWithPlan.
Create(h, c, b) ==
  Prepare(h, [call |-> "CreateCampaignAtomic", campaign |-> c,
              row |-> NewRow(b, Nil), adds |-> Empty])

\* CreateSuccessor: the station and the devices of an archived campaign.
CreateSuccessor(h, c, source, b) ==
  /\ InState(source, {"ARCHIVED"})
  /\ b.station = campaigns[source].booking.station
  /\ b.devices = campaigns[source].booking.devices
  /\ Prepare(h, [call |-> "CreateCampaignAtomic", campaign |-> c,
                 row |-> NewRow(b, source), adds |-> Empty])

\* Mutant: the link to the predecessor is copied, too.
AmendCampaignLinked(h, c, b) ==
  /\ InState(c, {"DRAFT"})
  /\ Prepare(h, [call |-> "CommitAmendment", campaign |-> c, adds |-> Empty,
                 row |-> [NewRow(b, campaigns[c].predecessor) EXCEPT
                            !.revision = campaigns[c].revision + 1]])

\* AmendCampaign: a row made by NewCampaign, which knows no predecessor.
AmendCampaign(h, c, b) ==
  /\ InState(c, {"DRAFT"})
  /\ Prepare(h, [call |-> "CommitAmendment", campaign |-> c, adds |-> Empty,
                 row |-> [NewRow(b, Nil) EXCEPT !.revision = campaigns[c].revision + 1]])

\* RegisterDeviceBaselines: once, for all devices, before any evidence.
\* Mutant: it may come after the first evidence.
RegistrableLate(t) == t.baselines = {} /\ ~t.measured
Registrable(t) == t.baselines = {} /\ t.references = {} /\ ~t.measured

RegisterDeviceBaselines(h, c) ==
  /\ InState(c, {"DRAFT"})
  /\ Registrable(tables[c])
  /\ Prepare(h, Revise(c, "DRAFT",
                       [Empty EXCEPT !.baselines = campaigns[c].booking.devices]))

\* Nothing in the batch has an id or a digest of refs, or of its own.
NewIds(refs, batch) ==
  \A r \in batch : \A q \in refs \cup (batch \ {r}) : q.id # r.id /\ q.digest # r.digest

\* Nothing in it is of a kind, provider and validity that occur there.
NewSources(refs, batch) ==
  \A r \in batch : \A q \in refs \cup (batch \ {r}) : Fingerprint(q) # Fingerprint(r)

\* References to be added, compared with all there have ever been in the campaign.
AddReferences(h, c, batch) ==
  /\ InState(c, {"DRAFT"})
  /\ NewIds(tables[c].references, batch)
  /\ \A r \in batch : CertificateSources(c, r)
  /\ Prepare(h, Revise(c, StateCovered(EffectiveReferences(c) \cup batch, campaigns[c].booking),
                       [Empty EXCEPT !.references = batch]))

\* One reference, whose kind, provider and validity may have been there.
ReferenceDetailed(h, c, r) == AddReferences(h, c, {r})

ConfirmReferenceBatch(h, c, batch) ==
  /\ batch # {} /\ NewSources(tables[c].references, batch)
  /\ AddReferences(h, c, batch)

\* CorrectReference: r, of the same kind, takes the place of old.
CorrectReference(h, c, old, r) ==
  /\ InState(c, {"DRAFT"})
  /\ old \in EffectiveReferences(c) /\ r.kind = old.kind
  /\ NewIds(tables[c].references, {r})
  /\ CertificateSources(c, r)
  /\ Prepare(h, Revise(c, StateCovered((EffectiveReferences(c) \ {old}) \cup {r},
                                       campaigns[c].booking),
                       [Empty EXCEPT !.references = {r}, !.replaced = {old}]))

\* Mutant: a withdrawal leaves the state alone.
StateUnlessCovered(refs, row) == row.state
StateWithout(refs, row) == StateCovered(refs, row.booking)

\* WithdrawReference: as long as there are no rounds.
WithdrawReference(h, c, old) ==
  /\ InState(c, {"DRAFT", "REFERENCE_VERIFIED"})
  /\ ~tables[c].measured
  /\ old \in EffectiveReferences(c)
  /\ Prepare(h, Revise(c, StateWithout(EffectiveReferences(c) \ {old}, campaigns[c]),
                       [Empty EXCEPT !.withdrawn = {old}]))

\* MeasureIdem, and the commands that follow it: rounds are stored, the
\* campaign is measured or falls back.
Measure(h, c, s) ==
  /\ InState(c, {"REFERENCE_VERIFIED", "MEASURED"})
  /\ s \in {"REFERENCE_VERIFIED", "MEASURED"}
  /\ Prepare(h, Revise(c, s, [Empty EXCEPT !.measured = TRUE]))

Archive(h, c) ==
  /\ InState(c, {"MEASURED"})
  /\ Prepare(h, Revise(c, "ARCHIVED", Empty))

\* CancelCampaign, ValidateCancellation.
CancellableAlways(c) == InState(c, {"DRAFT", "REFERENCE_VERIFIED"})   \* Mutant: rounds or not.
Cancellable(c) == InState(c, {"DRAFT", "REFERENCE_VERIFIED"}) /\ ~tables[c].measured

CancelCampaign(h, c) ==
  /\ Cancellable(c)
  /\ Prepare(h, Revise(c, "CANCELLED", Empty))
-----------------------------------------------------------------------------
(* The three transactions *)

\* PRIMARY KEY(campaign_id, revision) of audit_events.
NoFence(m) == TRUE   \* Mutant: no key on the audit events.
UniqueEvent(m) == m.row.revision \notin events[m.campaign]

\* PRIMARY KEY(id) of refs: no campaign has evidence with an id of the batch.
UniqueIds(batch) ==
  \A r \in batch : \A d \in Campaign : \A q \in tables[d].references : q.id # r.id

\* The transactions that look at the windows of other campaigns.
CheckedAtCreation == {"CreateCampaignAtomic"}   \* Mutant: amendments do not.
Checked == {"CreateCampaignAtomic", "CommitAmendment"}

\* What each transaction looks at before it writes, all of it in one go.
Admits(m) ==
  /\ m.call = "CreateCampaignAtomic" => ~Exists(m.campaign)
  /\ m.call \in Checked => WindowConflicts(m.campaign, m.row.booking) = {}
  /\ \A r \in m.adds.references : FingerprintAgrees(m.campaign, r)
  /\ UniqueIds(m.adds.references)
  /\ UniqueEvent(m)

\* Rows are only ever added to the tables.
Added(t, adds) ==
  [references |-> t.references \cup adds.references,
   replaced |-> t.replaced \cup adds.replaced,
   withdrawn |-> t.withdrawn \cup adds.withdrawn,
   baselines |-> t.baselines \cup adds.baselines,
   measured |-> t.measured \/ adds.measured]

Commit(h) ==
  /\ pending[h] # Nil
  /\ LET m == pending[h]
     IN  /\ Admits(m)
         /\ campaigns' = [campaigns EXCEPT ![m.campaign] = m.row]
         /\ tables' = [tables EXCEPT ![m.campaign] = Added(@, m.adds)]
         /\ events' = [events EXCEPT ![m.campaign] = @ \cup {m.row.revision}]
  /\ pending' = [pending EXCEPT ![h] = Nil]

\* A transaction that finds an obstacle is rolled back, and the client told.
Rollback(h) ==
  /\ pending[h] # Nil
  /\ ~Admits(pending[h])
  /\ pending' = [pending EXCEPT ![h] = Nil]
  /\ UNCHANGED <<campaigns, tables, events>>
-----------------------------------------------------------------------------
Init ==
  /\ campaigns = [c \in Campaign |-> Nil]
  /\ tables = [c \in Campaign |-> Empty]
  /\ events = [c \in Campaign |-> {}]
  /\ pending = [h \in Handler |-> Nil]

Opening(h, c) ==
  \E b \in Asked :
    \/ Create(h, c, b)
    \/ \E source \in Campaign : CreateSuccessor(h, c, source, b)
    \/ AmendCampaign(h, c, b)

Referencing(h, c) ==
  \/ RegisterDeviceBaselines(h, c)
  \/ \E r \in Offered : ReferenceDetailed(h, c, r)
  \/ \E batch \in SUBSET Offered : ConfirmReferenceBatch(h, c, batch)
  \/ \E old \in Offered : \/ WithdrawReference(h, c, old)
                          \/ \E r \in Offered : CorrectReference(h, c, old, r)

Closing(h, c) ==
  \/ \E s \in States : Measure(h, c, s)
  \/ Archive(h, c)
  \/ CancelCampaign(h, c)

Next ==
  \E h \in Handler :
    \/ /\ Receive(h)
       /\ \E c \in Campaign : Opening(h, c) \/ Referencing(h, c) \/ Closing(h, c)
    \/ Commit(h)
    \/ Rollback(h)

Spec == Init /\ [][Next]_vars
-----------------------------------------------------------------------------
TypeOK ==
  /\ campaigns \in [Campaign -> Row \cup {Nil}]
  /\ tables \in [Campaign -> Tables]
  /\ events \in [Campaign -> SUBSET Nat]
  /\ pending \in [Handler -> Mutation \cup {Nil}]

\* No station and no device is promised to two campaigns at one time, however
\* creations, amendments, cancellations and commands that decided on a row
\* cancelled or moved since then interleave.
NoDoubleBooking ==
  \A c, d \in Campaign :
    /\ c # d
    /\ Exists(c) /\ campaigns[c].state # "CANCELLED"
    /\ Exists(d) /\ campaigns[d].state # "CANCELLED"
    /\ Shares(campaigns[c].booking, campaigns[d].booking)
    => ~Overlaps(campaigns[c].booking, campaigns[d].booking)

\* A campaign past DRAFT has references without a gap in the window it has
\* now, although windows are moved and references withdrawn by others.
VerifiedIsCovered ==
  \A c \in Campaign : InState(c, {"REFERENCE_VERIFIED", "MEASURED", "ARCHIVED"}) =>
    Covers(EffectiveReferences(c), campaigns[c].booking)

\* A certificate digest in use has one fingerprint, in whatever campaigns it
\* is used, and even if they submit it at the same time.
FingerprintsAgree ==
  \A c, d \in Campaign :
    \A q \in EffectiveReferences(c), r \in EffectiveReferences(d) :
      q.digest = r.digest => Fingerprint(q) = Fingerprint(r)

\* The row's predecessor, among rows, is archived and has its resources.
Inherits(row, rows) ==
  row.predecessor # Nil =>
    LET source == rows[row.predecessor]
    IN  /\ source # Nil /\ source.state = "ARCHIVED"
        /\ source.booking.station = row.booking.station
        /\ source.booking.devices = row.booking.devices

\* A successor keeps what it inherited: as long as it names a predecessor,
\* that one is archived and has the same station and devices.  Neither the
\* amendments of a successor nor what becomes of its source gets around it.
SuccessorOfArchived == \A c \in Campaign : Exists(c) => Inherits(campaigns[c], campaigns)

\* Baselines are registered before the first evidence or not at all.
BaselinesFirst ==
  [][\A c \in Campaign : tables'[c].baselines # tables[c].baselines =>
       tables'[c].references = {}]_vars

\* What is archived or cancelled stays as it was, whatever handlers still
\* have in hand for it.
ClosedIsFinal ==
  [][\A c \in Campaign : InState(c, {"ARCHIVED", "CANCELLED"}) =>
       campaigns'[c] = campaigns[c] /\ tables'[c] = tables[c]]_vars

\* The moments at which a booking occupies its station and its devices.
Slots(b) ==
  ({<<"station", b.station>>} \cup {<<"device", d>> : d \in b.devices})
    \X (b.start .. b.end - 1)

\* Only a cancelled campaign gives its slots back.
Held == [c \in Campaign |-> IF InState(c, States \ {"CANCELLED"})
                           THEN Slots(campaigns[c].booking) ELSE {}]

Used == {c \in Campaign : tables[c].measured}

\* Handlers that read, decide, and commit later implement a calendar that does
\* it all at once: what one holds no other gets, and what was measured in is
\* neither exchanged nor given back, although amendments, cancellations and
\* first rounds of one campaign may all be in hand at the same time.
Booked == INSTANCE Calendar WITH
            Allotments <- {Slots(b) : b \in Asked}, held <- Held, used <- Used
ImplementsCalendar == Booked!Spec
=============================================================================
