---------------------------- MODULE RegistryProofs ----------------------------
(***************************************************************************)
(* What is proved about the queries of Registry.  SpansProofs has what     *)
(* their algorithms do with any finite evidence and any bookings; here it  *)
(* is put together with what is known of the stored campaigns: that they   *)
(* and their evidence are finite in number, that none is verified without  *)
(* evidence for its window, that no two share resources at one time, and   *)
(* that whoever is named as a predecessor was there before.                *)
(***************************************************************************)
EXTENDS SpansProofs, CampaignsProofs
-----------------------------------------------------------------------------
(* What is stored *)

\* All evidence has been submitted by somebody.
Submitted ==
  /\ \A c \in Campaign : tables[c].references \subseteq Offered
  /\ \A h \in Handler : pending[h] # Nil => pending[h].adds.references \subseteq Offered

\* Among campaigns, one is always the first to name its predecessor.
Acyclic ==
  \A U \in SUBSET ListCampaigns : U # {} => \E d \in U : campaigns[d].predecessor \notin U

\* What the queries need to know of the stored campaigns, beside IInv.
StoredInv == Submitted /\ IsFiniteSet(ListCampaigns) /\ Acyclic

\* What handlers take in hand adds evidence that was submitted.
LEMMA PreparedIsSubmitted ==
  ASSUME IInv, Submitted, NEW h \in Handler, NEW c \in Campaign,
         Opening(h, c) \/ Referencing(h, c) \/ Closing(h, c)
  PROVE  Submitted'
  <1>1. ASSUME NEW m, Prepare(h, m), m.adds.references \subseteq Offered
        PROVE  Submitted'
    BY <1>1 DEF Prepare, Submitted, IInv, TypeOK
  <1>2. Empty.references = {}
    BY DEF Empty
  <1>3. CASE Opening(h, c)
    BY <1>1, <1>2, <1>3 DEF Opening, Create, CreateSuccessor, AmendCampaign
  <1>4. CASE Closing(h, c)
    BY <1>1, <1>2, <1>4 DEF Closing, Measure, Archive, CancelCampaign, Revise, Empty
  <1>5. CASE Referencing(h, c)
    <2>1. CASE RegisterDeviceBaselines(h, c)
      BY <1>1, <2>1 DEF RegisterDeviceBaselines, Revise, Empty
    <2>2. ASSUME NEW batch \in SUBSET Offered, AddReferences(h, c, batch)
          PROVE  Submitted'
      BY <1>1, <2>2 DEF AddReferences, Revise, Empty
    <2>3. ASSUME NEW old \in Offered, WithdrawReference(h, c, old)
          PROVE  Submitted'
      BY <1>1, <2>3 DEF WithdrawReference, Revise, Empty
    <2>4. ASSUME NEW old \in Offered, NEW r \in Offered, CorrectReference(h, c, old, r)
          PROVE  Submitted'
      <3>1. {r} \subseteq Offered
        OBVIOUS
      <3> QED
        BY <1>1, <2>4, <3>1 DEF CorrectReference, Revise, Empty
    <2> QED
      BY <1>5, <2>1, <2>2, <2>3, <2>4 DEF Referencing, ReferenceDetailed, ConfirmReferenceBatch
  <1> QED
    BY <1>3, <1>4, <1>5

\* A commit adds one campaign, or changes one that has no other predecessor
\* then than before.
LEMMA CommitStores ==
  ASSUME IInv, StoredInv, NEW h \in Handler, Commit(h)
  PROVE  StoredInv'
  <1> DEFINE m == pending[h]
             c == m.campaign
  <1>1. /\ m # Nil /\ Admits(m)
        /\ campaigns' = [campaigns EXCEPT ![c] = m.row]
        /\ tables' = [tables EXCEPT ![c] = Added(@, m.adds)]
        /\ pending' = [pending EXCEPT ![h] = Nil]
    BY DEF Commit
  <1>2. /\ m \in Mutation /\ c \in Campaign /\ m.row \in Row /\ m.adds \in Tables
        /\ m.call = "CreateCampaignAtomic" => ~Exists(c) /\ Inherits(m.row, campaigns)
        /\ m.call # "CreateCampaignAtomic" => Exists(c) /\ Applies(m)
    BY <1>1, AdmittedApplies
  <1>3. /\ campaigns'[c] = m.row /\ tables'[c] = Added(tables[c], m.adds) /\ pending'[h] = Nil
        /\ \A d \in Campaign \ {c} : campaigns'[d] = campaigns[d] /\ tables'[d] = tables[d]
        /\ \A g \in Handler \ {h} : pending'[g] = pending[g]
        /\ m.row # Nil
    BY <1>1, <1>2, NilAssumption DEF IInv, TypeOK
  <1>4. Submitted'
    <2>1. m.adds.references \subseteq Offered
      BY <1>1 DEF StoredInv, Submitted
    <2>2. tables'[c].references \subseteq Offered
      BY <1>2, <1>3, <2>1 DEF StoredInv, Submitted, Added
    <2> HIDE DEF m, c
    <2> QED
      BY <1>3, <2>2 DEF StoredInv, Submitted
  <1> HIDE DEF m, c
  <1>5. ListCampaigns' = ListCampaigns \cup {c}
    BY <1>2, <1>3 DEF ListCampaigns, Exists
  <1>6. IsFiniteSet(ListCampaigns')
    BY <1>5, FS_AddElement DEF StoredInv
  <1>7. ASSUME NEW d \in ListCampaigns
        PROVE  campaigns[d].predecessor = Nil \/ campaigns[d].predecessor \in ListCampaigns
    BY <1>7 DEF IInv, SuccessorOfArchived, Inherits, ListCampaigns, Exists, TypeOK, Row
  <1>8. campaigns'[c].predecessor = Nil \/ campaigns'[c].predecessor \in ListCampaigns
    <2>1. CASE m.call = "CreateCampaignAtomic"
      BY <1>2, <1>3, <2>1 DEF Inherits, ListCampaigns, Exists, Row
    <2>2. CASE m.call # "CreateCampaignAtomic"
      <3>1. Applies(m) /\ c \in ListCampaigns
        BY <1>2, <2>2 DEF ListCampaigns
      <3>2. m.row.predecessor = campaigns[c].predecessor \/ m.row.predecessor = Nil
        BY <3>1 DEF Applies, c
      <3> QED
        BY <1>3, <1>7, <3>1, <3>2
    <2> QED
      BY <2>1, <2>2
  <1>9. ASSUME NEW U \in SUBSET ListCampaigns', U # {}
        PROVE  \E d \in U : campaigns'[d].predecessor \notin U
    <2>1. Nil \notin U /\ U \subseteq Campaign
      BY NilAssumption DEF ListCampaigns
    <2>2. CASE m.call = "CreateCampaignAtomic"
      <3>1. c \notin ListCampaigns
        BY <1>2, <2>2 DEF ListCampaigns
      <3>2. CASE U = {c}
        BY <1>8, <2>1, <3>1, <3>2
      <3>3. CASE U # {c}
        <4>1. U \ {c} \in SUBSET ListCampaigns /\ U \ {c} # {}
          BY <1>5, <1>9, <3>3
        <4>2. PICK d \in U \ {c} : campaigns[d].predecessor \notin U \ {c}
          BY <4>1 DEF StoredInv, Acyclic
        <4>3. campaigns[d].predecessor # c
          BY <1>2, <1>7, <3>1, <4>1, <4>2, NilAssumption
        <4>4. campaigns'[d] = campaigns[d]
          BY <1>3, <2>1, <4>2
        <4> QED
          BY <4>2, <4>3, <4>4
      <3> QED
        BY <3>2, <3>3
    <2>3. CASE m.call # "CreateCampaignAtomic"
      <3>1. c \in ListCampaigns /\ U \in SUBSET ListCampaigns
        BY <1>2, <1>5, <2>3 DEF ListCampaigns
      <3>2. PICK d \in U : campaigns[d].predecessor \notin U
        BY <1>9, <3>1 DEF StoredInv, Acyclic
      <3>3. campaigns'[d].predecessor = campaigns[d].predecessor \/ campaigns'[d].predecessor = Nil
        <4>1. CASE d = c
          BY <1>2, <1>3, <2>3, <4>1 DEF Applies, c
        <4>2. CASE d # c
          BY <1>3, <2>1, <3>2, <4>2
        <4> QED
          BY <4>1, <4>2
      <3> QED
        BY <2>1, <3>2, <3>3
    <2> QED
      BY <2>2, <2>3
  <1>10. Acyclic'
    BY <1>9 DEF Acyclic
  <1> QED
    BY <1>4, <1>6, <1>10 DEF StoredInv

\* No step of a handler disturbs it.
LEMMA StoredStepwise == IInv /\ StoredInv /\ [Next]_vars => StoredInv'
  <1> SUFFICES ASSUME IInv, StoredInv, [Next]_vars PROVE StoredInv'
    OBVIOUS
  <1>1. CASE \E h \in Handler : Commit(h)
    BY <1>1, CommitStores
  <1>2. CASE ~\E h \in Handler : Commit(h)
    <2>1. UNCHANGED <<campaigns, tables>>
      BY <1>2, OnlyCommits
    <2>2. IsFiniteSet(ListCampaigns') /\ Acyclic'
      BY <2>1 DEF StoredInv, Acyclic, ListCampaigns, Exists
    <2>3. Submitted'
      <3>1. CASE \E h \in Handler, c \in Campaign :
                   Opening(h, c) \/ Referencing(h, c) \/ Closing(h, c)
        BY <3>1, PreparedIsSubmitted DEF StoredInv
      <3>2. CASE \E h \in Handler : Rollback(h)
        BY <2>1, <3>2 DEF Rollback, StoredInv, Submitted, IInv, TypeOK
      <3>3. CASE UNCHANGED vars
        BY <3>3 DEF vars, StoredInv, Submitted
      <3> QED
        BY <1>2, <3>1, <3>2, <3>3 DEF Next
    <2> QED
      BY <2>2, <2>3 DEF StoredInv
  <1> QED
    BY <1>1, <1>2

\* All that is stored at any time: a finite number of campaigns, with evidence
\* that was submitted, and no cycle of predecessors.
THEOREM StoredInvariance == Spec => []StoredInv
  <1>1. Init => StoredInv
    <2> SUFFICES ASSUME Init PROVE StoredInv
      OBVIOUS
    <2>1. ListCampaigns = {}
      BY DEF Init, ListCampaigns, Exists
    <2>2. Submitted
      BY DEF Init, Submitted, Empty
    <2> QED
      BY <2>1, <2>2, FS_EmptySet DEF StoredInv, Acyclic
  <1> QED
    BY <1>1, StoredStepwise, Invariance, PTL DEF Spec
-----------------------------------------------------------------------------
(* Qualification *)

\* A conclusion COVERED means that the question's window is within the other.
LEMMA CoveredIsWithin ==
  ASSUME NEW b \in Booking, NEW q \in Booking, WindowConclusion(b, q) = "COVERED"
  PROVE  b.start <= q.start /\ q.end <= b.end
  BY DEF WindowConclusion, Booking

\* Evidence for a window is evidence for any window within it.
LEMMA CoversWithin ==
  ASSUME NEW b \in Booking, NEW q \in Booking, NEW refs,
         b.start <= q.start, q.end <= b.end, Covers(refs, b)
  PROVE  Covers(refs, q)
  <1>1. \A t \in q.start .. q.end - 1 : t \in b.start .. b.end - 1
    BY DEF Booking
  <1> QED
    BY <1>1 DEF Covers

\* Windows that have a window in common overlap.
LEMMA WithinBothOverlap ==
  ASSUME NEW a \in Booking, NEW b \in Booking, NEW q \in Booking,
         a.start <= q.start, q.end <= a.end, b.start <= q.start, q.end <= b.end
  PROVE  Overlaps(a, b)
  BY DEF Booking, Overlaps

\* Whatever is asked, at most one campaign qualifies it, and evidence is in
\* force for all of the window (BuildQualificationCheck, WindowConflicts).
THEOREM Qualified == Spec => []QualifiedOnce
  <1>1. TypeOK /\ NoDoubleBooking /\ VerifiedIsCovered => QualifiedOnce
    <2>1. SUFFICES ASSUME TypeOK, NoDoubleBooking, VerifiedIsCovered,
                          NEW q \in Questions, NEW c \in Campaign, Qualifies(c, q)
                   PROVE  /\ Covers(EffectiveReferences(c), q)
                          /\ \A d \in Campaign : Qualifies(d, q) => d = c
      BY DEF QualifiedOnce
    <2>2. q \in Booking
      BY RegistryAssumption
    <2>3. ASSUME NEW d \in Campaign, Qualifies(d, q)
          PROVE  /\ InState(d, {"ARCHIVED"}) /\ campaigns[d].booking \in Booking
                 /\ campaigns[d].booking.station = q.station
                 /\ campaigns[d].booking.start <= q.start /\ q.end <= campaigns[d].booking.end
      <3>1. InState(d, {"ARCHIVED"}) /\ campaigns[d] \in Row
        BY <2>1, <2>3 DEF Qualifies, InState, Exists, TypeOK
      <3>2. campaigns[d].booking \in Booking
        BY <3>1 DEF Row
      <3> QED
        BY <2>2, <2>3, <3>1, <3>2, CoveredIsWithin DEF Qualifies
    <2>4. Covers(EffectiveReferences(c), q)
      <3>1. Covers(EffectiveReferences(c), campaigns[c].booking)
        BY <2>1, <2>3 DEF VerifiedIsCovered, InState
      <3> QED
        BY <2>1, <2>2, <2>3, <3>1, CoversWithin
    <2>5. ASSUME NEW d \in Campaign, Qualifies(d, q) PROVE d = c
      <3>1. Overlaps(campaigns[c].booking, campaigns[d].booking)
        BY <2>1, <2>2, <2>3, <2>5, WithinBothOverlap
      <3>2. Shares(campaigns[c].booking, campaigns[d].booking)
        BY <2>1, <2>3, <2>5 DEF Shares
      <3> QED
        BY <2>1, <2>3, <2>5, <3>1, <3>2 DEF NoDoubleBooking, InState
    <2> QED
      BY <2>4, <2>5
  <1> QED
    BY <1>1, TypeCorrect, BookedOnce, Covered, PTL
-----------------------------------------------------------------------------
(* Evidence *)

\* What the queries about evidence start from.
LEMMA EvidenceStored ==
  ASSUME IInv, StoredInv, NEW c \in Campaign, Exists(c)
  PROVE  /\ campaigns[c] \in Row /\ campaigns[c].booking \in Booking
         /\ EffectiveReferences(c) \in SUBSET Reference /\ IsFiniteSet(EffectiveReferences(c))
         /\ EffectiveReferences(c) \cup tables[c].replaced \cup tables[c].withdrawn
              = tables[c].references
  <1>1. campaigns[c] \in Row /\ campaigns[c].booking \in Booking
    BY DEF IInv, TypeOK, Exists, Row
  <1>2. /\ tables[c] \in Tables
        /\ tables[c].replaced \cup tables[c].withdrawn \subseteq tables[c].references
    BY DEF IInv, TypeOK, Consistent, Sound
  <1>3. /\ EffectiveReferences(c) \subseteq Offered
        /\ EffectiveReferences(c) \cup tables[c].replaced \cup tables[c].withdrawn
             = tables[c].references
    BY <1>2 DEF StoredInv, Submitted, EffectiveReferences, EffectiveOf
  <1>4. Offered \subseteq Reference /\ IsFiniteSet(EffectiveReferences(c))
    BY <1>3, FS_Subset, CampaignsAssumption, RegistryAssumption
  <1> QED
    BY <1>1, <1>3, <1>4

\* coverageGaps, BuildReferenceResilience and the intervals of the preflight:
\* what the sweep and the cuts find are just the moments without evidence in
\* force, what the merge finds all others.
THEOREM GapsAreExact == Spec => []GapsExact
  <1>1. IInv /\ StoredInv => GapsExact
    BY EvidenceStored, EvidenceExact DEF GapsExact
  <1> QED
    BY <1>1, Invariance, StoredInvariance, PTL

\* BuildReferenceResilience, WithdrawReference: what is called critical is what
\* a campaign would be a draft again without.
THEOREM CriticalIsRight == Spec => []CriticalIsNeeded
  <1>1. ASSUME IInv, StoredInv, NEW c \in Campaign, Exists(c),
               NEW r \in EffectiveReferences(c), InState(c, {"REFERENCE_VERIFIED"})
        PROVE  (\E t \in Points(campaigns[c].booking) :
                  /\ Holds(EffectiveReferences(c), r.kind, t)
                  /\ ~Holds(EffectiveReferences(c) \ {r}, r.kind, t))
               <=> StateWithout(EffectiveReferences(c) \ {r}, campaigns[c]) = "DRAFT"
    <2> DEFINE b == campaigns[c].booking
               refs == EffectiveReferences(c)
    <2>1. Covers(refs, b)
      BY <1>1 DEF IInv, Consistent, Agree, Advanced, InState, EffectiveReferences
    <2>2. r.kind \in Kinds
      BY <1>1, EvidenceStored DEF Reference
    <2>3. StateWithout(refs \ {r}, campaigns[c]) = "DRAFT" <=> ~Covers(refs \ {r}, b)
      BY DEF StateWithout, StateCovered
    <2> HIDE DEF refs, b
    <2>4. ASSUME NEW kind \in Kinds, NEW t \in Points(b), ~Holds(refs \ {r}, kind, t)
          PROVE  Holds(refs, r.kind, t) /\ ~Holds(refs \ {r}, r.kind, t)
      <3>1. Holds(refs, kind, t) /\ Holds(refs, r.kind, t)
        BY <2>1, <2>2 DEF Covers, Points
      <3>2. kind = r.kind
        BY <2>4, <3>1 DEF Holds
      <3> QED
        BY <2>4, <3>1, <3>2
    <2>5. ~Covers(refs \ {r}, b) <=>
            \E kind \in Kinds : \E t \in Points(b) : ~Holds(refs \ {r}, kind, t)
      BY DEF Covers, Points
    <2>6. (\E t \in Points(b) : Holds(refs, r.kind, t) /\ ~Holds(refs \ {r}, r.kind, t))
            <=> StateWithout(refs \ {r}, campaigns[c]) = "DRAFT"
      BY <2>2, <2>3, <2>4, <2>5
    <2> QED
      BY <2>6 DEF refs, b
  <1>2. ASSUME IInv, StoredInv, NEW c \in Campaign, Exists(c), NEW r \in EffectiveReferences(c)
        PROVE  r \in Critical(EffectiveReferences(c), campaigns[c].booking) <=>
                 \E t \in Points(campaigns[c].booking) :
                   /\ Holds(EffectiveReferences(c), r.kind, t)
                   /\ ~Holds(EffectiveReferences(c) \ {r}, r.kind, t)
    BY <1>2, EvidenceStored, CriticalHoldsAlone
  <1>3. IInv /\ StoredInv => CriticalIsNeeded
    BY <1>1, <1>2 DEF CriticalIsNeeded
  <1> QED
    BY <1>3, Invariance, StoredInvariance, PTL

\* UniqueIds: ids that are new in the campaign are new altogether just if no
\* other campaign has them.
LEMMA UniqueElsewhere ==
  ASSUME NEW c \in Campaign, NEW batch, NewIds(tables[c].references, batch)
  PROVE  UniqueIds(batch) <=>
           \A r \in batch : \A d \in Campaign \ {c} : \A q \in tables[d].references : q.id # r.id
BY DEF NewIds, UniqueIds

\* ReferencePreflight, ConfirmReferenceBatch: the preflight approves what will
\* verify the campaign, but for evidence that is not in force any more and for
\* other campaigns.
THEOREM PreflightIsRight == Spec => []PreflightKeepsWord
  <1>1. ASSUME IInv, StoredInv, NEW c \in Campaign, InState(c, {"DRAFT"}),
               NEW batch \in SUBSET Candidates
        PROVE  Verifies(c, batch) <=>
                 /\ CanVerify(c, batch)
                 /\ \A r \in batch : Unspent(c, r) /\ UnknownElsewhere(c, r)
    <2> DEFINE refs == EffectiveReferences(c)
               spent == tables[c].replaced \cup tables[c].withdrawn
               b == campaigns[c].booking
               covered == StateCovered(refs \cup batch, b) = "REFERENCE_VERIFIED"
    <2>1. /\ b \in Booking /\ refs \in SUBSET Reference /\ IsFiniteSet(refs)
          /\ refs \cup spent = tables[c].references
      BY <1>1, EvidenceStored DEF InState
    <2> HIDE DEF refs, spent, b
    <2>2. refs \cup batch \in SUBSET Reference /\ IsFiniteSet(refs \cup batch)
      BY <2>1, RegistryAssumption, FS_Subset, FS_Union
    <2>3. \A kind \in Kinds : CoverageGaps(refs \cup batch, b, kind) = {}
                                <=> \A t \in Points(b) : Holds(refs \cup batch, kind, t)
      BY <2>1, <2>2, NoGaps
    <2>4. (\A kind \in Kinds : CoverageGaps(refs \cup batch, b, kind) = {}) <=> covered
      BY <2>3 DEF StateCovered, Covers, Points
    <2> HIDE DEF covered
    <2>5. CanVerify(c, batch) <=> NewIds(refs, batch) /\ NewSources(refs, batch) /\ covered
      BY <2>4 DEF CanVerify, refs, b
    <2>6. (\A r \in batch : Unspent(c, r)) <=>
            /\ \A r \in batch : \A q \in spent : q.id # r.id /\ q.digest # r.digest
            /\ \A r \in batch : \A q \in spent : Fingerprint(q) # Fingerprint(r)
      BY DEF Unspent, spent
    <2>7. /\ NewIds(tables[c].references, batch) <=>
               /\ NewIds(refs, batch)
               /\ \A r \in batch : \A q \in spent : q.id # r.id /\ q.digest # r.digest
          /\ NewSources(tables[c].references, batch) <=>
               /\ NewSources(refs, batch)
               /\ \A r \in batch : \A q \in spent : Fingerprint(q) # Fingerprint(r)
      <3>1. /\ NewIds(refs \cup spent, batch) <=>
                 /\ NewIds(refs, batch)
                 /\ \A r \in batch : \A q \in spent : q.id # r.id /\ q.digest # r.digest
            /\ NewSources(refs \cup spent, batch) <=>
                 /\ NewSources(refs, batch)
                 /\ \A r \in batch : \A q \in spent : Fingerprint(q) # Fingerprint(r)
        BY DEF NewIds, NewSources
      <3> QED
        BY <2>1, <3>1
    <2>8. Verifies(c, batch) <=>
            /\ NewIds(tables[c].references, batch) /\ NewSources(tables[c].references, batch)
            /\ \A r \in batch : CertificateSources(c, r)
            /\ UniqueIds(batch)
            /\ covered
      BY DEF Verifies, CertificateSources, FingerprintAgrees, covered, refs, b
    <2>9. NewIds(tables[c].references, batch) =>
            ((\A r \in batch : UnknownElsewhere(c, r)) <=>
               UniqueIds(batch) /\ \A r \in batch : CertificateSources(c, r))
      <3>1. (\A r \in batch : UnknownElsewhere(c, r)) <=>
              /\ \A r \in batch : \A d \in Campaign \ {c} : \A q \in tables[d].references : q.id # r.id
              /\ \A r \in batch : CertificateSources(c, r)
        BY DEF UnknownElsewhere
      <3> QED
        BY <3>1, UniqueElsewhere
    <2>10. (\A r \in batch : Unspent(c, r) /\ UnknownElsewhere(c, r)) <=>
             (\A r \in batch : Unspent(c, r)) /\ (\A r \in batch : UnknownElsewhere(c, r))
      OBVIOUS
    <2> QED
      BY <2>5, <2>6, <2>7, <2>8, <2>9, <2>10
  <1>2. IInv /\ StoredInv => PreflightKeepsWord
    BY <1>1 DEF PreflightKeepsWord
  <1> QED
    BY <1>2, Invariance, StoredInvariance, PTL
-----------------------------------------------------------------------------
(* Free windows *)

\* Bookings meet if they share a resource at some moment.
LEMMA SlotsMeet ==
  ASSUME NEW a, NEW b
  PROVE  Slots(a) \cap Slots(b) # {} <=>
           Shares(a, b) /\ \E t \in a.start .. a.end - 1 : t \in b.start .. b.end - 1
  <1> DEFINE Resources(x) == {<<"station", x.station>>} \cup {<<"device", d>> : d \in x.devices}
  <1>1. Slots(a) = Resources(a) \X (a.start .. a.end - 1)
        /\ Slots(b) = Resources(b) \X (b.start .. b.end - 1)
    BY DEF Slots
  <1>2. (\E x : x \in Resources(a) /\ x \in Resources(b)) <=> Shares(a, b)
    <2>1. ASSUME NEW x, x \in Resources(a), x \in Resources(b) PROVE Shares(a, b)
      <3>1. CASE x = <<"station", a.station>>
        <4>1. \A d : x # <<"device", d>>
          BY <3>1
        <4> QED
          BY <2>1, <3>1, <4>1 DEF Shares
      <3>2. CASE x \in {<<"device", d>> : d \in a.devices}
        <4>1. PICK d \in a.devices : x = <<"device", d>>
          BY <3>2
        <4>2. d \in b.devices
          BY <2>1, <4>1
        <4> QED
          BY <4>2 DEF Shares
      <3> QED
        BY <2>1, <3>1, <3>2
    <2>2. ASSUME Shares(a, b) PROVE \E x : x \in Resources(a) /\ x \in Resources(b)
      <3>1. CASE a.station = b.station
        <4>1. <<"station", a.station>> \in Resources(a) /\ <<"station", a.station>> \in Resources(b)
          BY <3>1
        <4> QED
          BY <4>1
      <3>2. CASE a.devices \cap b.devices # {}
        <4>1. PICK d : d \in a.devices /\ d \in b.devices
          BY <3>2
        <4>2. <<"device", d>> \in Resources(a) /\ <<"device", d>> \in Resources(b)
          BY <4>1
        <4> QED
          BY <4>2
      <3> QED
        BY <2>2, <3>1, <3>2 DEF Shares
    <2> QED
      BY <2>1, <2>2
  <1> HIDE DEF Resources
  <1>3. ASSUME Slots(a) \cap Slots(b) # {}
        PROVE  /\ \E x : x \in Resources(a) /\ x \in Resources(b)
               /\ \E t \in a.start .. a.end - 1 : t \in b.start .. b.end - 1
    <2>1. PICK s : s \in Slots(a) /\ s \in Slots(b)
      BY <1>3
    <2>2. /\ s[1] \in Resources(a) /\ s[1] \in Resources(b)
          /\ s[2] \in a.start .. a.end - 1 /\ s[2] \in b.start .. b.end - 1
      BY <1>1, <2>1
    <2> QED
      BY <2>2
  <1>4. ASSUME NEW x, x \in Resources(a), x \in Resources(b),
               NEW t \in a.start .. a.end - 1, t \in b.start .. b.end - 1
        PROVE  Slots(a) \cap Slots(b) # {}
    <2>1. <<x, t>> \in Slots(a) /\ <<x, t>> \in Slots(b)
      BY <1>1, <1>4
    <2> QED
      BY <2>1
  <1> QED
    BY <1>2, <1>3, <1>4

\* A campaign that is not cancelled has a resource of b at moment t.
Busy(b, t) ==
  \E c \in Campaign :
    /\ InState(c, States \ {"CANCELLED"}) /\ Shares(b, campaigns[c].booking)
    /\ Within(campaigns[c].booking, t)

\* A booking fits if none of its resources is busy at any of its moments.
LEMMA FitsIfIdle ==
  ASSUME IInv, NEW a, a.start \in Int, a.end \in Int
  PROVE  Slots(a) \cap Taken = {} <=> \A t \in a.start .. a.end - 1 : ~Busy(a, t)
  <1>1. ASSUME NEW c \in Campaign, InState(c, States \ {"CANCELLED"})
        PROVE  /\ Held[c] = Slots(campaigns[c].booking)
               /\ campaigns[c].booking \in Booking
               /\ \A t \in Int : t \in campaigns[c].booking.start .. campaigns[c].booking.end - 1
                                   <=> Within(campaigns[c].booking, t)
    <2>1. campaigns[c].booking \in Booking
      BY <1>1 DEF IInv, TypeOK, InState, Exists, Row
    <2>2. Held[c] = Slots(campaigns[c].booking)
      BY <1>1 DEF Held
    <2>3. \A t \in Int : t \in campaigns[c].booking.start .. campaigns[c].booking.end - 1
                           <=> Within(campaigns[c].booking, t)
      BY <2>1 DEF Booking, Within
    <2> QED
      BY <2>1, <2>2, <2>3
  <1>2. \A c \in Campaign : ~InState(c, States \ {"CANCELLED"}) => Held[c] = {}
    BY DEF Held
  <1>3. ASSUME Slots(a) \cap Taken # {} PROVE \E t \in a.start .. a.end - 1 : Busy(a, t)
    <2>1. PICK c \in Campaign : Slots(a) \cap Held[c] # {}
      BY <1>3 DEF Taken
    <2>2. InState(c, States \ {"CANCELLED"})
      BY <1>2, <2>1
    <2>3. Slots(a) \cap Slots(campaigns[c].booking) # {}
      BY <1>1, <2>1, <2>2
    <2>4. /\ Shares(a, campaigns[c].booking)
          /\ \E t \in a.start .. a.end - 1 :
               t \in campaigns[c].booking.start .. campaigns[c].booking.end - 1
      BY <2>3, SlotsMeet
    <2> QED
      BY <1>1, <2>2, <2>4 DEF Busy
  <1>4. ASSUME NEW t \in a.start .. a.end - 1, Busy(a, t) PROVE Slots(a) \cap Taken # {}
    <2>1. PICK c \in Campaign :
            /\ InState(c, States \ {"CANCELLED"}) /\ Shares(a, campaigns[c].booking)
            /\ Within(campaigns[c].booking, t)
      BY <1>4 DEF Busy
    <2>2. t \in campaigns[c].booking.start .. campaigns[c].booking.end - 1
      BY <1>1, <2>1
    <2>3. Slots(a) \cap Slots(campaigns[c].booking) # {}
      BY <2>1, <2>2, SlotsMeet
    <2>4. Slots(a) \cap Held[c] # {}
      BY <1>1, <2>1, <2>3
    <2> QED
      BY <2>4 DEF Taken
  <1> QED
    BY <1>3, <1>4

\* relevantBusy: the merged spans are the busy times.
LEMMA BusySpans ==
  ASSUME IInv, StoredInv, NEW b \in Booking
  PROVE  /\ RelevantBusy(b) \in Seq(Span)
         /\ \A t \in Int : (\E i \in 1 .. Len(RelevantBusy(b)) : Within(RelevantBusy(b)[i], t))
                             <=> Busy(b, t)
  <1> DEFINE live == {d \in Campaign : InState(d, States \ {"CANCELLED"})}
             booked == {campaigns[c].booking : c \in live}
             near == {p \in booked : Shares(b, p)}
             spans == {[start |-> o.start, end |-> o.end] : o \in near}
  <1>1. RelevantBusy(b) = FoldLeft(Merged, <<>>, ByStart(spans))
    BY DEF RelevantBusy
  <1>2. \A c \in live : campaigns[c].booking \in Booking
    BY DEF IInv, TypeOK, InState, Exists, Row
  <1>3. booked \subseteq Booking
    BY <1>2
  <1>4. IsFiniteSet(spans)
    <2>1. IsFiniteSet(live)
      <3>1. live \subseteq ListCampaigns
        BY DEF ListCampaigns, InState
      <3> QED
        BY <3>1, FS_Subset DEF StoredInv
    <2>2. IsFiniteSet(booked)
      <3> DEFINE f == [c \in live |-> campaigns[c].booking]
      <3>1. f \in Surjection(live, booked)
        BY DEF Surjection
      <3> HIDE DEF f, live, booked
      <3> QED
        BY <2>1, <3>1, FS_Surjection
    <2>3. IsFiniteSet(near)
      BY <2>2, FS_Subset
    <2> DEFINE f == [o \in near |-> [start |-> o.start, end |-> o.end]]
    <2>4. f \in Surjection(near, spans)
      BY DEF Surjection
    <2> HIDE DEF f, near, spans
    <2> QED
      BY <2>3, <2>4, FS_Surjection
  <1>5. \A o \in near : /\ [start |-> o.start, end |-> o.end] \in Span
                        /\ \A t \in Int : Within([start |-> o.start, end |-> o.end], t) <=> Within(o, t)
    BY <1>3 DEF Span, Within, Booking
  <1>6. \A t \in Int : Hit(spans, t) <=> \E o \in near : Within(o, t)
    <2> HIDE DEF near
    <2>1. ASSUME NEW t \in Int, NEW p \in spans, Within(p, t) PROVE \E o \in near : Within(o, t)
      <3>1. PICK o \in near : p = [start |-> o.start, end |-> o.end]
        OBVIOUS
      <3> QED
        BY <1>5, <2>1, <3>1
    <2>2. ASSUME NEW t \in Int, NEW o \in near, Within(o, t) PROVE \E p \in spans : Within(p, t)
      <3>1. [start |-> o.start, end |-> o.end] \in spans
        OBVIOUS
      <3> HIDE DEF spans
      <3> QED
        BY <1>5, <2>2, <3>1
    <2> HIDE DEF spans
    <2> QED
      BY <2>1, <2>2 DEF Hit
  <1>7. \A t \in Int : (\E o \in near : Within(o, t)) <=> Busy(b, t)
    BY DEF Busy
  <1>8. spans \in SUBSET Span
    BY <1>5
  <1> HIDE DEF spans
  <1> DEFINE m == FoldLeft(Merged, <<>>, ByStart(spans))
  <1>9. m \in Seq(Span) /\ \A t \in Int : (\E i \in 1 .. Len(m) : Within(m[i], t)) <=> Hit(spans, t)
    BY <1>4, <1>8, MergedWhole
  <1> HIDE DEF m, near
  <1>10. m \in Seq(Span) /\ \A t \in Int : (\E i \in 1 .. Len(m) : Within(m[i], t)) <=> Busy(b, t)
    BY <1>6, <1>7, <1>9
  <1> QED
    BY <1>1, <1>10 DEF m

\* What hits a window has a moment in it.
LEMMA HitsAtMoments ==
  ASSUME NEW busy \in Seq(Span), NEW duration \in Nat \ {0}, NEW t \in Int
  PROVE  Hits(busy, t, duration) = {} <=>
           \A u \in t .. t + duration - 1 : ~\E i \in 1 .. Len(busy) : Within(busy[i], u)
  <1>1. /\ DOMAIN busy = 1 .. Len(busy)
        /\ \A i \in 1 .. Len(busy) : busy[i].start \in Nat /\ busy[i].end \in Nat
                                     /\ busy[i].start < busy[i].end
    BY DEF Span
  <1>2. ASSUME NEW i \in Hits(busy, t, duration)
        PROVE  i \in 1 .. Len(busy) /\ \E u \in t .. t + duration - 1 : Within(busy[i], u)
    <2> DEFINE u == IF t < busy[i].start THEN busy[i].start ELSE t
    <2>1. i \in 1 .. Len(busy) /\ t < busy[i].end /\ busy[i].start < t + duration
      BY <1>1, <1>2 DEF Hits
    <2>2. u \in t .. t + duration - 1 /\ Within(busy[i], u)
      BY <1>1, <2>1 DEF Within
    <2> QED
      BY <2>1, <2>2
  <1>3. ASSUME NEW u \in t .. t + duration - 1, NEW i \in 1 .. Len(busy), Within(busy[i], u)
        PROVE  i \in Hits(busy, t, duration)
    BY <1>1, <1>3 DEF Within, Hits
  <1> QED
    BY <1>2, <1>3

\* EvaluateResourceAvailability: the windows it names are free, and no window
\* nearer than they are is.
THEOREM AvailabilityIsNearest == Spec => []AvailabilityNearest
  <1>1. ASSUME IInv, StoredInv, NEW b \in Questions
        PROVE  LET answer == EvaluateResourceAvailability(b)
                   duration == b.end - b.start
                   Fits(a) == Slots(a) \cap Taken = {}
               IN  /\ answer.available <=> Fits(b)
                   /\ Fits(From(b, answer.next))
                   /\ \A t \in b.start .. answer.next - 1 : ~Fits(From(b, t))
                   /\ Fits(From(b, answer.previous))
                   /\ \A t \in answer.previous + 1 .. b.start - duration : ~Fits(From(b, t))
    <2> DEFINE duration == b.end - b.start
               busy == RelevantBusy(b)
               next == NextStart(busy, b.start, duration)
               previous == PreviousStart(busy, b.start, duration)
               answer == EvaluateResourceAvailability(b)
               Fits(a) == Slots(a) \cap Taken = {}
    <2>1. /\ b \in Booking /\ b.start \in Nat /\ b.end \in Nat /\ b.start < b.end
          /\ duration \in Nat \ {0}
      BY RegistryAssumption DEF Booking
    <2>2. /\ busy \in Seq(Span)
          /\ \A t \in Int : (\E i \in 1 .. Len(busy) : Within(busy[i], t)) <=> Busy(b, t)
      BY <1>1, <2>1, BusySpans
    <2>3. ASSUME NEW t \in Int PROVE Fits(From(b, t)) <=> Hits(busy, t, duration) = {}
      <3> DEFINE a == From(b, t)
      <3>1. /\ a.start = t /\ a.end = t + duration
            /\ a.station = b.station /\ a.devices = b.devices
        BY <2>1 DEF From, Booking
      <3>2. \A u \in Int : Busy(a, u) <=> Busy(b, u)
        BY <3>1 DEF Busy, Shares
      <3> HIDE DEF a, busy, duration
      <3>3. a.start \in Int /\ a.end \in Int
        BY <2>1, <3>1
      <3>4. Slots(a) \cap Taken = {} <=> \A u \in t .. t + duration - 1 : ~Busy(a, u)
        <4>1. Slots(a) \cap Taken = {} <=> \A u \in a.start .. a.end - 1 : ~Busy(a, u)
          BY <1>1, <3>3, FitsIfIdle
        <4>2. a.start .. a.end - 1 = t .. t + duration - 1
          BY <2>1, <3>1
        <4> QED
          BY <4>1, <4>2
      <3>5. \A u \in t .. t + duration - 1 : u \in Int
        BY <2>1
      <3>6. Hits(busy, t, duration) = {} <=> \A u \in t .. t + duration - 1 : ~Busy(b, u)
        <4>1. Hits(busy, t, duration) = {} <=>
                \A u \in t .. t + duration - 1 : ~\E i \in 1 .. Len(busy) : Within(busy[i], u)
          BY <2>1, <2>2, HitsAtMoments
        <4> QED
          BY <2>2, <3>5, <4>1
      <3>7. Slots(a) \cap Taken = {} <=> Hits(busy, t, duration) = {}
        BY <3>2, <3>4, <3>5, <3>6
      <3> QED
        BY <3>7 DEF a
    <2>4. answer.available <=> Fits(b)
      <3>1. Fits(b) <=> \A t \in b.start .. b.end - 1 : ~Busy(b, t)
        BY <1>1, <2>1, FitsIfIdle
      <3>2. ASSUME NEW c \in Campaign, InState(c, States \ {"CANCELLED"})
            PROVE  Overlaps(b, campaigns[c].booking) <=>
                     \E t \in b.start .. b.end - 1 : Within(campaigns[c].booking, t)
        <4> DEFINE p == campaigns[c].booking
                   t == IF p.start < b.start THEN b.start ELSE p.start
        <4>1. p \in Booking /\ p.start \in Nat /\ p.end \in Nat /\ p.start < p.end
          BY <1>1, <3>2 DEF IInv, TypeOK, InState, Exists, Row, Booking
        <4> HIDE DEF p
        <4>2. Overlaps(b, p) => t \in b.start .. b.end - 1 /\ Within(p, t)
          BY <2>1, <4>1 DEF Overlaps, Within
        <4>3. (\E u \in b.start .. b.end - 1 : Within(p, u)) => Overlaps(b, p)
          BY <2>1, <4>1 DEF Overlaps, Within
        <4> HIDE DEF t
        <4> QED
          BY <4>2, <4>3 DEF p
      <3>3. answer.available <=>
              \A c \in Campaign : InState(c, States \ {"CANCELLED"}) =>
                ~(Overlaps(b, campaigns[c].booking) /\ Shares(b, campaigns[c].booking))
        BY DEF EvaluateResourceAvailability
      <3> HIDE DEF answer, Fits
      <3> QED
        BY <3>1, <3>2, <3>3 DEF Busy
    <2>5. answer.next = next /\ answer.previous = previous
      BY DEF EvaluateResourceAvailability
    <2>6. /\ next \in Int /\ b.start <= next /\ Hits(busy, next, duration) = {}
          /\ \A u \in Int : b.start <= u /\ u < next => Hits(busy, u, duration) # {}
      <3>1. busy \in Seq(Span) /\ duration \in Nat /\ b.start \in Int
        BY <2>1, <2>2
      <3> HIDE DEF busy, duration
      <3> QED
        BY <3>1, NextFree
    <2>7. /\ previous \in Int /\ Hits(busy, previous, duration) = {}
          /\ \A u \in Int : u <= b.start - duration /\ previous < u => Hits(busy, u, duration) # {}
      <3>1. busy \in Seq(Span) /\ duration \in Nat /\ b.start \in Int
        BY <2>1, <2>2
      <3> HIDE DEF busy, duration
      <3> QED
        BY <3>1, PreviousFree
    <2> HIDE DEF busy, duration, next, previous, answer, Fits
    <2>8. Fits(From(b, next)) /\ Fits(From(b, previous))
      BY <2>3, <2>6, <2>7
    <2>9. \A t \in b.start .. next - 1 : ~Fits(From(b, t))
      BY <2>1, <2>3, <2>6
    <2>10. \A t \in previous + 1 .. b.start - duration : ~Fits(From(b, t))
      BY <2>1, <2>3, <2>7
    <2> QED
      BY <2>4, <2>5, <2>8, <2>9, <2>10 DEF answer, duration, Fits
  <1>2. IInv /\ StoredInv => AvailabilityNearest
    BY <1>1 DEF AvailabilityNearest
  <1> QED
    BY <1>2, Invariance, StoredInvariance, PTL
-----------------------------------------------------------------------------
(* Lineage *)

\* Sets of campaigns that have the predecessors of all their members, or the
\* successors.
UpSet(U) ==
  \A d \in U : campaigns[d].predecessor = Nil \/ campaigns[d].predecessor \in U
DownSet(U) == \A d \in U : Children(d) \subseteq U

\* A campaign and those it succeeds; campaigns and those that descend from them.
Up(c) == {d \in ListCampaigns : \A U \in SUBSET ListCampaigns : c \in U /\ UpSet(U) => d \in U}
Down(selected) ==
  {d \in Campaign : \A U \in SUBSET Campaign : selected \subseteq U /\ DownSet(U) => d \in U}

\* A predecessor is stored, and has the same station and devices.
LEMMA PredecessorStored ==
  ASSUME IInv, NEW c \in ListCampaigns
  PROVE  /\ campaigns[c].predecessor = Nil \/ campaigns[c].predecessor \in ListCampaigns
         /\ campaigns[c].predecessor # Nil =>
              /\ campaigns[campaigns[c].predecessor].booking.station = campaigns[c].booking.station
              /\ campaigns[campaigns[c].predecessor].booking.devices = campaigns[c].booking.devices
  BY DEF IInv, SuccessorOfArchived, Inherits, ListCampaigns, Exists, TypeOK, Row

\* Up(c) is the least set that has c and all predecessors.
LEMMA UpIsLeast ==
  ASSUME IInv, NEW c \in ListCampaigns
  PROVE  /\ c \in Up(c) /\ Up(c) \in SUBSET ListCampaigns /\ UpSet(Up(c))
         /\ \A U \in SUBSET ListCampaigns : c \in U /\ UpSet(U) => Up(c) \subseteq U
  <1>1. c \in Up(c) /\ Up(c) \in SUBSET ListCampaigns
    BY DEF Up
  <1>2. ASSUME NEW d \in Up(c), campaigns[d].predecessor # Nil
        PROVE  campaigns[d].predecessor \in Up(c)
    <2>1. d \in ListCampaigns /\ campaigns[d].predecessor \in ListCampaigns
      BY <1>1, <1>2, PredecessorStored
    <2>2. ASSUME NEW U \in SUBSET ListCampaigns, c \in U, UpSet(U)
          PROVE  campaigns[d].predecessor \in U
      <3>1. d \in U
        BY <1>2, <2>2 DEF Up
      <3> QED
        BY <1>2, <2>2, <3>1 DEF UpSet
    <2> QED
      BY <2>1, <2>2 DEF Up
  <1>3. UpSet(Up(c))
    BY <1>2 DEF UpSet
  <1>4. ASSUME NEW U \in SUBSET ListCampaigns, c \in U, UpSet(U)
        PROVE  Up(c) \subseteq U
    BY <1>4 DEF Up
  <1> QED
    BY <1>1, <1>3, <1>4

\* Down(selected) is the least set that has those selected and all successors.
LEMMA DownIsLeast ==
  ASSUME NEW selected \in SUBSET Campaign
  PROVE  /\ selected \subseteq Down(selected) /\ Down(selected) \in SUBSET Campaign
         /\ selected \subseteq ListCampaigns => Down(selected) \subseteq ListCampaigns
         /\ DownSet(Down(selected))
         /\ \A U \in SUBSET Campaign :
              selected \subseteq U /\ DownSet(U) => Down(selected) \subseteq U
  <1>1. \A d : Children(d) \subseteq ListCampaigns
    BY DEF Children
  <1>2. ListCampaigns \subseteq Campaign
    BY DEF ListCampaigns
  <1>3. selected \subseteq Down(selected)
    BY <1>2 DEF Down
  <1>4. ASSUME NEW U \in SUBSET Campaign, selected \subseteq U, DownSet(U)
        PROVE  Down(selected) \subseteq U
    BY <1>4 DEF Down
  <1>5. DownSet(ListCampaigns)
    BY <1>1 DEF DownSet
  <1>6. /\ selected \subseteq ListCampaigns => Down(selected) \subseteq ListCampaigns
        /\ Down(selected) \in SUBSET Campaign
    BY <1>2, <1>4, <1>5 DEF Down
  <1>7. ASSUME NEW d \in Down(selected), NEW e \in Children(d)
        PROVE  e \in Down(selected)
    <2>1. ASSUME NEW U \in SUBSET Campaign, selected \subseteq U, DownSet(U)
          PROVE  e \in U
      <3>1. d \in U
        BY <1>4, <1>7, <2>1
      <3> QED
        BY <1>7, <2>1, <3>1 DEF DownSet
    <2> QED
      BY <1>1, <1>2, <1>7, <2>1 DEF Down
  <1>8. DownSet(Down(selected))
    BY <1>7 DEF DownSet
  <1> QED
    BY <1>3, <1>4, <1>6, <1>8

\* One step of the walk.
LEMMA UpStep ==
  ASSUME IInv, StoredInv, NEW c \in ListCampaigns
  PROVE  LET p == campaigns[c].predecessor
         IN  /\ p = Nil => Up(c) = {c}
             /\ p # Nil => p \in ListCampaigns /\ Up(c) = {c} \cup Up(p) /\ c \notin Up(p)
  <1> DEFINE p == campaigns[c].predecessor
  <1>1. /\ c \in Up(c) /\ Up(c) \in SUBSET ListCampaigns /\ UpSet(Up(c))
        /\ \A U \in SUBSET ListCampaigns : c \in U /\ UpSet(U) => Up(c) \subseteq U
    BY UpIsLeast
  <1>2. ASSUME p = Nil PROVE Up(c) = {c}
    <2>1. UpSet({c}) /\ {c} \in SUBSET ListCampaigns
      BY <1>2 DEF UpSet
    <2> QED
      BY <1>1, <2>1
  <1>3. ASSUME NEW d \in ListCampaigns, campaigns[d].predecessor # Nil
        PROVE  /\ campaigns[d].predecessor \in ListCampaigns
               /\ Up(d) = {d} \cup Up(campaigns[d].predecessor)
    <2> DEFINE q == campaigns[d].predecessor
    <2>1. q \in ListCampaigns
      BY <1>3, PredecessorStored
    <2> HIDE DEF q
    <2>2. /\ q \in Up(q) /\ Up(q) \in SUBSET ListCampaigns /\ UpSet(Up(q))
          /\ \A U \in SUBSET ListCampaigns : q \in U /\ UpSet(U) => Up(q) \subseteq U
      BY <2>1, UpIsLeast
    <2>3. /\ d \in Up(d) /\ Up(d) \in SUBSET ListCampaigns /\ UpSet(Up(d))
          /\ \A U \in SUBSET ListCampaigns : d \in U /\ UpSet(U) => Up(d) \subseteq U
      BY UpIsLeast
    <2>4. UpSet({d} \cup Up(q)) /\ {d} \cup Up(q) \in SUBSET ListCampaigns
      BY <2>2 DEF UpSet, q
    <2>5. Up(d) \subseteq {d} \cup Up(q)
      BY <2>3, <2>4
    <2>6. q \in Up(d)
      BY <1>3, <2>3 DEF UpSet, q
    <2>7. Up(q) \subseteq Up(d)
      BY <2>2, <2>3, <2>6
    <2>8. Up(d) = {d} \cup Up(q)
      BY <2>3, <2>5, <2>7
    <2> QED
      BY <2>1, <2>8 DEF q
  <1>4. ASSUME p # Nil, c \in Up(p) PROVE FALSE
    <2> DEFINE C == {d \in Up(p) : c \in Up(d)}
    <2>1. p \in ListCampaigns
      BY <1>3, <1>4
    <2> HIDE DEF p
    <2>2. p \in Up(p) /\ Up(p) \in SUBSET ListCampaigns /\ UpSet(Up(p))
      BY <2>1, UpIsLeast
    <2>3. p \in C /\ C \in SUBSET ListCampaigns
      BY <1>4, <2>2
    <2>4. ASSUME NEW d \in C PROVE campaigns[d].predecessor \in C
      <3>1. CASE d = c
        BY <2>3, <3>1 DEF p
      <3>2. CASE d # c
        <4>1. d \in ListCampaigns /\ d \in Up(p) /\ c \in Up(d)
          BY <2>2
        <4> HIDE DEF C
        <4>2. campaigns[d].predecessor # Nil
          <5>1. ASSUME campaigns[d].predecessor = Nil PROVE FALSE
            <6>1. UpSet({d}) /\ {d} \in SUBSET ListCampaigns /\ d \in {d}
              BY <4>1, <5>1 DEF UpSet
            <6>2. Up(d) \subseteq {d}
              BY <4>1, <6>1, UpIsLeast
            <6> QED
              BY <3>2, <4>1, <6>2
          <5> QED
            BY <5>1
        <4>3. campaigns[d].predecessor \in Up(p)
          BY <2>2, <4>1, <4>2 DEF UpSet
        <4>4. c \in Up(campaigns[d].predecessor)
          BY <1>3, <3>2, <4>1, <4>2
        <4> QED
          BY <4>3, <4>4 DEF C
      <3> QED
        BY <3>1, <3>2
    <2> HIDE DEF C
    <2> QED
      BY <2>3, <2>4 DEF StoredInv, Acyclic
  <1> QED
    BY <1>2, <1>3, <1>4

\* The walk gets to the first predecessor and meets nobody twice.
LEMMA AncestryIsUp ==
  ASSUME IInv, StoredInv, NEW c \in ListCampaigns
  PROVE  Ancestry(c) = [passed |-> Up(c), issues |-> {}]
  <1> DEFINE S == ListCampaigns
             D == [seen : SUBSET S, cursor : S]
             p(at) == campaigns[at.cursor].predecessor
             here(at) == at.seen \cup {at.cursor}
             stop == {at \in D : at.cursor \in at.seen \/ p(at) \notin S}
             out == [at \in D |->
                       IF at.cursor \in at.seen
                       THEN [passed |-> at.seen, issues |-> {Issue("LINEAGE_CYCLE", at.cursor, Nil)}]
                       ELSE IF p(at) = Nil THEN [passed |-> here(at), issues |-> {}]
                       ELSE [passed |-> here(at),
                             issues |-> {Issue("LINEAGE_PREDECESSOR_MISSING", at.cursor, p(at))}]]
             next == [at \in D |-> IF at \in stop THEN at ELSE [seen |-> here(at), cursor |-> p(at)]]
             left == [at \in D |-> Cardinality(S \ at.seen)]
             most == Cardinality(S)
             Body(f) == [at \in D |->
                          IF at.cursor \in at.seen
                          THEN [passed |-> at.seen, issues |-> {Issue("LINEAGE_CYCLE", at.cursor, Nil)}]
                          ELSE IF p(at) = Nil THEN [passed |-> here(at), issues |-> {}]
                          ELSE IF p(at) \notin S
                          THEN [passed |-> here(at),
                                issues |-> {Issue("LINEAGE_PREDECESSOR_MISSING", at.cursor, p(at))}]
                          ELSE f[[seen |-> here(at), cursor |-> p(at)]]]
             walk == CHOOSE f : f = Body(f)
  <1>1. /\ Nil \notin S /\ IsFiniteSet(S) /\ most \in Nat
        /\ \A U \in SUBSET S : IsFiniteSet(S \ U) /\ Cardinality(S \ U) \in 0 .. most
    <2>1. Nil \notin S /\ IsFiniteSet(S)
      BY NilAssumption DEF StoredInv, ListCampaigns
    <2> HIDE DEF S
    <2>2. most \in Nat
      BY <2>1, FS_CardinalityType
    <2>3. ASSUME NEW U \in SUBSET S
          PROVE  IsFiniteSet(S \ U) /\ Cardinality(S \ U) \in 0 .. most
      <3>1. S \ U \subseteq S
        OBVIOUS
      <3>2. IsFiniteSet(S \ U) /\ Cardinality(S \ U) <= most /\ Cardinality(S \ U) \in Nat
        BY <2>1, <3>1, FS_Subset, FS_CardinalityType
      <3> QED
        BY <2>2, <3>2
    <2> QED
      BY <2>1, <2>2, <2>3
  <1> HIDE DEF S, most
  <1>2. \A at \in D : /\ at.seen \in SUBSET S /\ at.cursor \in S /\ here(at) \in SUBSET S
                      /\ p(at) \in S => [seen |-> here(at), cursor |-> p(at)] \in D
    OBVIOUS
  <1>3. next \in [D -> D] /\ left \in [D -> 0 .. most]
    BY <1>1, <1>2
  <1>4. ASSUME NEW at \in D, at.cursor \notin at.seen
        PROVE  Cardinality(S \ here(at)) < Cardinality(S \ at.seen)
    <2>1. S \ here(at) = (S \ at.seen) \ {at.cursor} /\ at.cursor \in S \ at.seen
      BY <1>2, <1>4
    <2> DEFINE rest == S \ at.seen
               fewer == S \ here(at)
    <2>2. IsFiniteSet(rest) /\ Cardinality(rest) \in Nat
      BY <1>1, <1>2
    <2>3. at.cursor \in rest /\ fewer = rest \ {at.cursor}
      BY <2>1
    <2> HIDE DEF rest, fewer
    <2>4. Cardinality(rest \ {at.cursor}) = Cardinality(rest) - 1
      BY <2>2, <2>3, FS_RemoveElement
    <2>5. Cardinality(fewer) < Cardinality(rest)
      BY <2>2, <2>3, <2>4
    <2> QED
      BY <2>5 DEF rest, fewer
  <1>5. \A at \in D : at \notin stop => left[next[at]] < left[at]
    <2>1. ASSUME NEW at \in D, at \notin stop PROVE left[next[at]] < left[at]
      <3>1. at.cursor \notin at.seen /\ p(at) \in S
        BY <2>1
      <3>2. next[at] = [seen |-> here(at), cursor |-> p(at)]
        BY <2>1
      <3>3. next[at] \in D /\ next[at].seen = here(at)
        BY <1>2, <3>1, <3>2
      <3>4. left[next[at]] = Cardinality(S \ here(at)) /\ left[at] = Cardinality(S \ at.seen)
        BY <3>3
      <3> QED
        BY <1>4, <3>1, <3>4
    <2> QED
      BY <2>1
  <1>6. PICK f : Loops(f, D, stop, out, next)
    <2> HIDE DEF D, stop, out, next, left
    <2> QED
      BY <1>1, <1>3, <1>5, LoopExists
  <1>7. f = Body(f)
    <2>1. ASSUME NEW at \in D
          PROVE  (IF at \in stop THEN out[at] ELSE f[next[at]]) = Body(f)[at]
      <3>1. CASE at.cursor \in at.seen
        BY <3>1
      <3>2. CASE at.cursor \notin at.seen /\ p(at) = Nil
        BY <1>1, <3>2
      <3>3. CASE at.cursor \notin at.seen /\ p(at) # Nil /\ p(at) \notin S
        BY <3>3
      <3>4. CASE at.cursor \notin at.seen /\ p(at) # Nil /\ p(at) \in S
        BY <3>4
      <3> QED
        BY <3>1, <3>2, <3>3, <3>4
    <2>2. DOMAIN Body(f) = D /\ Body(f) = [at \in D |-> Body(f)[at]]
      OBVIOUS
    <2>3. f = [at \in D |-> IF at \in stop THEN out[at] ELSE f[next[at]]]
      BY <1>6 DEF Loops
    <2> HIDE DEF Body, stop, out, next, D
    <2> QED
      BY <2>1, <2>2, <2>3
  <1>8. walk = Body(walk)
    BY <1>7
  <1>9. Ancestry(c) = walk[[seen |-> {}, cursor |-> c]]
    BY DEF Ancestry, S
  <1> HIDE DEF walk
  <1> DEFINE Bad == {at \in D : /\ at.seen \cap Up(at.cursor) = {}
                                /\ walk[at] # [passed |-> at.seen \cup Up(at.cursor), issues |-> {}]}
  <1>10. Bad = {}
    <2>1. SUFFICES ASSUME Bad # {} PROVE FALSE
      OBVIOUS
    <2> DEFINE sizes == {left[at] : at \in Bad}
    <2>2. sizes \subseteq Nat /\ sizes # {}
      <3>1. \A at \in Bad : at \in D
        OBVIOUS
      <3> HIDE DEF Bad, left, D
      <3>2. \A at \in Bad : left[at] \in Nat
        BY <1>3, <3>1
      <3> QED
        BY <2>1, <3>2
    <2> HIDE DEF sizes
    <2>3. PICK size \in sizes : \A n \in sizes : size <= n
      BY <2>2, SmallestExists
    <2>4. PICK at \in Bad : size = left[at]
      BY <2>3 DEF sizes
    <2>5. /\ at \in D /\ at.cursor \in S /\ at.seen \in SUBSET S
          /\ at.seen \cap Up(at.cursor) = {} /\ at.cursor \in Up(at.cursor)
          /\ walk[at] # [passed |-> at.seen \cup Up(at.cursor), issues |-> {}]
      BY UpIsLeast DEF S
    <2>6. at.cursor \notin at.seen
      BY <2>5
    <2>7. walk[at] = IF p(at) = Nil THEN [passed |-> here(at), issues |-> {}]
                     ELSE IF p(at) \notin S
                     THEN [passed |-> here(at),
                           issues |-> {Issue("LINEAGE_PREDECESSOR_MISSING", at.cursor, p(at))}]
                     ELSE walk[[seen |-> here(at), cursor |-> p(at)]]
      BY <1>8, <2>5, <2>6
    <2>8. CASE p(at) = Nil
      <3>1. Up(at.cursor) = {at.cursor}
        BY <2>5, <2>8, UpStep DEF S
      <3> QED
        BY <2>5, <2>7, <2>8, <3>1
    <2>9. CASE p(at) # Nil
      <3> DEFINE q == p(at)
                 then == [seen |-> here(at), cursor |-> q]
      <3>1. q \in S /\ Up(at.cursor) = {at.cursor} \cup Up(q) /\ at.cursor \notin Up(q)
        BY <2>5, <2>9, UpStep DEF S
      <3>2. then \in D /\ then.seen = here(at) /\ then.cursor = q
        BY <1>2, <2>5, <3>1
      <3>3. walk[at] = walk[then]
        BY <2>7, <2>9, <3>1
      <3>4. then.seen \cap Up(then.cursor) = {}
        BY <2>5, <3>1, <3>2
      <3>5. left[then] < left[at]
        BY <1>4, <2>5, <2>6, <3>2
      <3>6. then \notin Bad
        <4>1. ASSUME then \in Bad PROVE FALSE
          <5> HIDE DEF Bad, left, D, then
          <5>1. left[then] \in sizes /\ left[then] \in Nat /\ left[at] \in Nat
            BY <1>3, <2>5, <3>2, <4>1 DEF sizes
          <5>2. size <= left[then]
            BY <2>3, <5>1
          <5> QED
            BY <2>4, <3>5, <5>1, <5>2
        <4> QED
          BY <4>1
      <3>7. walk[then] = [passed |-> here(at) \cup Up(q), issues |-> {}]
        BY <3>2, <3>4, <3>6
      <3>8. here(at) \cup Up(q) = at.seen \cup Up(at.cursor)
        BY <3>1
      <3> QED
        BY <2>5, <3>3, <3>7, <3>8
    <2> QED
      BY <2>8, <2>9
  <1>11. [seen |-> {}, cursor |-> c] \in D
    BY DEF S
  <1>12. walk[[seen |-> {}, cursor |-> c]] = [passed |-> {} \cup Up(c), issues |-> {}]
    BY <1>10, <1>11
  <1> QED
    BY <1>9, <1>12

\* The queue holds all that descend from those selected.
LEMMA DescentIsDown ==
  ASSUME IInv, StoredInv, NEW selected \in SUBSET Campaign
  PROVE  Descent(selected) = Down(selected)
  <1> DEFINE D == SUBSET Campaign
             More(seen) == seen \cup UNION {Children(d) : d \in seen}
             Body(f) == [seen \in D |-> IF More(seen) = seen THEN seen ELSE f[More(seen)]]
             queue == CHOOSE f : f = Body(f)
             best == [seen \in D |-> Down(seen)]
             Left(seen) == Cardinality(ListCampaigns \ seen)
  <1>1. \A d : Children(d) \subseteq ListCampaigns /\ Children(d) \subseteq Campaign
    BY DEF Children, ListCampaigns
  <1>2. ASSUME NEW seen \in D
        PROVE  /\ More(seen) \in D /\ seen \subseteq More(seen)
               /\ More(seen) # seen => (ListCampaigns \cap More(seen)) \ seen # {}
               /\ Down(seen) = IF More(seen) = seen THEN seen ELSE Down(More(seen))
    <2>1. More(seen) \in D /\ seen \subseteq More(seen)
      BY <1>1
    <2>2. More(seen) # seen => (ListCampaigns \cap More(seen)) \ seen # {}
      BY <1>1
    <2>3. /\ seen \subseteq Down(seen) /\ Down(seen) \in D /\ DownSet(Down(seen))
          /\ \A U \in D : seen \subseteq U /\ DownSet(U) => Down(seen) \subseteq U
      BY DownIsLeast
    <2>4. /\ More(seen) \subseteq Down(More(seen)) /\ Down(More(seen)) \in D
          /\ DownSet(Down(More(seen)))
          /\ \A U \in D : More(seen) \subseteq U /\ DownSet(U) => Down(More(seen)) \subseteq U
      <3> HIDE DEF More
      <3> QED
        BY <2>1, DownIsLeast
    <2>5. CASE More(seen) = seen
      <3>1. DownSet(seen)
        BY <2>5 DEF DownSet
      <3> QED
        BY <2>3, <2>5, <3>1
    <2>6. CASE More(seen) # seen
      <3>1. More(seen) \subseteq Down(seen)
        BY <2>3 DEF DownSet
      <3> HIDE DEF More
      <3> QED
        BY <2>1, <2>3, <2>4, <2>6, <3>1
    <2> QED
      BY <2>1, <2>2, <2>5, <2>6
  <1>3. best = Body(best)
    <2>1. \A seen \in D : best[seen] = IF More(seen) = seen THEN seen ELSE best[More(seen)]
      BY <1>2
    <2>2. best = [seen \in D |-> best[seen]]
      OBVIOUS
    <2> HIDE DEF best, More
    <2> QED
      BY <2>1, <2>2
  <1>4. queue = Body(queue)
    BY <1>3
  <1>5. Descent(selected) = queue[selected]
    BY DEF Descent
  <1> HIDE DEF queue
  <1>6. \A seen \in D : queue[seen] = IF More(seen) = seen THEN seen ELSE queue[More(seen)]
    BY <1>4
  <1>7. ASSUME NEW seen \in D PROVE Left(seen) \in Nat /\ IsFiniteSet(ListCampaigns \ seen)
    BY FS_Subset, FS_CardinalityType DEF StoredInv
  <1> HIDE DEF More
  <1>8. ASSUME NEW seen \in D, More(seen) # seen PROVE Left(More(seen)) < Left(seen)
    <2> DEFINE rest == ListCampaigns \ seen
               fewer == ListCampaigns \ More(seen)
    <2>1. fewer \subseteq rest /\ fewer # rest
      BY <1>2, <1>8
    <2>2. IsFiniteSet(rest) /\ Cardinality(rest) \in Nat
      BY <1>7
    <2> HIDE DEF rest, fewer
    <2>3. /\ Cardinality(fewer) \in Nat /\ Cardinality(fewer) <= Cardinality(rest)
          /\ Cardinality(fewer) # Cardinality(rest)
      BY <2>1, <2>2, FS_Subset, FS_CardinalityType
    <2>4. Cardinality(fewer) < Cardinality(rest)
      BY <2>2, <2>3
    <2> QED
      BY <2>4 DEF rest, fewer
  <1> HIDE DEF Left
  <1> DEFINE Bad == {seen \in D : queue[seen] # Down(seen)}
  <1>9. Bad = {}
    <2>1. SUFFICES ASSUME Bad # {} PROVE FALSE
      OBVIOUS
    <2> DEFINE sizes == {Left(seen) : seen \in Bad}
    <2>2. sizes \subseteq Nat /\ sizes # {}
      <3>1. \A seen \in Bad : Left(seen) \in Nat
        BY <1>7
      <3> HIDE DEF Bad
      <3> QED
        BY <2>1, <3>1
    <2> HIDE DEF sizes
    <2>3. PICK size \in sizes : \A n \in sizes : size <= n
      BY <2>2, SmallestExists
    <2>4. PICK seen \in Bad : size = Left(seen)
      BY <2>3 DEF sizes
    <2>5. seen \in D /\ queue[seen] # Down(seen)
      OBVIOUS
    <2>6. More(seen) # seen /\ queue[seen] = queue[More(seen)] /\ Down(seen) = Down(More(seen))
      BY <1>2, <1>6, <2>5
    <2>7. More(seen) \in D /\ More(seen) \in Bad
      BY <1>2, <2>5, <2>6
    <2> HIDE DEF Bad
    <2>8. Left(More(seen)) \in sizes
      BY <2>7 DEF sizes
    <2>9. size <= Left(More(seen)) /\ Left(More(seen)) < size
      BY <1>8, <2>3, <2>4, <2>5, <2>6, <2>8
    <2>10. Left(seen) \in Nat
      BY <1>7, <2>5
    <2>11. Left(More(seen)) \in Nat
      BY <1>7, <2>7
    <2> HIDE DEF More
    <2> QED
      BY <2>4, <2>9, <2>10, <2>11
  <1> QED
    BY <1>5, <1>9

\* A campaign's line: all that descend from any it succeeds.
Line(c) == Down(Up(c))

\* The report is about the line, and finds no fault with the walk.
LEMMA LineageOfLine ==
  ASSUME IInv, StoredInv, NEW c \in ListCampaigns
  PROVE  /\ Ancestry(c).issues = {} /\ Descent(Ancestry(c).passed) = Line(c)
         /\ Line(c) \in SUBSET ListCampaigns /\ c \in Line(c)
         /\ UpSet(Line(c)) /\ DownSet(Line(c))
         /\ \A d \in Line(c) : Line(d) \subseteq Line(c)
  <1> DEFINE X == Line(c)
  <1>1. /\ c \in Up(c) /\ Up(c) \in SUBSET ListCampaigns /\ UpSet(Up(c))
    BY UpIsLeast
  <1>2. ListCampaigns \subseteq Campaign /\ Up(c) \in SUBSET Campaign
    BY <1>1 DEF ListCampaigns
  <1>3. /\ Up(c) \subseteq X /\ X \in SUBSET Campaign /\ X \in SUBSET ListCampaigns /\ DownSet(X)
        /\ \A U \in SUBSET Campaign : Up(c) \subseteq U /\ DownSet(U) => X \subseteq U
    BY <1>1, <1>2, DownIsLeast DEF Line
  <1>4. Ancestry(c).issues = {} /\ Descent(Ancestry(c).passed) = X
    BY <1>2, AncestryIsUp, DescentIsDown DEF Line
  <1> HIDE DEF X
  <1>5. UpSet(X)
    <2> DEFINE U == {d \in X : campaigns[d].predecessor = Nil \/ campaigns[d].predecessor \in X}
    <2>1. Up(c) \subseteq U
      BY <1>1, <1>3 DEF UpSet
    <2>2. ASSUME NEW d \in U, NEW e \in Children(d) PROVE e \in U
      BY <1>3, <2>2 DEF DownSet, Children
    <2>3. DownSet(U) /\ U \in SUBSET Campaign
      BY <1>3, <2>2 DEF DownSet
    <2>4. X \subseteq U
      BY <1>3, <2>1, <2>3
    <2> QED
      BY <2>4 DEF UpSet
  <1>6. ASSUME NEW d \in X PROVE Line(d) \subseteq X
    <2>1. d \in ListCampaigns /\ X \in SUBSET ListCampaigns
      BY <1>3
    <2>2. Up(d) \subseteq X
      BY <1>5, <2>1, UpIsLeast
    <2>3. Up(d) \in SUBSET Campaign
      BY <1>2, <2>1, UpIsLeast
    <2> QED
      BY <1>3, <2>2, <2>3, DownIsLeast DEF Line
  <1> QED
    BY <1>1, <1>3, <1>4, <1>5, <1>6 DEF X

\* All members of a line have the same line.
LEMMA OneLine ==
  ASSUME IInv, StoredInv, NEW c \in ListCampaigns, NEW n \in Line(c)
  PROVE  Line(n) = Line(c)
  <1>1. /\ c \in Up(c) /\ Up(c) \in SUBSET ListCampaigns /\ UpSet(Up(c))
        /\ \A U \in SUBSET ListCampaigns : c \in U /\ UpSet(U) => Up(c) \subseteq U
    BY UpIsLeast
  <1>2. ListCampaigns \subseteq Campaign
    BY DEF ListCampaigns
  <1>3. /\ Up(c) \subseteq Line(c) /\ Line(c) \in SUBSET Campaign
        /\ Line(c) \subseteq ListCampaigns /\ DownSet(Line(c))
        /\ \A U \in SUBSET Campaign : Up(c) \subseteq U /\ DownSet(U) => Line(c) \subseteq U
    BY <1>1, <1>2, DownIsLeast DEF Line
  <1>4. ASSUME NEW d \in ListCampaigns
        PROVE  /\ d \in Down({d}) /\ DownSet(Down({d})) /\ Down({d}) \in SUBSET Campaign
               /\ \A U \in SUBSET Campaign : d \in U /\ DownSet(U) => Down({d}) \subseteq U
               /\ d \in Line(d) /\ Line(d) \in SUBSET Campaign /\ DownSet(Line(d))
               /\ Up(d) \subseteq Line(d) /\ UpSet(Line(d))
    <2>1. {d} \in SUBSET Campaign /\ Up(d) \in SUBSET Campaign /\ d \in Up(d)
      BY <1>2, UpIsLeast
    <2>2. /\ d \in Down({d}) /\ DownSet(Down({d})) /\ Down({d}) \in SUBSET Campaign
          /\ \A U \in SUBSET Campaign : d \in U /\ DownSet(U) => Down({d}) \subseteq U
      BY <2>1, DownIsLeast
    <2>3. Up(d) \subseteq Line(d) /\ Line(d) \in SUBSET Campaign /\ DownSet(Line(d))
      BY <2>1, DownIsLeast DEF Line
    <2> QED
      BY <2>1, <2>2, <2>3, LineageOfLine
  <1> DEFINE Roots == {u \in Up(c) : c \in Down({u})}
  <1>5. Up(c) \subseteq Roots
    <2>1. c \in Roots /\ Roots \in SUBSET ListCampaigns
      BY <1>1, <1>4
    <2>2. ASSUME NEW u \in Roots, campaigns[u].predecessor # Nil
          PROVE  campaigns[u].predecessor \in Roots
      <3> DEFINE p == campaigns[u].predecessor
      <3>1. u \in ListCampaigns /\ p \in Up(c) /\ p \in ListCampaigns
        BY <1>1, <2>2 DEF UpSet
      <3>2. u \in Children(p)
        BY <3>1 DEF Children
      <3> HIDE DEF p
      <3>3. u \in Down({p})
        BY <1>4, <3>1, <3>2 DEF DownSet
      <3>4. c \in Down({p})
        BY <1>4, <3>1, <3>3
      <3>5. p \in Roots
        BY <3>1, <3>4
      <3> QED
        BY <3>5 DEF p
    <2>3. UpSet(Roots)
      BY <2>2 DEF UpSet
    <2> HIDE DEF Roots
    <2> QED
      BY <1>1, <2>1, <2>3
  <1> DEFINE Y == {d \in Line(c) : c \in Line(d)}
  <1>6. Up(c) \subseteq Y
    <2>1. ASSUME NEW u \in Up(c) PROVE u \in Line(c) /\ c \in Line(u)
      <3>1. u \in ListCampaigns /\ c \in Down({u})
        BY <1>1, <1>5
      <3>2. Down({u}) \subseteq Line(u)
        BY <1>4, <3>1
      <3> QED
        BY <1>3, <3>1, <3>2
    <2> QED
      BY <2>1
  <1>7. ASSUME NEW d \in Y, NEW e \in Children(d) PROVE e \in Y
    <2>1. d \in ListCampaigns /\ e \in ListCampaigns /\ e \in Line(c) /\ c \in Line(d)
      BY <1>3, <1>7 DEF DownSet, Children
    <2>2. campaigns[e].predecessor = d /\ d # Nil
      BY <1>2, <1>7, <2>1, NilAssumption DEF Children
    <2>3. d \in Line(e)
      BY <1>4, <2>1, <2>2 DEF UpSet
    <2>4. Line(d) \subseteq Line(e)
      BY <2>1, <2>3, LineageOfLine
    <2> QED
      BY <2>1, <2>4
  <1>8. DownSet(Y) /\ Y \in SUBSET Campaign
    BY <1>3, <1>7 DEF DownSet
  <1>9. Line(c) \subseteq Y
    BY <1>3, <1>6, <1>8
  <1>10. n \in ListCampaigns /\ c \in Line(n)
    BY <1>3, <1>9
  <1> QED
    BY <1>10, LineageOfLine

\* QualificationLineage, CreateSuccessor, AmendCampaign: the report of a line
\* does not depend on whom it is asked for, and finds no cycle, no loose end and
\* no change of station or devices.
THEOREM LineageIsSound == Spec => []LineageSound
  <1>1. ASSUME IInv, StoredInv, NEW c \in ListCampaigns
        PROVE  LET lineage == QualificationLineage(c)
               IN  /\ \A n \in lineage.nodes : QualificationLineage(n.campaign) = lineage
                   /\ \A i \in lineage.issues :
                        i.code \in {"LINEAGE_BRANCH", "LINEAGE_WINDOW_REVERSED"}
                   /\ \A h \in lineage.changes : h.added = {} /\ h.removed = {}
    <2> DEFINE lineage == QualificationLineage(c)
    <2>1. ASSUME NEW d \in Line(c)
          PROVE  /\ d \in ListCampaigns /\ Ancestry(d).issues = {}
                 /\ Descent(Ancestry(d).passed) = Line(c)
      <3>1. d \in ListCampaigns
        BY <1>1, LineageOfLine
      <3> QED
        BY <1>1, <3>1, LineageOfLine, OneLine
    <2>2. c \in Line(c) /\ lineage.nodes = {[campaign |-> d, row |-> campaigns[d]] : d \in Line(c)}
      BY <1>1, LineageOfLine DEF QualificationLineage
    <2>3. \A d \in Line(c) : QualificationLineage(d) = lineage
      BY <2>1, <2>2 DEF QualificationLineage
    <2>4. \A n \in lineage.nodes : QualificationLineage(n.campaign) = lineage
      <3> HIDE DEF lineage
      <3> QED
        BY <2>2, <2>3
    <2> DEFINE edges == {<<campaigns[d].predecessor, d>> :
                           d \in {n \in Line(c) : campaigns[n].predecessor \in Line(c)}}
    <2>5. ASSUME NEW e \in edges
          PROVE  /\ campaigns[e[1]].booking.station = campaigns[e[2]].booking.station
                 /\ campaigns[e[1]].booking.devices = campaigns[e[2]].booking.devices
      <3>1. PICK d \in Line(c) : /\ campaigns[d].predecessor \in Line(c)
                                 /\ e = <<campaigns[d].predecessor, d>>
        OBVIOUS
      <3>2. d \in ListCampaigns /\ campaigns[d].predecessor # Nil
        BY <2>1, <3>1, NilAssumption DEF ListCampaigns
      <3> QED
        BY <1>1, <3>1, <3>2, PredecessorStored
    <2>6. lineage.changes =
            {[campaign |-> e[2],
              added |-> campaigns[e[2]].booking.devices \ campaigns[e[1]].booking.devices,
              removed |-> campaigns[e[1]].booking.devices \ campaigns[e[2]].booking.devices] :
               e \in edges}
      BY <2>1, <2>2 DEF QualificationLineage
    <2>7. lineage.issues =
            {Issue("LINEAGE_BRANCH", d, Nil) : d \in {n \in Line(c) : Cardinality(Children(n)) > 1}}
            \cup {Issue("LINEAGE_STATION_CHANGED", e[2], e[1]) :
                    e \in {f \in edges :
                      campaigns[f[2]].booking.station # campaigns[f[1]].booking.station}}
            \cup {Issue("LINEAGE_WINDOW_REVERSED", e[2], e[1]) :
                    e \in {f \in edges :
                      campaigns[f[2]].booking.start < campaigns[f[1]].booking.end}}
      BY <2>1, <2>2 DEF QualificationLineage
    <2> HIDE DEF lineage, edges
    <2>8. \A i \in lineage.issues : i.code \in {"LINEAGE_BRANCH", "LINEAGE_WINDOW_REVERSED"}
      BY <2>5, <2>7 DEF Issue
    <2>9. \A h \in lineage.changes : h.added = {} /\ h.removed = {}
      BY <2>5, <2>6
    <2> QED
      BY <2>4, <2>8, <2>9 DEF lineage
  <1>2. IInv /\ StoredInv => LineageSound
    <2>1. \A c \in Campaign : Exists(c) => c \in ListCampaigns
      BY DEF ListCampaigns
    <2> QED
      BY <1>1, <2>1 DEF LineageSound
  <1> QED
    BY <1>2, Invariance, StoredInvariance, PTL
=============================================================================
