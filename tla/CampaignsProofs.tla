--------------------------- MODULE CampaignsProofs ---------------------------
(***************************************************************************)
(* The properties of Campaigns, for any campaigns, handlers, bookings and  *)
(* evidence.  The argument is the same for all of them: the key on the     *)
(* audit events lets a mutation through only if the row and the tables it  *)
(* was made from are still the stored ones, so what its handler found out  *)
(* about its own campaign is true at the commit; and what concerns other   *)
(* campaigns the transaction finds out again.                              *)
(***************************************************************************)
EXTENDS Campaigns, TLAPS
-----------------------------------------------------------------------------
(* The inductive invariant *)

\* No two references have one digest.
DistinctDigests(refs) == \A q, r \in refs : q.digest = r.digest => q = r

\* The states in which the window is covered, and those nothing leaves.
Advanced == {"REFERENCE_VERIFIED", "MEASURED", "ARCHIVED"}
Closed == {"ARCHIVED", "CANCELLED"}

\* What a campaign's row and its tables t have to do with each other.
Agree(row, t) ==
  /\ row.state \in Advanced => Covers(EffectiveOf(t), row.booking)
  /\ row.state \in {"DRAFT", "CANCELLED"} => ~t.measured

\* What the tables of one campaign have to do with each other.
Sound(t) ==
  /\ DistinctDigests(t.references)
  /\ t.replaced \cup t.withdrawn \subseteq t.references

\* Revisions are numbered from 1 without a gap.
Numbered ==
  \A c \in Campaign :
    /\ ~Exists(c) => events[c] = {} /\ tables[c] = Empty
    /\ Exists(c) => events[c] = 1 .. campaigns[c].revision

Consistent ==
  \A c \in Campaign : Sound(tables[c]) /\ (Exists(c) => Agree(campaigns[c], tables[c]))

\* Mutation m, were it applied to what is stored now.
Applies(m) ==
  LET row == campaigns[m.campaign]
      t == tables[m.campaign]
  IN  /\ row.state \notin Closed
      /\ IF m.call = "Commit"
         THEN m.row.booking = row.booking /\ m.row.predecessor = row.predecessor
         ELSE m.row.predecessor = Nil /\ m.row.state = "DRAFT" /\ m.row.booking \in Asked
      /\ Agree(m.row, Added(t, m.adds))
      /\ Sound(Added(t, m.adds))
      /\ m.adds.baselines # {} => Added(t, m.adds).references = {}

\* A mutation applies unless it is a new campaign's or an outdated one.
Timely(m) ==
  IF m.call = "CreateCampaignAtomic"
  THEN /\ m.row.revision = 1 /\ m.row.state = "DRAFT" /\ m.adds = Empty
       /\ Inherits(m.row, campaigns) /\ m.row.booking \in Asked
  ELSE m.row.revision - 1 \in events[m.campaign] /\ (UniqueEvent(m) => Applies(m))

\* Whatever a handler has in hand can still be applied, or comes too late.
InHand == \A h \in Handler : pending[h] # Nil => Timely(pending[h])

IInv ==
  /\ TypeOK /\ Numbered /\ Consistent /\ InHand
  /\ NoDoubleBooking /\ FingerprintsAgree /\ SuccessorOfArchived
-----------------------------------------------------------------------------
(* Operators *)

\* Whether two bookings are at odds does not depend on their order.
LEMMA Symmetric ==
  ASSUME NEW a, NEW b
  PROVE  /\ Overlaps(a, b) <=> Overlaps(b, a)
         /\ Shares(a, b) <=> Shares(b, a)
BY DEF Overlaps, Shares

\* The empty tables, and what adding to tables gives.
LEMMA Adding ==
  /\ Empty \in Tables
  /\ \A t, adds \in Tables :
       /\ Added(t, adds) \in Tables
       /\ EffectiveOf(Added(t, adds)) \subseteq EffectiveOf(t) \cup adds.references
       /\ Added(t, Empty) = t
       /\ adds.measured => Added(t, adds).measured
BY DEF Empty, Tables, Added, EffectiveOf

\* References that are not in soundly kept tables yet are all effective when
\* added, and the rest is unless it is replaced or withdrawn.
LEMMA AddingReferences ==
  ASSUME NEW t \in Tables, Sound(t), NEW adds \in Tables,
         adds.replaced \cup adds.withdrawn \subseteq t.references,
         \A r \in adds.references :
           \A q \in t.references \cup (adds.references \ {r}) : q.digest # r.digest
  PROVE  /\ Sound(Added(t, adds))
         /\ EffectiveOf(Added(t, adds)) =
              (EffectiveOf(t) \ (adds.replaced \cup adds.withdrawn)) \cup adds.references
<1>1. /\ Added(t, adds).references = t.references \cup adds.references
      /\ Added(t, adds).replaced = t.replaced \cup adds.replaced
      /\ Added(t, adds).withdrawn = t.withdrawn \cup adds.withdrawn
  BY DEF Added
<1>2. adds.references \cap t.references = {}
  OBVIOUS
<1>3. DistinctDigests(t.references \cup adds.references)
  BY DEF Sound, DistinctDigests
<1> QED
  BY <1>1, <1>2, <1>3 DEF EffectiveOf, Sound

\* The state that a change of the references leads to agrees with them.
LEMMA CoveredAgrees ==
  ASSUME NEW row, NEW t, ~t.measured, row.state = StateCovered(EffectiveOf(t), row.booking)
  PROVE  Agree(row, t)
BY DEF StateCovered, Agree, Advanced
-----------------------------------------------------------------------------
(* Reading and deciding *)

\* Taking a mutation in hand keeps the invariant if the mutation is well
\* formed and applies to what is stored.
LEMMA PrepareStep ==
  ASSUME IInv, NEW h \in Handler, NEW m \in Mutation, Timely(m), Prepare(h, m)
  PROVE  IInv'
<1> USE DEF IInv, Prepare
<1>1. TypeOK'
  BY DEF TypeOK
<1>2. Numbered' /\ Consistent' /\ NoDoubleBooking' /\ FingerprintsAgree' /\ SuccessorOfArchived'
  BY DEF Numbered, Consistent, NoDoubleBooking, FingerprintsAgree, SuccessorOfArchived, Exists,
         EffectiveReferences
<1>3. InHand'
  <2> SUFFICES ASSUME NEW g \in Handler, (pending[g] # Nil)'
               PROVE  Timely(pending[g])'
    BY DEF InHand
  <2>1. CASE g = h
    <3>1. pending'[g] = m
      BY <2>1 DEF TypeOK
    <3> QED
      BY <3>1 DEF Timely, Applies, UniqueEvent
  <2>2. CASE g # h
    <3>1. pending'[g] = pending[g] /\ Timely(pending[g])
      BY <2>2 DEF TypeOK, InHand
    <3> QED
      BY <3>1 DEF Timely, Applies, UniqueEvent
  <2> QED
    BY <2>1, <2>2
<1> QED
  BY <1>1, <1>2, <1>3

\* A mutation that revises an open campaign, leaving its booking alone.
LEMMA ReviseStep ==
  ASSUME IInv, NEW h \in Handler, NEW c \in Campaign, Exists(c),
         campaigns[c].state \notin Closed,
         NEW s \in States, NEW adds \in Tables,
         Agree([campaigns[c] EXCEPT !.state = s, !.revision = @ + 1], Added(tables[c], adds)),
         Sound(Added(tables[c], adds)),
         adds.baselines # {} => Added(tables[c], adds).references = {},
         Prepare(h, Revise(c, s, adds))
  PROVE  IInv'
<1> DEFINE m == Revise(c, s, adds)
<1>1. campaigns[c] \in Row
  BY DEF IInv, TypeOK, Exists
<1>2. /\ m.call = "Commit" /\ m.campaign = c /\ m.adds = adds
      /\ m.row = [campaigns[c] EXCEPT !.state = s, !.revision = @ + 1]
  BY DEF Revise
<1>3. /\ m.row \in Row /\ m.row.booking = campaigns[c].booking
      /\ m.row.predecessor = campaigns[c].predecessor
      /\ m.row.revision = campaigns[c].revision + 1
  <2> DEFINE row == campaigns[c]
  <2>1. row = [booking |-> row.booking, state |-> row.state, revision |-> row.revision,
               predecessor |-> row.predecessor]
        /\ row.revision + 1 \in Nat \ {0}
    BY <1>1 DEF Row
  <2>2. m.row = [booking |-> row.booking, state |-> s, revision |-> row.revision + 1,
                 predecessor |-> row.predecessor]
    BY <1>2, <2>1
  <2> QED
    BY <1>1, <2>1, <2>2 DEF Row
<1>4. m \in Mutation
  BY <1>2, <1>3 DEF Mutation, Revise
<1>5. m.row.revision - 1 \in events[c]
  BY <1>1, <1>3 DEF IInv, Numbered, Row
<1>6. Timely(m)
  BY <1>2, <1>3, <1>5 DEF Timely, Applies
<1> HIDE DEF m
<1> QED
  BY <1>4, <1>6, PrepareStep DEF m

\* What a campaign in one of some states is.
LEMMA Found ==
  ASSUME IInv, NEW c \in Campaign, NEW states \in SUBSET States, InState(c, states)
  PROVE  /\ Exists(c) /\ campaigns[c] \in Row /\ campaigns[c].state \in states
         /\ tables[c] \in Tables /\ Sound(tables[c]) /\ Agree(campaigns[c], tables[c])
BY DEF IInv, TypeOK, InState, Exists, Consistent

\* Deciding on a new campaign or another booking keeps IInv.
LEMMA OpeningStep ==
  ASSUME IInv, NEW h \in Handler, NEW c \in Campaign, Opening(h, c)
  PROVE  IInv'
<1>1. PICK b \in Asked : \/ Create(h, c, b)
                         \/ \E source \in Campaign : CreateSuccessor(h, c, source, b)
                         \/ AmendCampaign(h, c, b)
  BY DEF Opening
<1>2. b \in Booking
  BY CampaignsAssumption
<1>3. ASSUME NEW p \in Campaign \cup {Nil}, Inherits(NewRow(b, p), campaigns),
             Prepare(h, [call |-> "CreateCampaignAtomic", campaign |-> c,
                         row |-> NewRow(b, p), adds |-> Empty])
      PROVE  IInv'
  <2> DEFINE m == [call |-> "CreateCampaignAtomic", campaign |-> c,
                   row |-> NewRow(b, p), adds |-> Empty]
  <2>1. m \in Mutation
    BY <1>2, Adding DEF Mutation, NewRow, Row, States
  <2>2. Timely(m)
    BY <1>3 DEF Timely, NewRow
  <2> HIDE DEF m
  <2> QED
    BY <1>3, <2>1, <2>2, PrepareStep DEF m
<1>4. CASE AmendCampaign(h, c, b)
  <2> DEFINE m == [call |-> "CommitAmendment", campaign |-> c, adds |-> Empty,
                   row |-> [NewRow(b, Nil) EXCEPT !.revision = campaigns[c].revision + 1]]
  <2>1. /\ Exists(c) /\ campaigns[c] \in Row /\ campaigns[c].state = "DRAFT"
        /\ tables[c] \in Tables /\ Sound(tables[c]) /\ Agree(campaigns[c], tables[c])
    BY <1>4, Found, {"DRAFT"} \in SUBSET States DEF AmendCampaign, States
  <2>2. /\ m.row = [booking |-> b, state |-> "DRAFT",
                    revision |-> campaigns[c].revision + 1, predecessor |-> Nil]
        /\ m.call = "CommitAmendment" /\ m.campaign = c /\ m.adds = Empty
    BY DEF NewRow
  <2>3. m \in Mutation
    BY <1>2, <2>1, <2>2, Adding DEF Mutation, Row, States
  <2>4. m.row.revision - 1 \in events[c]
    BY <2>1, <2>2 DEF IInv, Numbered, Row
  <2>5. Agree(m.row, tables[c]) /\ Added(tables[c], m.adds) = tables[c]
    BY <2>1, <2>2, Adding DEF Agree, Advanced
  <2>6. Timely(m)
    BY <2>1, <2>2, <2>4, <2>5 DEF Timely, Applies, Closed, Empty
  <2> HIDE DEF m
  <2> QED
    BY <1>4, <2>3, <2>6, PrepareStep DEF AmendCampaign, m
<1>5. CASE Create(h, c, b)
  <2>1. Inherits(NewRow(b, Nil), campaigns)
    BY DEF Inherits, NewRow
  <2> QED
    BY <1>3, <1>5, <2>1 DEF Create
<1>6. ASSUME NEW source \in Campaign, CreateSuccessor(h, c, source, b)
      PROVE  IInv'
  <2>1. Inherits(NewRow(b, source), campaigns)
    BY <1>6 DEF Inherits, NewRow, CreateSuccessor, InState, Exists
  <2> QED
    BY <1>3, <1>6, <2>1 DEF CreateSuccessor
<1> QED
  BY <1>1, <1>4, <1>5, <1>6

\* So does deciding on baselines and references.
LEMMA ReferencingStep ==
  ASSUME IInv, NEW h \in Handler, NEW c \in Campaign, Referencing(h, c)
  PROVE  IInv'
<1> DEFINE t == tables[c]
           row == campaigns[c]
<1>1. CASE RegisterDeviceBaselines(h, c)
  <2> DEFINE adds == [Empty EXCEPT !.baselines = row.booking.devices]
  <2>1. /\ Exists(c) /\ row \in Row /\ row.state = "DRAFT"
        /\ t \in Tables /\ Sound(t) /\ Agree(row, t)
    BY <1>1, Found, {"DRAFT"} \in SUBSET States DEF RegisterDeviceBaselines, States
  <2>2. adds \in Tables
    BY <2>1 DEF Row, Booking, Empty, Tables
  <2>3. /\ Added(t, adds).references = t.references
        /\ Added(t, adds).replaced = t.replaced
        /\ Added(t, adds).withdrawn = t.withdrawn
        /\ ~Added(t, adds).measured
    BY <2>1 DEF Added, Empty, Tables, Agree
  <2>4. Sound(Added(t, adds)) /\ Added(t, adds).references = {}
    BY <1>1, <2>1, <2>3 DEF Sound, RegisterDeviceBaselines, Registrable
  <2>5. Agree([row EXCEPT !.state = "DRAFT", !.revision = @ + 1], Added(t, adds))
    BY <2>1, <2>3 DEF Agree, Advanced, Row
  <2> HIDE DEF adds
  <2> QED
    BY <1>1, <2>1, <2>2, <2>4, <2>5, ReviseStep
       DEF RegisterDeviceBaselines, Closed, States, adds
<1>2. ASSUME NEW batch \in SUBSET Offered, AddReferences(h, c, batch)
      PROVE  IInv'
  <2> DEFINE adds == [Empty EXCEPT !.references = batch]
             s == StateCovered(EffectiveReferences(c) \cup batch, row.booking)
  <2>1. /\ Exists(c) /\ row \in Row /\ row.state = "DRAFT"
        /\ t \in Tables /\ Sound(t) /\ ~t.measured
    BY <1>2, Found, {"DRAFT"} \in SUBSET States
       DEF AddReferences, States, Agree
  <2>2. batch \in SUBSET Reference
    BY CampaignsAssumption
  <2>3. /\ adds \in Tables /\ adds.baselines = {} /\ ~Added(t, adds).measured
        /\ adds.references = batch /\ adds.replaced = {} /\ adds.withdrawn = {}
    BY <2>1, <2>2 DEF Empty, Tables, Added
  <2>4. /\ Sound(Added(t, adds))
        /\ EffectiveOf(Added(t, adds)) = EffectiveReferences(c) \cup batch
    <3>1. \A r \in batch : \A q \in t.references \cup (batch \ {r}) : q.digest # r.digest
      BY <1>2 DEF AddReferences, NewIds
    <3> HIDE DEF adds
    <3> QED
      BY <2>1, <2>3, <3>1, AddingReferences DEF EffectiveReferences
  <2>5. Agree([row EXCEPT !.state = s, !.revision = @ + 1], Added(t, adds)) /\ s \in States
    <3>1. [row EXCEPT !.state = s, !.revision = @ + 1].state = s
          /\ [row EXCEPT !.state = s, !.revision = @ + 1].booking = row.booking
      BY <2>1 DEF Row
    <3> QED
      BY <2>3, <2>4, <3>1, CoveredAgrees DEF StateCovered, States
  <2> HIDE DEF adds, s
  <2> QED
    BY <1>2, <2>1, <2>3, <2>4, <2>5, ReviseStep DEF AddReferences, Closed, adds, s
<1>3. ASSUME NEW old \in Offered, WithdrawReference(h, c, old)
      PROVE  IInv'
  <2> DEFINE adds == [Empty EXCEPT !.withdrawn = {old}]
             s == StateWithout(EffectiveReferences(c) \ {old}, row)
  <2>1. /\ Exists(c) /\ row \in Row /\ row.state \in {"DRAFT", "REFERENCE_VERIFIED"}
        /\ t \in Tables /\ Sound(t) /\ ~t.measured
    BY <1>3, Found, {"DRAFT", "REFERENCE_VERIFIED"} \in SUBSET States
       DEF WithdrawReference, States
  <2>2. old \in Reference /\ old \in EffectiveOf(t)
    BY <1>3, CampaignsAssumption DEF WithdrawReference, EffectiveReferences
  <2>3. /\ adds \in Tables /\ adds.baselines = {} /\ ~Added(t, adds).measured
        /\ adds.references = {} /\ adds.replaced = {} /\ adds.withdrawn = {old}
    BY <2>1, <2>2 DEF Empty, Tables, Added
  <2>4. /\ Sound(Added(t, adds))
        /\ EffectiveOf(Added(t, adds)) = EffectiveReferences(c) \ {old}
    <3> HIDE DEF adds
    <3> QED
      BY <2>1, <2>2, <2>3, AddingReferences DEF EffectiveReferences, EffectiveOf
  <2>5. Agree([row EXCEPT !.state = s, !.revision = @ + 1], Added(t, adds)) /\ s \in States
    <3>1. [row EXCEPT !.state = s, !.revision = @ + 1].state = s
          /\ [row EXCEPT !.state = s, !.revision = @ + 1].booking = row.booking
      BY <2>1 DEF Row
    <3> QED
      BY <2>3, <2>4, <3>1, CoveredAgrees DEF StateWithout, StateCovered, States
  <2> HIDE DEF adds, s
  <2> QED
    BY <1>3, <2>1, <2>3, <2>4, <2>5, ReviseStep DEF WithdrawReference, Closed, adds, s
<1>4. ASSUME NEW old \in Offered, NEW r \in Offered, CorrectReference(h, c, old, r)
      PROVE  IInv'
  <2> DEFINE adds == [Empty EXCEPT !.references = {r}, !.replaced = {old}]
             s == StateCovered((EffectiveReferences(c) \ {old}) \cup {r}, row.booking)
  <2>1. /\ Exists(c) /\ row \in Row /\ row.state = "DRAFT"
        /\ t \in Tables /\ Sound(t) /\ ~t.measured
    BY <1>4, Found, {"DRAFT"} \in SUBSET States
       DEF CorrectReference, States, Agree
  <2>2. {r} \in SUBSET Reference /\ {old} \in SUBSET Reference /\ {old} \in SUBSET t.references
    BY <1>4, CampaignsAssumption DEF CorrectReference, EffectiveReferences, EffectiveOf
  <2>3. /\ adds \in Tables /\ adds.baselines = {} /\ ~Added(t, adds).measured
        /\ adds.references = {r} /\ adds.replaced = {old} /\ adds.withdrawn = {}
    BY <2>1, <2>2 DEF Empty, Tables, Added
  <2>4. /\ Sound(Added(t, adds))
        /\ EffectiveOf(Added(t, adds)) = (EffectiveReferences(c) \ {old}) \cup {r}
    <3>1. \A x \in {r} : \A q \in t.references \cup ({r} \ {x}) : q.digest # x.digest
      BY <1>4 DEF CorrectReference, NewIds
    <3> HIDE DEF adds
    <3> QED
      BY <2>1, <2>2, <2>3, <3>1, AddingReferences DEF EffectiveReferences
  <2>5. Agree([row EXCEPT !.state = s, !.revision = @ + 1], Added(t, adds)) /\ s \in States
    <3>1. [row EXCEPT !.state = s, !.revision = @ + 1].state = s
          /\ [row EXCEPT !.state = s, !.revision = @ + 1].booking = row.booking
      BY <2>1 DEF Row
    <3> QED
      BY <2>3, <2>4, <3>1, CoveredAgrees DEF StateCovered, States
  <2> HIDE DEF adds, s
  <2> QED
    BY <1>4, <2>1, <2>3, <2>4, <2>5, ReviseStep DEF CorrectReference, Closed, adds, s
<1> QED
  BY <1>1, <1>2, <1>3, <1>4 DEF Referencing, ReferenceDetailed, ConfirmReferenceBatch

\* So does deciding on a round, the archive or a cancellation.
LEMMA ClosingStep ==
  ASSUME IInv, NEW h \in Handler, NEW c \in Campaign, Closing(h, c)
  PROVE  IInv'
<1> DEFINE t == tables[c]
           row == campaigns[c]
<1>1. ASSUME NEW s \in States, Measure(h, c, s)
      PROVE  IInv'
  <2> DEFINE adds == [Empty EXCEPT !.measured = TRUE]
  <2>1. /\ Exists(c) /\ row \in Row /\ row.state \in {"REFERENCE_VERIFIED", "MEASURED"}
        /\ t \in Tables /\ Sound(t) /\ Agree(row, t)
    BY <1>1, Found, {"REFERENCE_VERIFIED", "MEASURED"} \in SUBSET States DEF Measure, States
  <2>2. /\ adds \in Tables /\ adds.baselines = {}
        /\ Added(t, adds).references = t.references
        /\ Added(t, adds).replaced = t.replaced
        /\ Added(t, adds).withdrawn = t.withdrawn
    BY <2>1 DEF Empty, Tables, Added
  <2>3. Sound(Added(t, adds)) /\ EffectiveOf(Added(t, adds)) = EffectiveOf(t)
    BY <2>1, <2>2 DEF Sound, EffectiveOf
  <2>4. Agree([row EXCEPT !.state = s, !.revision = @ + 1], Added(t, adds))
    <3>1. [row EXCEPT !.state = s, !.revision = @ + 1].state = s
          /\ [row EXCEPT !.state = s, !.revision = @ + 1].booking = row.booking
      BY <2>1 DEF Row
    <3> QED
      BY <1>1, <2>1, <2>3, <3>1 DEF Agree, Advanced, Measure
  <2> HIDE DEF adds
  <2> QED
    BY <1>1, <2>1, <2>2, <2>3, <2>4, ReviseStep DEF Measure, Closed, adds
<1>2. ASSUME Exists(c), row \in Row, t \in Tables, Sound(t), row.state \notin Closed,
             NEW s \in States, Prepare(h, Revise(c, s, Empty)),
             Agree([row EXCEPT !.state = s, !.revision = @ + 1], t)
      PROVE  IInv'
  <2>1. Empty.baselines = {} /\ Empty \in Tables /\ Added(t, Empty) = t
    BY <1>2, Adding DEF Empty
  <2> QED
    BY <1>2, <2>1, ReviseStep
<1>3. CASE Archive(h, c)
  <2>1. /\ Exists(c) /\ row \in Row /\ row.state = "MEASURED"
        /\ t \in Tables /\ Sound(t) /\ Agree(row, t)
    BY <1>3, Found, {"MEASURED"} \in SUBSET States DEF Archive, States
  <2>2. Agree([row EXCEPT !.state = "ARCHIVED", !.revision = @ + 1], t)
    BY <2>1 DEF Agree, Advanced, Row
  <2> QED
    BY <1>2, <1>3, <2>1, <2>2 DEF Archive, Closed, States
<1>4. CASE CancelCampaign(h, c)
  <2>1. /\ Exists(c) /\ row \in Row /\ row.state \in {"DRAFT", "REFERENCE_VERIFIED"}
        /\ t \in Tables /\ Sound(t) /\ ~t.measured
    BY <1>4, Found, {"DRAFT", "REFERENCE_VERIFIED"} \in SUBSET States
       DEF CancelCampaign, Cancellable, States
  <2>2. Agree([row EXCEPT !.state = "CANCELLED", !.revision = @ + 1], t)
    BY <2>1 DEF Agree, Advanced, Row
  <2> QED
    BY <1>2, <1>4, <2>1, <2>2 DEF CancelCampaign, Closed, States
<1> QED
  BY <1>1, <1>3, <1>4 DEF Closing
-----------------------------------------------------------------------------
(* Committing *)

\* A mutation that is let through is a new campaign's first row, or was made
\* from what is stored: it has the next revision, and it applies.
LEMMA AdmittedApplies ==
  ASSUME IInv, NEW h \in Handler, pending[h] # Nil, Admits(pending[h])
  PROVE  LET m == pending[h]
             c == m.campaign
         IN  /\ m \in Mutation /\ c \in Campaign /\ m.row \in Row /\ m.adds \in Tables
             /\ Agree(m.row, Added(tables[c], m.adds))
             /\ Sound(Added(tables[c], m.adds))
             /\ events[c] \cup {m.row.revision} = 1 .. m.row.revision
             /\ m.row.revision \notin events[c]
             /\ m.call = "CreateCampaignAtomic" =>
                  /\ ~Exists(c) /\ m.adds = Empty /\ m.row.state = "DRAFT"
                  /\ Inherits(m.row, campaigns) /\ m.row.booking \in Asked
             /\ m.call # "CreateCampaignAtomic" => Exists(c) /\ Applies(m)
<1> DEFINE m == pending[h]
           c == m.campaign
<1>1. m \in Mutation /\ Timely(m)
  BY DEF IInv, TypeOK, InHand
<1>2. /\ c \in Campaign /\ m.row \in Row /\ m.adds \in Tables /\ tables[c] \in Tables
      /\ m.row.revision \in Nat \ {0}
  BY <1>1 DEF Mutation, Row, IInv, TypeOK
<1>3. UniqueEvent(m) /\ m.row.revision \notin events[c]
  BY DEF Admits, UniqueEvent
<1>4. CASE m.call = "CreateCampaignAtomic"
  <2>1. /\ ~Exists(c) /\ m.row.revision = 1 /\ m.row.state = "DRAFT" /\ m.adds = Empty
        /\ Inherits(m.row, campaigns) /\ m.row.booking \in Asked
    BY <1>1, <1>4 DEF Admits, Timely
  <2>2. events[c] = {} /\ Sound(tables[c])
    BY <1>2, <2>1 DEF IInv, Numbered, Consistent
  <2>3. Added(tables[c], m.adds) = tables[c]
    BY <1>2, <2>1, Adding
  <2>4. Agree(m.row, tables[c])
    BY <1>2, <2>1 DEF IInv, Numbered, Agree, Advanced, Empty
  <2>5. events[c] \cup {m.row.revision} = 1 .. m.row.revision
    BY <2>1, <2>2
  <2> HIDE DEF m, c
  <2> QED
    BY <1>1, <1>2, <1>3, <1>4, <2>1, <2>2, <2>3, <2>4, <2>5 DEF m, c
<1>5. CASE m.call # "CreateCampaignAtomic"
  <2>1. m.row.revision - 1 \in events[c] /\ Applies(m)
    BY <1>1, <1>3, <1>5 DEF Timely
  <2>2. Exists(c) /\ events[c] = 1 .. campaigns[c].revision /\ campaigns[c] \in Row
    BY <1>2, <2>1 DEF IInv, Numbered, Exists, TypeOK
  <2>3. campaigns[c].revision \in Nat /\ m.row.revision = campaigns[c].revision + 1
    <3> DEFINE n == m.row.revision
               k == campaigns[c].revision
    <3>1. n \in Nat /\ k \in Nat /\ n - 1 \in 1 .. k /\ n \notin 1 .. k
      BY <1>2, <1>3, <2>1, <2>2 DEF Row
    <3> HIDE DEF n, k
    <3>2. n = k + 1
      BY <3>1
    <3> QED
      BY <3>1, <3>2 DEF n, k
  <2>4. events[c] \cup {m.row.revision} = 1 .. m.row.revision
    BY <2>2, <2>3
  <2>5. Agree(m.row, Added(tables[c], m.adds)) /\ Sound(Added(tables[c], m.adds))
    BY <2>1 DEF Applies
  <2> HIDE DEF m, c
  <2> QED
    BY <1>1, <1>2, <1>3, <1>5, <2>1, <2>2, <2>4, <2>5 DEF m, c
<1> QED
  BY <1>4, <1>5

\* No booking comes into force that conflicts with another campaign's: new
\* and amended ones have been compared, others are the same as before.
LEMMA NoConflictAdmitted ==
  ASSUME IInv, NEW h \in Handler, pending[h] # Nil, Admits(pending[h]),
         NEW d \in Campaign, d # pending[h].campaign,
         Exists(d), campaigns[d].state # "CANCELLED",
         Shares(pending[h].row.booking, campaigns[d].booking)
  PROVE  ~Overlaps(pending[h].row.booking, campaigns[d].booking)
<1> DEFINE m == pending[h]
           c == m.campaign
<1>1. /\ m \in Mutation /\ c \in Campaign
      /\ m.call # "CreateCampaignAtomic" => Exists(c) /\ Applies(m)
  BY AdmittedApplies
<1>2. CASE m.call \in Checked
  <2>1. WindowConflicts(c, m.row.booking) = {}
    BY <1>2 DEF Admits
  <2> QED
    BY <2>1 DEF WindowConflicts, Exists
<1>3. CASE m.call = "Commit"
  <2>1. /\ Exists(c) /\ campaigns[c].state \notin Closed
        /\ m.row.booking = campaigns[c].booking
    BY <1>1, <1>3 DEF Applies
  <2>2. ~Overlaps(campaigns[c].booking, campaigns[d].booking)
    BY <1>1, <2>1 DEF IInv, NoDoubleBooking, Closed
  <2> QED
    BY <2>1, <2>2
<1> QED
  BY <1>1, <1>2, <1>3 DEF Mutation, Checked

\* So does committing what was decided, whatever else is in hand.
LEMMA CommitStep ==
  ASSUME IInv, NEW h \in Handler, Commit(h)
  PROVE  IInv'
<1> DEFINE m == pending[h]
           c == m.campaign
<1>1. /\ m # Nil /\ Admits(m)
      /\ campaigns' = [campaigns EXCEPT ![c] = m.row]
      /\ tables' = [tables EXCEPT ![c] = Added(@, m.adds)]
      /\ events' = [events EXCEPT ![c] = @ \cup {m.row.revision}]
      /\ pending' = [pending EXCEPT ![h] = Nil]
  BY DEF Commit
<1>2. /\ m \in Mutation /\ c \in Campaign /\ m.row \in Row /\ m.adds \in Tables
      /\ Agree(m.row, Added(tables[c], m.adds))
      /\ Sound(Added(tables[c], m.adds))
      /\ events[c] \cup {m.row.revision} = 1 .. m.row.revision
      /\ m.row.revision \notin events[c]
      /\ m.call = "CreateCampaignAtomic" =>
           ~Exists(c) /\ m.adds = Empty /\ Inherits(m.row, campaigns)
      /\ m.call # "CreateCampaignAtomic" => Exists(c) /\ Applies(m)
  BY <1>1, AdmittedApplies
<1>3. /\ tables[c] \in Tables /\ Added(tables[c], m.adds) \in Tables
      /\ EffectiveOf(Added(tables[c], m.adds))
            \subseteq EffectiveOf(tables[c]) \cup m.adds.references
      /\ m.row.revision \in Nat
  BY <1>2, Adding DEF IInv, TypeOK, Row
<1>4. /\ campaigns'[c] = m.row /\ tables'[c] = Added(tables[c], m.adds)
      /\ events'[c] = 1 .. m.row.revision
      /\ \A d \in Campaign \ {c} : /\ campaigns'[d] = campaigns[d] /\ tables'[d] = tables[d]
                                   /\ events'[d] = events[d]
      /\ m.row # Nil
  BY <1>1, <1>2, NilAssumption DEF IInv, TypeOK
<1>5. TypeOK'
  <2>1. events' \in [Campaign -> SUBSET Nat]
    BY <1>1, <1>2, <1>3 DEF IInv, TypeOK
  <2> QED
    BY <1>1, <1>2, <1>3, <2>1 DEF IInv, TypeOK
<1> HIDE DEF m, c
<1>0. \A row : row.predecessor \in Campaign \cup {Nil} /\ Inherits(row, campaigns)
              => Inherits(row, campaigns')
  <2>1. Exists(c) => campaigns[c].state # "ARCHIVED"
    BY <1>2 DEF Applies, Closed, m, c
  <2> QED
    BY <1>4, <2>1 DEF Inherits, Exists
<1>6. Numbered'
  BY <1>2, <1>4 DEF IInv, Numbered, Exists
<1>7. Consistent'
  BY <1>2, <1>4 DEF IInv, Consistent, Exists
<1>8. InHand'
  <2> SUFFICES ASSUME NEW g \in Handler, (pending[g] # Nil)'
               PROVE  Timely(pending[g])'
    BY DEF InHand
  <2> DEFINE k == pending[g]
  <2>1. k' = k /\ k # Nil /\ k \in Mutation /\ Timely(k)
    BY <1>1 DEF IInv, TypeOK, InHand
  <2>2. k.campaign \in Campaign /\ k.row.revision \in Nat
    BY <2>1 DEF Mutation, Row
  <2> HIDE DEF k
  <2>3. CASE k.call = "CreateCampaignAtomic"
    <3>1. k.row.revision = 1 /\ k.row.state = "DRAFT" /\ k.adds = Empty
          /\ Inherits(k.row, campaigns) /\ k.row.booking \in Asked
      BY <2>1, <2>3 DEF Timely
    <3>2. k.row.predecessor \in Campaign \cup {Nil}
      BY <2>1 DEF Mutation, Row
    <3>3. Inherits(k.row, campaigns')
      BY <1>0, <3>1, <3>2
    <3> QED
      BY <2>1, <2>3, <3>1, <3>3 DEF Timely, k
  <2>4. CASE k.call # "CreateCampaignAtomic" /\ k.campaign # c
    <3>1. /\ k.row.revision - 1 \in events[k.campaign]
          /\ k.row.revision \notin events[k.campaign] => Applies(k)
      BY <2>1, <2>4 DEF Timely, UniqueEvent
    <3>2. /\ events'[k.campaign] = events[k.campaign]
          /\ campaigns'[k.campaign] = campaigns[k.campaign]
          /\ tables'[k.campaign] = tables[k.campaign]
      BY <1>4, <2>2, <2>4
    <3> QED
      BY <2>1, <2>4, <3>1, <3>2 DEF Timely, UniqueEvent, Applies, k
  <2>5. CASE k.call # "CreateCampaignAtomic" /\ k.campaign = c
    <3>1. k.row.revision - 1 \in events[c]
      BY <2>1, <2>5 DEF Timely
    <3>2. /\ k.row.revision - 1 \in 1 .. m.row.revision
          /\ k.row.revision - 1 # m.row.revision
      BY <1>2, <3>1
    <3>3. k.row.revision \in 1 .. m.row.revision
      BY <1>3, <2>2, <3>2
    <3> QED
      BY <1>4, <2>1, <2>5, <3>2, <3>3 DEF Timely, UniqueEvent, k
  <2> QED
    BY <2>3, <2>4, <2>5
<1>9. NoDoubleBooking'
  <2>1. ASSUME NEW d \in Campaign, d # c, Exists(d), campaigns[d].state # "CANCELLED",
               Shares(m.row.booking, campaigns[d].booking)
        PROVE  ~Overlaps(m.row.booking, campaigns[d].booking)
    BY <1>1, <2>1, NoConflictAdmitted DEF m, c
  <2> SUFFICES ASSUME NEW a \in Campaign, NEW b \in Campaign, a # b,
                      Exists(a)', campaigns'[a].state # "CANCELLED",
                      Exists(b)', campaigns'[b].state # "CANCELLED",
                      Shares(campaigns'[a].booking, campaigns'[b].booking)
               PROVE  ~Overlaps(campaigns'[a].booking, campaigns'[b].booking)
    BY DEF NoDoubleBooking
  <2>2. CASE a = c
    BY <1>4, <2>1, <2>2 DEF Exists
  <2>3. CASE b = c
    <3>1. Shares(m.row.booking, campaigns[a].booking)
      BY <1>4, <2>3, Symmetric
    <3>2. ~Overlaps(m.row.booking, campaigns[a].booking)
      BY <1>4, <2>1, <2>3, <3>1 DEF Exists
    <3> QED
      BY <1>4, <2>3, <3>2, Symmetric
  <2>4. CASE a # c /\ b # c
    BY <1>4, <2>4 DEF IInv, NoDoubleBooking, Exists
  <2> QED
    BY <2>2, <2>3, <2>4
<1>10. FingerprintsAgree'
  <2>1. \A d \in Campaign \ {c} :
          \A q \in EffectiveOf(tables[d]), r \in EffectiveOf(tables'[c]) :
            q.digest = r.digest => Fingerprint(q) = Fingerprint(r)
    BY <1>1, <1>2, <1>3, <1>4
       DEF Admits, FingerprintAgrees, IInv, FingerprintsAgree, EffectiveReferences, m, c
  <2>2. \A q, r \in EffectiveOf(tables'[c]) : q.digest = r.digest => q = r
    BY <1>2, <1>4 DEF Sound, DistinctDigests, EffectiveOf
  <2>3. \A d \in Campaign \ {c} : EffectiveOf(tables'[d]) = EffectiveOf(tables[d])
    BY <1>4
  <2>4. \A d, e \in Campaign \ {c} :
          \A q \in EffectiveOf(tables[d]), r \in EffectiveOf(tables[e]) :
            q.digest = r.digest => Fingerprint(q) = Fingerprint(r)
    BY DEF IInv, FingerprintsAgree, EffectiveReferences
  <2> SUFFICES ASSUME NEW d \in Campaign, NEW e \in Campaign,
                      NEW q \in EffectiveOf(tables'[d]), NEW r \in EffectiveOf(tables'[e]),
                      q.digest = r.digest
               PROVE  Fingerprint(q) = Fingerprint(r)
    BY DEF FingerprintsAgree, EffectiveReferences, EffectiveOf
  <2> QED
    BY <2>1, <2>2, <2>3, <2>4
<1>11. SuccessorOfArchived'
  <2> SUFFICES ASSUME NEW d \in Campaign, Exists(d)'
               PROVE  Inherits(campaigns'[d], campaigns')
    BY DEF SuccessorOfArchived
  <2>1. /\ campaigns'[d] \in Row
        /\ campaigns'[d].predecessor \in Campaign \cup {Nil}
    BY <1>5 DEF TypeOK, Exists, Row
  <2>2. CASE d # c
    <3>1. Inherits(campaigns[d], campaigns)
      BY <1>4, <2>2 DEF IInv, SuccessorOfArchived, Exists
    <3> QED
      BY <1>0, <1>4, <2>1, <2>2, <3>1
  <2>3. CASE d = c /\ m.call = "CreateCampaignAtomic"
    BY <1>0, <1>2, <1>4, <2>1, <2>3
  <2>4. CASE d = c /\ m.call = "Commit"
    <3>1. Inherits(campaigns[c], campaigns) /\ Exists(c)
      BY <1>2, <2>4 DEF IInv, SuccessorOfArchived
    <3>2. /\ m.row.booking = campaigns[c].booking
          /\ m.row.predecessor = campaigns[c].predecessor
      BY <1>2, <2>4 DEF Applies, c
    <3>3. Inherits(m.row, campaigns)
      BY <3>1, <3>2 DEF Inherits
    <3> QED
      BY <1>0, <1>4, <2>1, <2>4, <3>3
  <2>5. CASE d = c /\ m.call = "CommitAmendment"
    <3>1. m.row.predecessor = Nil
      BY <1>2, <2>5 DEF Applies
    <3> QED
      BY <1>4, <2>5, <3>1 DEF Inherits
  <2> QED
    BY <1>2, <2>2, <2>3, <2>4, <2>5 DEF Mutation
<1> QED
  BY <1>5, <1>6, <1>7, <1>8, <1>9, <1>10, <1>11 DEF IInv
-----------------------------------------------------------------------------
(* The invariant *)

\* Nothing is stored and nothing in hand at first.
LEMMA Initially == Init => IInv
<1> SUFFICES ASSUME Init PROVE IInv
  OBVIOUS
<1>1. TypeOK
  BY Adding DEF Init, TypeOK
<1>2. Numbered /\ InHand /\ NoDoubleBooking /\ SuccessorOfArchived
  BY DEF Init, Numbered, InHand, NoDoubleBooking, SuccessorOfArchived, Exists
<1>3. Consistent
  BY DEF Init, Consistent, Exists, Sound, DistinctDigests, Empty
<1>4. FingerprintsAgree
  BY DEF Init, FingerprintsAgree, EffectiveReferences, EffectiveOf, Empty
<1> QED
  BY <1>1, <1>2, <1>3, <1>4 DEF IInv

\* A step that takes mutations out of hand or does nothing.
LEMMA IdleStep ==
  ASSUME IInv, UNCHANGED <<campaigns, tables, events>>,
         \/ UNCHANGED pending
         \/ \E h \in Handler : pending' = [pending EXCEPT ![h] = Nil]
  PROVE  IInv'
<1>1. \A g \in Handler : pending'[g] # Nil => pending'[g] = pending[g]
  BY DEF IInv, TypeOK
<1>2. TypeOK'
  BY DEF IInv, TypeOK
<1>3. Numbered' /\ Consistent' /\ NoDoubleBooking' /\ FingerprintsAgree' /\ SuccessorOfArchived'
  BY DEF IInv, Numbered, Consistent, NoDoubleBooking, FingerprintsAgree, SuccessorOfArchived,
         Exists, EffectiveReferences
<1>4. InHand'
  BY <1>1 DEF IInv, InHand, Timely, Applies, UniqueEvent
<1> QED
  BY <1>2, <1>3, <1>4 DEF IInv

\* Every step keeps the invariant.
LEMMA Stepwise == IInv /\ [Next]_vars => IInv'
<1> SUFFICES ASSUME IInv, [Next]_vars PROVE IInv'
  OBVIOUS
<1>1. ASSUME NEW h \in Handler, NEW c \in Campaign,
             Opening(h, c) \/ Referencing(h, c) \/ Closing(h, c)
      PROVE  IInv'
  BY <1>1, OpeningStep, ReferencingStep, ClosingStep
<1>2. ASSUME NEW h \in Handler, Commit(h)
      PROVE  IInv'
  BY <1>2, CommitStep
<1>3. ASSUME NEW h \in Handler, Rollback(h)
      PROVE  IInv'
  BY <1>3, IdleStep DEF Rollback
<1>4. CASE UNCHANGED vars
  BY <1>4, IdleStep DEF vars
<1> QED
  BY <1>1, <1>2, <1>3, <1>4 DEF Next

\* What handlers have in hand applies, and what is stored is consistent.
THEOREM Invariance == Spec => []IInv
<1> QED
  BY Initially, Stepwise, PTL DEF Spec

\* Rows, tables, events and mutations keep their types.
THEOREM TypeCorrect == Spec => []TypeOK
<1>1. IInv => TypeOK
  BY DEF IInv
<1> QED
  BY <1>1, Invariance, PTL

\* Creation and amendment: no station and no device is booked twice at once.
THEOREM BookedOnce == Spec => []NoDoubleBooking
<1>1. IInv => NoDoubleBooking
  BY DEF IInv
<1> QED
  BY <1>1, Invariance, PTL

\* Every command up to the archive: whoever is past DRAFT is covered.
THEOREM Covered == Spec => []VerifiedIsCovered
<1>1. IInv => VerifiedIsCovered
  BY DEF IInv, VerifiedIsCovered, Consistent, Agree, Advanced, InState, EffectiveReferences
<1> QED
  BY <1>1, Invariance, PTL

\* The transaction's look at other campaigns' certificates.
THEOREM Fingerprints == Spec => []FingerprintsAgree
<1>1. IInv => FingerprintsAgree
  BY DEF IInv
<1> QED
  BY <1>1, Invariance, PTL

\* CreateSuccessor, AmendCampaign: what a successor inherits it keeps, or it
\* is no successor any more.
THEOREM Succession == Spec => []SuccessorOfArchived
<1>1. IInv => SuccessorOfArchived
  BY DEF IInv
<1> QED
  BY <1>1, Invariance, PTL

\* What a commit does to the campaign it is for.
LEMMA CommitEffect ==
  ASSUME IInv, NEW h \in Handler, Commit(h), NEW c \in Campaign
  PROVE  \/ campaigns'[c] = campaigns[c] /\ tables'[c] = tables[c]
         \/ /\ c = pending[h].campaign
            /\ tables'[c] = Added(tables[c], pending[h].adds)
            /\ pending[h].call = "CreateCampaignAtomic" => ~Exists(c) /\ pending[h].adds = Empty
            /\ pending[h].call # "CreateCampaignAtomic" => Applies(pending[h])
<1>1. CASE c = pending[h].campaign
  BY <1>1, AdmittedApplies DEF Commit, IInv, TypeOK
<1>2. CASE c # pending[h].campaign
  BY <1>2 DEF Commit, IInv, TypeOK
<1> QED
  BY <1>1, <1>2

\* Only commits change a campaign.
LEMMA OnlyCommits ==
  ASSUME [Next]_vars, ~\E h \in Handler : Commit(h)
  PROVE  UNCHANGED <<campaigns, tables>>
<1>1. ASSUME NEW h \in Handler, NEW c \in Campaign, Opening(h, c)
      PROVE  UNCHANGED <<campaigns, tables>>
  BY <1>1 DEF Opening, Create, CreateSuccessor, AmendCampaign, Prepare
<1>2. ASSUME NEW h \in Handler, NEW c \in Campaign, Referencing(h, c)
      PROVE  UNCHANGED <<campaigns, tables>>
  BY <1>2 DEF Referencing, RegisterDeviceBaselines, ReferenceDetailed,
              ConfirmReferenceBatch, AddReferences, WithdrawReference, CorrectReference, Prepare
<1>3. ASSUME NEW h \in Handler, NEW c \in Campaign, Closing(h, c)
      PROVE  UNCHANGED <<campaigns, tables>>
  BY <1>3 DEF Closing, Measure, Archive, CancelCampaign, Prepare
<1> QED
  BY <1>1, <1>2, <1>3 DEF Next, Rollback, vars

\* RegisterDeviceBaselines: not once there is evidence.
THEOREM BaselinesComeFirst == Spec => BaselinesFirst
<1>1. ASSUME IInv, [Next]_vars, NEW c \in Campaign,
             tables'[c].baselines # tables[c].baselines
      PROVE  tables'[c].references = {}
  <2>1. PICK h \in Handler : Commit(h)
    BY <1>1, OnlyCommits
  <2>2. /\ c = pending[h].campaign
        /\ tables'[c] = Added(tables[c], pending[h].adds)
        /\ pending[h].call = "CreateCampaignAtomic" => pending[h].adds = Empty
        /\ pending[h].call # "CreateCampaignAtomic" => Applies(pending[h])
    BY <1>1, <2>1, CommitEffect
  <2>3. pending[h].adds.baselines # {}
    BY <1>1, <2>2 DEF Added
  <2>4. pending[h].call # "CreateCampaignAtomic"
    BY <2>2, <2>3 DEF Empty
  <2> QED
    BY <2>2, <2>3, <2>4 DEF Applies
<1>2. IInv /\ [Next]_vars =>
        [\A c \in Campaign : tables'[c].baselines # tables[c].baselines =>
           tables'[c].references = {}]_vars
  BY <1>1
<1> QED
  BY <1>2, Invariance, PTL DEF Spec, BaselinesFirst

\* Archive and CancelCampaign: nothing follows them.
THEOREM ClosedForGood == Spec => ClosedIsFinal
<1>1. ASSUME IInv, [Next]_vars, NEW c \in Campaign, InState(c, {"ARCHIVED", "CANCELLED"})
      PROVE  campaigns'[c] = campaigns[c] /\ tables'[c] = tables[c]
  <2>1. CASE \E h \in Handler : Commit(h)
    BY <1>1, <2>1, CommitEffect DEF Applies, Closed, InState
  <2>2. CASE ~\E h \in Handler : Commit(h)
    BY <1>1, <2>2, OnlyCommits
  <2> QED
    BY <2>1, <2>2
<1>2. IInv /\ [Next]_vars =>
        [\A c \in Campaign : InState(c, {"ARCHIVED", "CANCELLED"}) =>
           campaigns'[c] = campaigns[c] /\ tables'[c] = tables[c]]_vars
  BY <1>1
<1> QED
  BY <1>2, Invariance, PTL DEF Spec, ClosedIsFinal
-----------------------------------------------------------------------------
(* The calendar *)

\* Bookings with a slot in common share a resource and overlap.
LEMMA CommonSlot ==
  ASSUME NEW a \in Booking, NEW b \in Booking, Slots(a) \cap Slots(b) # {}
  PROVE  Shares(a, b) /\ Overlaps(a, b)
<1>1. PICK s : s \in Slots(a) /\ s \in Slots(b)
  OBVIOUS
<1>2. s[1] \in {<<"station", a.station>>} \cup {<<"device", d>> : d \in a.devices}
      /\ s[2] \in a.start .. a.end - 1
  BY <1>1 DEF Slots
<1>3. s[1] \in {<<"station", b.station>>} \cup {<<"device", d>> : d \in b.devices}
      /\ s[2] \in b.start .. b.end - 1
  BY <1>1 DEF Slots
<1>4. Overlaps(a, b)
  BY <1>2, <1>3 DEF Overlaps, Booking
<1>5. Shares(a, b)
  <2>1. CASE s[1] = <<"station", a.station>>
    <3>1. s[1] # <<"device", s[1][2]>>
      BY <2>1
    <3>2. s[1] = <<"station", b.station>>
      BY <1>3, <2>1, <3>1
    <3> QED
      BY <2>1, <3>2 DEF Shares
  <2>2. CASE s[1] \in {<<"device", d>> : d \in a.devices}
    <3>1. s[1][2] \in a.devices /\ s[1] = <<"device", s[1][2]>>
      BY <2>2
    <3>2. s[1][2] \in b.devices
      BY <1>3, <3>1
    <3> QED
      BY <3>1, <3>2 DEF Shares
  <2> QED
    BY <1>2, <2>1, <2>2
<1> QED
  BY <1>4, <1>5

\* A booking occupies something.
LEMMA SomeSlot ==
  ASSUME NEW b \in Booking
  PROVE  Slots(b) # {}
<1>1. b.start \in b.start .. b.end - 1
  BY DEF Booking
<1>2. <<<<"station", b.station>>, b.start>> \in Slots(b)
  BY <1>1 DEF Slots
<1> QED
  BY <1>2

\* A commit is one operation of the calendar, or none.
LEMMA CalendarStep ==
  ASSUME IInv, IInv', NEW h \in Handler, Commit(h)
  PROVE  Booked!Next \/ UNCHANGED <<Held, Used>>
<1> DEFINE m == pending[h]
           c == m.campaign
<1>1. /\ m # Nil /\ Admits(m)
      /\ campaigns' = [campaigns EXCEPT ![c] = m.row]
      /\ tables' = [tables EXCEPT ![c] = Added(@, m.adds)]
  BY DEF Commit
<1>2. /\ m \in Mutation /\ c \in Campaign /\ m.row \in Row /\ m.adds \in Tables
      /\ Agree(m.row, Added(tables[c], m.adds))
      /\ m.call = "CreateCampaignAtomic" =>
           ~Exists(c) /\ m.adds = Empty /\ m.row.state = "DRAFT" /\ m.row.booking \in Asked
      /\ m.call # "CreateCampaignAtomic" => Exists(c) /\ Applies(m)
  BY <1>1, AdmittedApplies
<1>3. /\ campaigns'[c] = m.row /\ tables'[c] = Added(tables[c], m.adds)
      /\ \A d \in Campaign \ {c} : campaigns'[d] = campaigns[d] /\ tables'[d] = tables[d]
      /\ m.row # Nil
      /\ campaigns \in [Campaign -> Row \cup {Nil}] /\ tables \in [Campaign -> Tables]
      /\ m.row.booking \in Booking /\ m.row.state \in States
  BY <1>1, <1>2, NilAssumption DEF IInv, TypeOK, Row
<1>4. ASSUME NEW d \in Campaign \ {c}
      PROVE  Held[d] \cap Slots(m.row.booking) = {}
  <2> SUFFICES ASSUME InState(d, States \ {"CANCELLED"}),
                      Slots(m.row.booking) \cap Slots(campaigns[d].booking) # {}
               PROVE  FALSE
    BY DEF Held
  <2>1. campaigns[d] \in Row /\ campaigns[d].booking \in Booking
    BY <1>3 DEF InState, Exists, Row
  <2>2. /\ Shares(m.row.booking, campaigns[d].booking)
        /\ Overlaps(m.row.booking, campaigns[d].booking)
    BY <1>3, <2>1, CommonSlot
  <2> QED
    BY <1>1, <2>2, NoConflictAdmitted DEF InState
<1> HIDE DEF m, c
<1>5. Held' = [Held EXCEPT ![c] = IF m.row.state # "CANCELLED"
                                   THEN Slots(m.row.booking) ELSE {}]
  <2>1. Held'[c] = IF m.row.state # "CANCELLED" THEN Slots(m.row.booking) ELSE {}
    BY <1>2, <1>3 DEF Held, InState, Exists
  <2>2. \A d \in Campaign \ {c} : Held'[d] = Held[d]
    BY <1>3 DEF Held, InState, Exists
  <2> QED
    BY <1>2, <2>1, <2>2 DEF Held
<1>6. Used' = IF Added(tables[c], m.adds).measured THEN Used \cup {c} ELSE Used
  <2>1. Added(tables[c], m.adds).measured <=> tables[c].measured \/ m.adds.measured
    BY DEF Added
  <2> QED
    BY <1>2, <1>3, <2>1 DEF Used
<1>7. CASE m.row.state = "DRAFT" /\ m.row.booking \in Asked
  <2>1. ~Added(tables[c], m.adds).measured
    BY <1>2, <1>7 DEF Agree
  <2>2. Used' = Used /\ c \notin Used
    BY <1>6, <2>1 DEF Used, Added
  <2>3. Booked!Book(c, Slots(m.row.booking))
    BY <1>4, <1>5, <1>7, <2>2 DEF Booked!Book, Booked!Free
  <2> QED
    BY <1>2, <1>7, <2>3 DEF Booked!Next
<1>8. CASE m.call = "Commit" /\ m.row.state = "CANCELLED"
  <2>1. Used' = Used /\ c \notin Used
    BY <1>2, <1>6, <1>8 DEF Agree, Used, Added
  <2>2. Booked!Release(c)
    BY <1>5, <1>8, <2>1 DEF Booked!Release
  <2> QED
    BY <1>2, <2>2 DEF Booked!Next
<1>9. CASE m.call = "Commit" /\ m.row.state # "CANCELLED"
  <2>1. /\ m.row.booking = campaigns[c].booking /\ campaigns[c].state \notin Closed
        /\ Exists(c)
    BY <1>2, <1>9 DEF Applies, c
  <2>2. Held[c] = Slots(m.row.booking)
    <3>1. campaigns[c].state \in States
      BY <1>2, <1>3, <2>1 DEF Exists, Row
    <3> QED
      BY <1>2, <2>1, <3>1 DEF Held, InState, Closed
  <2>3. Held' = Held
    BY <1>2, <1>5, <1>9, <2>2 DEF Held
  <2>4. CASE Used' = Used \cup {c}
    <3>1. Booked!Use(c)
      BY <1>3, <2>2, <2>3, <2>4, SomeSlot DEF Booked!Use
    <3> QED
      BY <1>2, <3>1 DEF Booked!Next
  <2> QED
    BY <1>6, <2>3, <2>4
<1> QED
  <2>1. m.call # "Commit" => m.row.state = "DRAFT" /\ m.row.booking \in Asked
    BY <1>2 DEF Applies
  <2> QED
    BY <1>7, <1>8, <1>9, <2>1

\* Every command, from the creation to the archive: reading, deciding and
\* committing later books what the calendar books at once.
THEOREM Refinement == Spec => ImplementsCalendar
<1>1. Init => Booked!Init
  BY DEF Init, Booked!Init, Held, Used, InState, Exists, Empty
<1>2. IInv /\ IInv' /\ [Next]_vars => [Booked!Next]_<<Held, Used>>
  <2> SUFFICES ASSUME IInv, IInv', [Next]_vars
               PROVE  Booked!Next \/ UNCHANGED <<Held, Used>>
    OBVIOUS
  <2>1. CASE \E h \in Handler : Commit(h)
    BY <2>1, CalendarStep
  <2>2. CASE ~\E h \in Handler : Commit(h)
    <3>1. UNCHANGED <<campaigns, tables>>
      BY <2>2, OnlyCommits
    <3> QED
      BY <3>1 DEF Held, Used, InState, Exists
  <2> QED
    BY <2>1, <2>2
<1> QED
  BY <1>1, <1>2, Invariance, PTL DEF Spec, ImplementsCalendar, Booked!Spec
-----------------------------------------------------------------------------
(* What follows for a campaign *)

\* No slot is held by two campaigns, and what a campaign has measured in it
\* holds for good.
ExclusiveSlots == \A c, d \in Campaign : c # d => Held[c] \cap Held[d] = {}
UsedStaysHeld == [][\A c \in Used : c \in Used' /\ Held'[c] = Held[c]]_<<Held, Used>>

\* The calendar gives no slot away twice.
LEMMA CalendarExclusive == Booked!Spec => []ExclusiveSlots
<1>1. Held = [c \in Campaign |-> Held[c]]
  BY DEF Held
<1>2. Booked!Init => ExclusiveSlots
  BY DEF Booked!Init, ExclusiveSlots
<1>3. ExclusiveSlots /\ [Booked!Next]_<<Held, Used>> => ExclusiveSlots'
  <2> SUFFICES ASSUME ExclusiveSlots, Booked!Next PROVE ExclusiveSlots'
    BY DEF ExclusiveSlots
  <2>1. PICK c \in Campaign :
          \/ \E slots \in {Slots(b) : b \in Asked} : Booked!Book(c, slots)
          \/ Booked!Release(c)
          \/ Booked!Use(c)
    BY DEF Booked!Next
  <2>2. ASSUME NEW slots, \A d \in Campaign \ {c} : Held[d] \cap slots = {},
               Held' = [Held EXCEPT ![c] = slots]
        PROVE  ExclusiveSlots'
    <3>1. \A d \in Campaign : Held'[d] = IF d = c THEN slots ELSE Held[d]
      BY <1>1, <2>2
    <3> QED
      BY <2>2, <3>1 DEF ExclusiveSlots
  <2>3. CASE \E slots \in {Slots(b) : b \in Asked} : Booked!Book(c, slots)
    BY <2>2, <2>3 DEF Booked!Book, Booked!Free
  <2>4. CASE Booked!Release(c)
    BY <2>2, <2>4 DEF Booked!Release
  <2>5. CASE Booked!Use(c)
    BY <2>5 DEF Booked!Use, ExclusiveSlots
  <2> QED
    BY <2>1, <2>3, <2>4, <2>5
<1> QED
  BY <1>2, <1>3, PTL DEF Booked!Spec

\* The transactions that check windows, seen as slots: no station and no
\* device is held by two campaigns at one moment, whatever is in hand.
THEOREM SlotsExclusive == Spec => []ExclusiveSlots
BY Refinement, CalendarExclusive, PTL DEF ImplementsCalendar

\* MeasureIdem, AmendCampaign, CancelCampaign: from the first stored round on
\* a campaign's slots are neither exchanged nor given back, although the
\* amendment or the cancellation may have been decided before that round.
THEOREM SlotsUsedForGood == Spec => UsedStaysHeld
<1>1. [Booked!Next]_<<Held, Used>> =>
        [\A c \in Used : c \in Used' /\ Held'[c] = Held[c]]_<<Held, Used>>
  <2> SUFFICES ASSUME Booked!Next, NEW c \in Used
               PROVE  c \in Used' /\ Held'[c] = Held[c]
    OBVIOUS
  <2>1. Held = [d \in Campaign |-> Held[d]] /\ c \in Campaign
    BY DEF Held, Used
  <2> QED
    BY <2>1 DEF Booked!Next, Booked!Book, Booked!Release, Booked!Use
<1>2. Booked!Spec => UsedStaysHeld
  BY <1>1, PTL DEF Booked!Spec, UsedStaysHeld
<1> QED
  BY <1>2, Refinement, PTL DEF ImplementsCalendar

\* Nothing about a campaign changes but with the audit event of the revision
\* after the stored one, and the events are numbered from 1 without a gap.
OneCommitOneRevision ==
  [][\A c \in Campaign :
       campaigns'[c] # campaigns[c] \/ tables'[c] # tables[c] \/ events'[c] # events[c] =>
         /\ campaigns'[c].revision = IF Exists(c) THEN campaigns[c].revision + 1 ELSE 1
         /\ events'[c] = 1 .. campaigns'[c].revision]_vars

\* Creation, amendment and Store.Commit: of the mutations that were decided on
\* one revision at most one goes through, so no update of another is lost.
THEOREM NoLostUpdate == Spec => OneCommitOneRevision
<1>1. ASSUME IInv, [Next]_vars, NEW c \in Campaign,
             campaigns'[c] # campaigns[c] \/ tables'[c] # tables[c] \/ events'[c] # events[c]
      PROVE  /\ campaigns'[c].revision = IF Exists(c) THEN campaigns[c].revision + 1 ELSE 1
             /\ events'[c] = 1 .. campaigns'[c].revision
  <2>1. PICK h \in Handler : Commit(h)
    <3>1. ASSUME NEW h \in Handler, NEW d \in Campaign, Opening(h, d) PROVE events' = events
      BY <3>1 DEF Opening, Create, CreateSuccessor, AmendCampaign, Prepare
    <3>2. ASSUME NEW h \in Handler, NEW d \in Campaign, Referencing(h, d) PROVE events' = events
      BY <3>2 DEF Referencing, RegisterDeviceBaselines, ReferenceDetailed,
                  ConfirmReferenceBatch, AddReferences, WithdrawReference, CorrectReference, Prepare
    <3>3. ASSUME NEW h \in Handler, NEW d \in Campaign, Closing(h, d) PROVE events' = events
      BY <3>3 DEF Closing, Measure, Archive, CancelCampaign, Prepare
    <3> QED
      BY <1>1, <3>1, <3>2, <3>3, OnlyCommits DEF Next, Rollback, vars
  <2> DEFINE m == pending[h]
             n == m.row.revision
  <2>2. /\ m # Nil /\ Admits(m)
        /\ campaigns' = [campaigns EXCEPT ![m.campaign] = m.row]
        /\ tables' = [tables EXCEPT ![m.campaign] = Added(@, m.adds)]
        /\ events' = [events EXCEPT ![m.campaign] = @ \cup {n}]
    BY <2>1 DEF Commit
  <2>3. /\ campaigns \in [Campaign -> Row \cup {Nil}] /\ tables \in [Campaign -> Tables]
        /\ events \in [Campaign -> SUBSET Nat]
    BY <1>1 DEF IInv, TypeOK
  <2>4. c = m.campaign
    BY <1>1, <2>2, <2>3
  <2>5. campaigns'[c] = m.row /\ events'[c] = events[c] \cup {n}
    BY <2>2, <2>3, <2>4
  <2>6. /\ events[c] \cup {n} = 1 .. n /\ n \notin events[c] /\ n \in Nat \ {0}
    BY <1>1, <2>2, <2>4, AdmittedApplies DEF Row
  <2>7. CASE Exists(c)
    <3> DEFINE k == campaigns[c].revision
    <3>1. events[c] = 1 .. k /\ k \in Nat \ {0}
      BY <1>1, <2>3, <2>7 DEF IInv, Numbered, Exists, Row
    <3>2. ASSUME NEW i \in Nat \ {0}, NEW j \in Nat \ {0}, (1 .. i) \cup {j} = 1 .. j,
                 j \notin 1 .. i
          PROVE  j = i + 1
      <4>1. i + 1 \in 1 .. j
        BY <3>2
      <4>2. i + 1 \notin 1 .. i
        BY <3>2
      <4> QED
        BY <3>2, <4>1, <4>2
    <3> HIDE DEF m, n, k
    <3>3. n = k + 1
      BY <2>6, <3>1, <3>2
    <3> QED
      BY <2>5, <2>6, <2>7, <3>3 DEF n, k
  <2>8. CASE ~Exists(c)
    <3>1. events[c] = {}
      BY <1>1, <2>8 DEF IInv, Numbered
    <3>2. ASSUME NEW j \in Nat \ {0}, {j} = 1 .. j PROVE j = 1
      <4>1. 1 \in 1 .. j
        BY <3>2
      <4> QED
        BY <3>2, <4>1
    <3> HIDE DEF m, n
    <3>3. n = 1
      BY <2>6, <3>1, <3>2
    <3> QED
      BY <2>5, <2>6, <2>8, <3>3 DEF n
  <2> QED
    BY <2>7, <2>8
<1>2. IInv /\ [Next]_vars =>
        [\A c \in Campaign :
           campaigns'[c] # campaigns[c] \/ tables'[c] # tables[c] \/ events'[c] # events[c] =>
             /\ campaigns'[c].revision = IF Exists(c) THEN campaigns[c].revision + 1 ELSE 1
             /\ events'[c] = 1 .. campaigns'[c].revision]_vars
  BY <1>1
<1> QED
  BY <1>2, Invariance, PTL DEF Spec, OneCommitOneRevision
=============================================================================
