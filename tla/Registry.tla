------------------------------ MODULE Registry ------------------------------
(***************************************************************************)
(* What the service computes from the stored campaigns without changing    *)
(* them: free windows (resource-availability), gaps in the reference       *)
(* evidence, what would close them (reference-preflight) and what would    *)
(* open more (reference-resilience), the qualification of a station's      *)
(* devices (qualification-checks), and the succession of campaigns         *)
(* (qualification-lineage).                                                *)
(*                                                                         *)
(* The algorithms are the code's: sort and merge, sweep, cut points, walk. *)
(* The properties compare them with what they are meant to find, in every  *)
(* registry that the commands of Campaigns can produce.  Each query reads  *)
(* the campaigns in one statement.                                         *)
(*                                                                         *)
(* Left out: the order in which results are listed, the details of         *)
(* conflicts, and the seals of archived campaigns, which CampaignCommit    *)
(* shows to hold.                                                          *)
(***************************************************************************)
EXTENDS Campaigns, Integers, SequencesExt

CONSTANTS Questions,   \* the bookings clients ask about
          Candidates   \* the evidence they ask about

ASSUME RegistryAssumption ==
  /\ Questions \subseteq Booking
  /\ Candidates \subseteq Reference
  /\ IsFiniteSet(Offered) /\ IsFiniteSet(Candidates)
-----------------------------------------------------------------------------
(* Spans of time *)

Points(span) == span.start .. span.end - 1

\* In the order of their starts; in what order are those that start together
\* makes no difference.
ByStart(spans) ==
  CHOOSE s \in SetToSeqs(spans) : \A i, j \in DOMAIN s : i < j => s[i].start <= s[j].start

\* The part of reference r that lies in the window of booking b.
Clipped(r, b) ==
  [start |-> IF r.from < b.start THEN b.start ELSE r.from,
   end |-> IF b.end < r.until THEN b.end ELSE r.until]

\* The references of a kind that matter for the window of b.
Relevant(refs, b, kind) ==
  {r \in refs : r.kind = kind /\ b.start < r.until /\ r.from < b.end}
-----------------------------------------------------------------------------
(* Free windows *)

\* Spans are merged where they overlap or touch.
MergedOverlapping(merged, span) ==   \* Mutant: a span inside the last one shortens it.
  IF merged = <<>> \/ Last(merged).end < span.start THEN Append(merged, span)
  ELSE [merged EXCEPT ![Len(merged)].end = span.end]

Merged(merged, span) ==
  IF merged = <<>> \/ Last(merged).end < span.start THEN Append(merged, span)
  ELSE [merged EXCEPT ![Len(merged)].end = IF @ < span.end THEN span.end ELSE @]

\* relevantBusy: when a resource of b is taken.
RelevantBusy(b) ==
  LET booked == {campaigns[c].booking : c \in {d \in Campaign : InState(d, States \ {"CANCELLED"})}}
  IN  FoldLeft(Merged, <<>>,
               ByStart({[start |-> o.start, end |-> o.end] : o \in {p \in booked : Shares(b, p)}}))

\* The busy spans that a window of that duration starting at t runs into.
Hits(busy, t, duration) ==
  {i \in DOMAIN busy : t < busy[i].end /\ busy[i].start < t + duration}

Least(S) == CHOOSE i \in S : \A j \in S : i <= j
Greatest(S) == CHOOSE i \in S : \A j \in S : j <= i

\* The loop over the busy spans, begun anew after each move to the end of one.
NextStart(busy, start, duration) ==
  LET next[t \in Int] ==
        LET hits == Hits(busy, t, duration)
        IN  IF hits = {} THEN t ELSE next[busy[Least(hits)].end]
  IN  next[start]

\* The loop downwards: the previous window ends at the start asked for, or
\* where a busy span begins.
PreviousStart(busy, start, duration) ==
  LET previous[t \in Int] ==
        LET hits == Hits(busy, t, duration)
        IN  IF hits = {} THEN t ELSE previous[busy[Greatest(hits)].start - duration]
  IN  previous[start - duration]

\* EvaluateResourceAvailability, for a campaign that does not exist yet.
EvaluateResourceAvailability(b) ==
  LET duration == b.end - b.start
      busy == RelevantBusy(b)
  IN  [available |-> \A c \in Campaign :
                       InState(c, States \ {"CANCELLED"}) =>
                         ~(Overlaps(b, campaigns[c].booking) /\ Shares(b, campaigns[c].booking)),
       previous |-> PreviousStart(busy, b.start, duration),
       next |-> NextStart(busy, b.start, duration)]
-----------------------------------------------------------------------------
(* Gaps in the evidence *)

\* coverageGaps, one span at a time: what lies between cursor and span is a gap.
SweepBack(sweep, span) ==   \* Mutant: the cursor goes to the end of each span.
  [gaps |-> IF sweep.cursor < span.start
            THEN sweep.gaps \cup {[start |-> sweep.cursor, end |-> span.start]} ELSE sweep.gaps,
   cursor |-> span.end]
Sweep(sweep, span) ==
  [gaps |-> IF sweep.cursor < span.start
            THEN sweep.gaps \cup {[start |-> sweep.cursor, end |-> span.start]} ELSE sweep.gaps,
   cursor |-> IF sweep.cursor < span.end THEN span.end ELSE sweep.cursor]

CoverageGaps(refs, b, kind) ==
  LET spans == {Clipped(r, b) : r \in Relevant(refs, b, kind)}
      swept == FoldLeft(Sweep, [gaps |-> {}, cursor |-> b.start], ByStart(spans))
  IN  IF swept.cursor < b.end
      THEN swept.gaps \cup {[start |-> swept.cursor, end |-> b.end]} ELSE swept.gaps

\* The stretches of the window for which there is evidence, as the preflight
\* reports them.
Intervals(refs, b, kind) ==
  FoldLeft(Merged, <<>>, ByStart({Clipped(r, b) : r \in Relevant(refs, b, kind)}))

\* Mutant: the candidates have to cover the window by themselves.
CanVerifyAlone(c, batch) ==
  /\ NewIds(EffectiveReferences(c), batch)
  /\ NewSources(EffectiveReferences(c), batch)
  /\ \A kind \in Kinds : CoverageGaps(batch, campaigns[c].booking, kind) = {}

\* ReferencePreflight: candidates that have neither id, digest nor source in
\* common, among them or with evidence in force, and that leave no gap
\* together with that evidence.
CanVerify(c, batch) ==
  /\ NewIds(EffectiveReferences(c), batch)
  /\ NewSources(EffectiveReferences(c), batch)
  /\ \A kind \in Kinds :
       CoverageGaps(EffectiveReferences(c) \cup batch, campaigns[c].booking, kind) = {}

\* BuildReferenceResilience: the window is cut wherever evidence begins or
\* ends; a segment is a gap if none of the evidence holds for all of it.
ResilienceGaps(refs, b, kind) ==
  LET spans == {Clipped(r, b) : r \in Relevant(refs, b, kind)}
      cuts == {b.start, b.end} \cup {s.start : s \in spans} \cup {s.end : s \in spans}
      segments == {[start |-> p, end |-> Least({q \in cuts : p < q})] : p \in cuts \ {b.end}}
  IN  {g \in segments : \A s \in spans : ~(s.start <= g.start /\ g.end <= s.end)}

\* Evidence without which there would be a gap that there is not now.
CriticalByCount(refs, b) ==   \* Mutant: the gaps are counted, not compared.
  {r \in refs : \E kind \in Kinds :
     Cardinality(ResilienceGaps(refs \ {r}, b, kind)) > Cardinality(ResilienceGaps(refs, b, kind))}
Critical(refs, b) ==
  {r \in refs : \E kind \in Kinds :
     ResilienceGaps(refs \ {r}, b, kind) \ ResilienceGaps(refs, b, kind) # {}}
-----------------------------------------------------------------------------
(* Qualification *)

\* BuildQualificationCheck of an archived campaign: the conclusion about the
\* window of question q.
WindowConclusion(b, q) ==
  IF q.end <= b.start \/ b.end <= q.start THEN "OUTSIDE_WINDOW"
  ELSE IF q.start < b.start \/ b.end < q.end THEN "PARTIAL_WINDOW"
  ELSE "COVERED"

\* OverallQualified.  No deviation of an archived campaign is open (Lifecycle,
\* ArchivedIsClean), so no device of it has failed.
QualifiesAnyState(c, q) ==   \* Mutant: an open campaign qualifies, too.
  /\ Exists(c)
  /\ q.station = campaigns[c].booking.station
  /\ WindowConclusion(campaigns[c].booking, q) = "COVERED"
  /\ q.devices \subseteq campaigns[c].booking.devices
Qualifies(c, q) ==
  /\ InState(c, {"ARCHIVED"})
  /\ q.station = campaigns[c].booking.station
  /\ WindowConclusion(campaigns[c].booking, q) = "COVERED"
  /\ q.devices \subseteq campaigns[c].booking.devices
-----------------------------------------------------------------------------
(* Lineage *)

ListCampaigns == {c \in Campaign : Exists(c)}

Children(c) == {d \in ListCampaigns : campaigns[d].predecessor = c}

Issue(code, c, related) == [code |-> code, campaign |-> c, related |-> related]

\* The walk from a campaign to its first predecessor: who was seen on the way,
\* and why the walk broke off if it did.
Ancestry(c) ==
  LET walk[at \in [seen : SUBSET ListCampaigns, cursor : ListCampaigns]] ==
        LET p == campaigns[at.cursor].predecessor
            here == at.seen \cup {at.cursor}
        IN  IF at.cursor \in at.seen
            THEN [passed |-> at.seen, issues |-> {Issue("LINEAGE_CYCLE", at.cursor, Nil)}]
            ELSE IF p = Nil THEN [passed |-> here, issues |-> {}]
            ELSE IF p \notin ListCampaigns
            THEN [passed |-> here, issues |-> {Issue("LINEAGE_PREDECESSOR_MISSING", at.cursor, p)}]
            ELSE walk[[seen |-> here, cursor |-> p]]
  IN  walk[[seen |-> {}, cursor |-> c]]

DescentOfSelf(selected) ==   \* Mutant: the children only.
  selected \cup UNION {Children(d) : d \in selected}

\* The queue of all that descend from those selected.
Descent(selected) ==
  LET queue[seen \in SUBSET Campaign] ==
        LET more == seen \cup UNION {Children(d) : d \in seen}
        IN  IF more = seen THEN seen ELSE queue[more]
  IN  queue[selected]

\* QualificationLineage, of which the digest is the hash: it does not say what
\* campaign it was asked for.
QualificationLineage(c) ==
  LET ancestry == Ancestry(c)
      nodes == Descent(ancestry.passed)
      edges == {<<campaigns[d].predecessor, d>> :
                  d \in {n \in nodes : campaigns[n].predecessor \in nodes}}
      of(e) == campaigns[e[2]].booking
      before(e) == campaigns[e[1]].booking
  IN  [nodes |-> {[campaign |-> d, row |-> campaigns[d]] : d \in nodes},
       edges |-> edges,
       changes |-> {[campaign |-> e[2], added |-> of(e).devices \ before(e).devices,
                     removed |-> before(e).devices \ of(e).devices] : e \in edges},
       issues |-> ancestry.issues
         \cup {Issue("LINEAGE_BRANCH", d, Nil) : d \in {n \in nodes : Cardinality(Children(n)) > 1}}
         \cup {Issue("LINEAGE_STATION_CHANGED", e[2], e[1]) :
                 e \in {f \in edges : of(f).station # before(f).station}}
         \cup {Issue("LINEAGE_WINDOW_REVERSED", e[2], e[1]) :
                 e \in {f \in edges : of(f).start < before(f).end}}]
-----------------------------------------------------------------------------
\* The slots somebody holds.
Taken == UNION {Held[c] : c \in Campaign}

\* Booking b, begun at another time.
From(b, start) == [b EXCEPT !.start = start, !.end = start + (b.end - b.start)]

\* resource-availability says what a creation would find, and if the resources
\* are taken it names the first window from there on, and the last one that
\* ends by then, in which all of them are free for as long.
AvailabilityNearest ==
  LET taken == Taken
      Fits(b) == Slots(b) \cap taken = {}
  IN  \A b \in Questions :
        LET answer == EvaluateResourceAvailability(b)
            duration == b.end - b.start
        IN  /\ answer.available <=> Fits(b)
            /\ ~answer.available =>
                 /\ Fits(From(b, answer.next))
                 /\ \A t \in b.start .. answer.next - 1 : ~Fits(From(b, t))
                 /\ Fits(From(b, answer.previous))
                 /\ \A t \in answer.previous + 1 .. b.start - duration : ~Fits(From(b, t))

\* The sweep and the cuts, two algorithms that share no code, find gaps at the
\* very moments for which there is no evidence in force, and the merge finds
\* intervals at all others; the sweep finds each gap, the merge each interval
\* whole.
GapsExact ==
  \A c \in Campaign : Exists(c) => \A kind \in Kinds :
    LET b == campaigns[c].booking
        refs == EffectiveReferences(c)
        gaps == CoverageGaps(refs, b, kind)
        intervals == Intervals(refs, b, kind)
        open == {t \in Points(b) : ~Holds(refs, kind, t)}
    IN  /\ UNION {Points(g) : g \in gaps} = open
        /\ UNION {Points(g) : g \in ResilienceGaps(refs, b, kind)} = open
        /\ \A g \in gaps : g.start < g.end /\ \A h \in gaps : g.end # h.start
        /\ UNION {Points(intervals[i]) : i \in DOMAIN intervals} = Points(b) \ open
        /\ \A i \in 2 .. Len(intervals) : intervals[i - 1].end < intervals[i].start

\* Neither the id, nor the digest, nor the source of r is that of evidence of
\* campaign c which was replaced or withdrawn.
Unspent(c, r) ==
  \A q \in tables[c].replaced \cup tables[c].withdrawn :
    q.id # r.id /\ q.digest # r.digest /\ Fingerprint(q) # Fingerprint(r)

\* No other campaign has evidence with the id of r, or in force one with its
\* digest and another fingerprint.
UnknownElsewhere(c, r) ==
  /\ \A d \in Campaign \ {c} : \A q \in tables[d].references : q.id # r.id
  /\ CertificateSources(c, r)

\* What ConfirmReferenceBatch and its transaction ask of a batch, and that it
\* verifies the campaign.
Verifies(c, batch) ==
  /\ NewIds(tables[c].references, batch) /\ NewSources(tables[c].references, batch)
  /\ \A r \in batch : CertificateSources(c, r) /\ FingerprintAgrees(c, r)
  /\ UniqueIds(batch)
  /\ StateCovered(EffectiveReferences(c) \cup batch, campaigns[c].booking) = "REFERENCE_VERIFIED"

\* What the preflight approves verifies the campaign when it is confirmed as a
\* batch, and nothing else does.  The preflight is blind to the evidence of the
\* campaign that is not in force any more, of which neither id, digest nor
\* source may be used again, and to other campaigns, where the ids are taken
\* and the digests may have other fingerprints.
PreflightKeepsWord ==
  \A c \in Campaign : InState(c, {"DRAFT"}) =>
    \A batch \in (SUBSET Candidates) \ {{}} :
      Verifies(c, batch) <=>
        /\ CanVerify(c, batch)
        /\ \A r \in batch : Unspent(c, r) /\ UnknownElsewhere(c, r)

\* reference-resilience calls critical what alone holds at some moment of the
\* window, also next to a gap, and in a verified campaign just what it would be
\* a draft again without, were it withdrawn now.
CriticalIsNeeded ==
  \A c \in Campaign : Exists(c) =>
    LET b == campaigns[c].booking
        refs == EffectiveReferences(c)
    IN  \A r \in refs :
          /\ r \in Critical(refs, b) <=>
               \E t \in Points(b) : Holds(refs, r.kind, t) /\ ~Holds(refs \ {r}, r.kind, t)
          /\ InState(c, {"REFERENCE_VERIFIED"}) =>
               (r \in Critical(refs, b) <=> StateWithout(refs \ {r}, campaigns[c]) = "DRAFT")

\* Whatever station, devices and window are asked about, at most one campaign
\* qualifies them, and evidence of both kinds is in force for all of the window.
QualifiedOnce ==
  \A q \in Questions : \A c \in Campaign : Qualifies(c, q) =>
    /\ Covers(EffectiveReferences(c), q)
    /\ \A d \in Campaign : Qualifies(d, q) => d = c

\* All members of one line of succession get one report, hence one digest, and
\* it reports nothing but branches and windows out of order: neither the order
\* of creations nor amendments make a cycle, a loose end or a change of station.
LineageSound ==
  \A c \in Campaign : Exists(c) =>
    LET lineage == QualificationLineage(c)
    IN  /\ \A n \in lineage.nodes : QualificationLineage(n.campaign) = lineage
        /\ \A i \in lineage.issues : i.code \in {"LINEAGE_BRANCH", "LINEAGE_WINDOW_REVERSED"}
        /\ \A h \in lineage.changes : h.added = {} /\ h.removed = {}
=============================================================================
