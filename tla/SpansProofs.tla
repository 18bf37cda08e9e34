----------------------------- MODULE SpansProofs -----------------------------
(***************************************************************************)
(* The algorithms of Registry on spans of time do what they are for, for   *)
(* any references, windows and bookings: the sweep, the cuts, the merge    *)
(* and the two loops over the merged spans.                                *)
(***************************************************************************)
EXTENDS Registry, DataInduction

\* A stretch of time, and the moments within it.
Span == {p \in [start : Nat, end : Nat] : p.start < p.end}

Within(p, t) == p.start <= t /\ t < p.end

\* One of the spans has moment t in it.
Hit(spans, t) == \E p \in spans : Within(p, t)
-----------------------------------------------------------------------------
(* Sorting and folding *)

\* ByStart lists all spans in the order of their starts.
LEMMA ByStartSorts ==
  ASSUME NEW spans \in SUBSET Span, IsFiniteSet(spans)
  PROVE  \E n \in Nat :
           /\ ByStart(spans) \in [1 .. n -> spans]
           /\ \A p \in spans : \E i \in 1 .. n : ByStart(spans)[i] = p
           /\ \A i, j \in 1 .. n : i < j => ByStart(spans)[i].start <= ByStart(spans)[j].start
  <1> DEFINE n == Cardinality(spans)
             key == [p \in spans |-> p.start]
             Sorted(s) == \A i, j \in DOMAIN s : i < j => s[i].start <= s[j].start
  <1>1. n \in Nat /\ key \in [spans -> Nat]
    BY FS_CardinalityType DEF Span
  <1>2. PICK s : Enumerates(s, spans) /\ Ascending(s, n, key)
    BY <1>1, SortedExists
  <1>3. s \in SetToSeqs(spans) /\ Sorted(s)
    <2>1. s \in [1 .. n -> spans] /\ DOMAIN s = 1 .. n
      BY <1>2 DEF Enumerates
    <2>2. s \in SetToSeqs(spans)
      BY <1>2 DEF Enumerates, SetToSeqs
    <2>3. Sorted(s)
      BY <1>2, <2>1 DEF Ascending
    <2> QED
      BY <2>2, <2>3
  <1> DEFINE sorted == ByStart(spans)
  <1>4. sorted \in SetToSeqs(spans) /\ Sorted(sorted)
    BY <1>3 DEF ByStart
  <1>5. Enumerates(sorted, spans) /\ DOMAIN sorted = 1 .. n
    BY <1>4 DEF SetToSeqs, Enumerates
  <1> HIDE DEF sorted
  <1>6. sorted \in [1 .. n -> spans] /\ \A p \in spans : \E i \in 1 .. n : sorted[i] = p
    <2>1. sorted \in [1 .. n -> spans]
      BY <1>5 DEF Enumerates
    <2>2. IsFiniteSet(spans) /\ Enumerates(sorted, spans)
      BY <1>5
    <2>3. \A p \in spans : \E i \in 1 .. Cardinality(spans) : sorted[i] = p
      BY <2>2, EnumerationIsOnto
    <2> QED
      BY <2>1, <2>3
  <1>7. \A i, j \in 1 .. n : i < j => sorted[i].start <= sorted[j].start
    BY <1>4, <1>5
  <1> QED
    BY <1>1, <1>6, <1>7 DEF sorted

\* A sweep goes through the sequence from the first span to the last.
LEMMA SweepSteps ==
  ASSUME NEW n \in Nat, NEW seq \in [1 .. n -> Span],
         NEW base \in [gaps : SUBSET Span, cursor : Nat]
  PROVE  \E h : /\ h[0] = base
                /\ \A k \in 1 .. n : h[k] = Sweep(h[k - 1], seq[k])
                /\ FoldLeft(Sweep, base, seq) = h[n]
  <1> DEFINE V == [gaps : SUBSET Span, cursor : Nat]
             F == [v \in V |-> [p \in Span |-> Sweep(v, p)]]
             Body(f) == [s \in SUBSET DOMAIN seq |->
                           IF s = {} THEN base ELSE Sweep(f[s \ {Max(s)}], seq[Max(s)])]
             swept == CHOOSE f : f = Body(f)
  <1>1. F \in [V -> [Span -> V]]
    <2>1. ASSUME NEW v \in V, NEW p \in Span PROVE Sweep(v, p) \in V
      <3>1. v.cursor < p.start => [start |-> v.cursor, end |-> p.start] \in Span
        BY DEF Span
      <3>2. p.end \in Nat
        BY DEF Span
      <3> QED
        BY <3>1, <3>2 DEF Sweep
    <2> QED
      BY <2>1
  <1>2. PICK g \in [SUBSET (1 .. n) -> V] : Folds(g, F, base, n, seq)
    <2>1. base \in V /\ n \in Nat /\ seq \in [1 .. n -> Span]
      OBVIOUS
    <2> HIDE DEF F, V
    <2> QED
      BY <1>1, <2>1, FoldExists
  <1>3. g = Body(g)
    <2>1. ASSUME NEW s \in SUBSET (1 .. n), s # {}
          PROVE  F[g[s \ {Max(s)}]][seq[Max(s)]] = Sweep(g[s \ {Max(s)}], seq[Max(s)])
      <3>1. Max(s) \in 1 .. n /\ s \ {Max(s)} \in SUBSET (1 .. n)
        BY <2>1, MaxIndex
      <3>2. g[s \ {Max(s)}] \in V /\ seq[Max(s)] \in Span
        BY <3>1
      <3> QED
        BY <3>2
    <2>2. DOMAIN seq = 1 .. n
      OBVIOUS
    <2> HIDE DEF F
    <2> QED
      BY <1>2, <2>1, <2>2 DEF Folds
  <1>4. swept = Body(swept)
    BY <1>3
  <1>5. FoldLeft(Sweep, base, seq) = swept[DOMAIN seq]
    BY DEF FoldLeft, MapThenFoldSet
  <1> HIDE DEF swept, F, V
  <1> DEFINE h == [k \in 0 .. n |-> swept[1 .. k]]
  <1>6. DOMAIN seq = 1 .. n /\ h[n] = swept[1 .. n]
    OBVIOUS
  <1>7. h[0] = base
    <2>1. 1 .. 0 = {} /\ {} \in SUBSET DOMAIN seq /\ h[0] = swept[1 .. 0]
      OBVIOUS
    <2> HIDE DEF h
    <2> QED
      BY <1>4, <2>1
  <1>8. ASSUME NEW k \in 1 .. n
        PROVE  h[k] = Sweep(h[k - 1], seq[k])
    <2>1. h[k] = swept[1 .. k] /\ h[k - 1] = swept[1 .. (k - 1)]
      OBVIOUS
    <2>2. /\ 1 .. k # {} /\ (1 .. k) \in SUBSET DOMAIN seq
          /\ Max(1 .. k) = k
          /\ (1 .. k) \ {k} = 1 .. (k - 1)
      BY <1>6, Indices
    <2> HIDE DEF h
    <2> QED
      BY <1>4, <2>1, <2>2
  <1> HIDE DEF h
  <1> QED
    BY <1>5, <1>6, <1>7, <1>8

\* A merge keeps spans spans.
LEMMA MergedSpans ==
  ASSUME NEW m \in Seq(Span), NEW p \in Span
  PROVE  /\ Merged(m, p) \in Seq(Span)
         /\ m = <<>> \/ Last(m).end < p.start => Merged(m, p) = Append(m, p)
         /\ ~(m = <<>> \/ Last(m).end < p.start) =>
              /\ Len(Merged(m, p)) = Len(m) /\ Len(m) \in Nat \ {0}
              /\ \A i \in 1 .. Len(m) - 1 : Merged(m, p)[i] = m[i]
              /\ Merged(m, p)[Len(m)].start = m[Len(m)].start
              /\ Merged(m, p)[Len(m)].end = IF m[Len(m)].end < p.end THEN p.end ELSE m[Len(m)].end
  <1>1. CASE m = <<>> \/ Last(m).end < p.start
    BY <1>1 DEF Merged
  <1>2. CASE ~(m = <<>> \/ Last(m).end < p.start)
    <2>1. Len(m) \in Nat \ {0} /\ Len(m) \in 1 .. Len(m) /\ m[Len(m)] \in Span
      BY <1>2
    <2> DEFINE n == Len(m)
               longer == IF m[n].end < p.end THEN p.end ELSE m[n].end
               last == [m[n] EXCEPT !.end = longer]
    <2>2. last \in Span /\ last.start = m[n].start /\ last.end = longer
      BY <2>1 DEF Span
    <2>3. Merged(m, p) = [m EXCEPT ![n] = last]
      BY <1>2, <2>1 DEF Merged
    <2> HIDE DEF last
    <2>4. /\ DOMAIN m = 1 .. n
          /\ [m EXCEPT ![n] = last] \in Seq(Span) /\ Len([m EXCEPT ![n] = last]) = n
      BY <2>1, <2>2
    <2>5. \A i \in 1 .. n - 1 : i \in DOMAIN m /\ i # n
      <3>1. n \in Nat /\ DOMAIN m = 1 .. n
        BY <2>1, <2>4
      <3> HIDE DEF n
      <3> QED
        BY <3>1
    <2>6. Merged(m, p)[n] = last /\ \A i \in 1 .. n - 1 : Merged(m, p)[i] = m[i]
      BY <2>1, <2>3, <2>4, <2>5
    <2> QED
      BY <1>2, <2>1, <2>2, <2>3, <2>4, <2>6
  <1> QED
    BY <1>1, <1>2

\* So does a merge.
LEMMA MergedSteps ==
  ASSUME NEW n \in Nat, NEW seq \in [1 .. n -> Span],
         NEW base \in Seq(Span)
  PROVE  \E h : /\ h[0] = base
                /\ \A k \in 1 .. n : h[k] = Merged(h[k - 1], seq[k])
                /\ FoldLeft(Merged, base, seq) = h[n]
  <1> DEFINE V == Seq(Span)
             F == [v \in V |-> [p \in Span |-> Merged(v, p)]]
             Body(f) == [s \in SUBSET DOMAIN seq |->
                           IF s = {} THEN base ELSE Merged(f[s \ {Max(s)}], seq[Max(s)])]
             merged == CHOOSE f : f = Body(f)
  <1>1. F \in [V -> [Span -> V]]
    <2>1. ASSUME NEW v \in V, NEW p \in Span PROVE Merged(v, p) \in V
      BY <2>1, MergedSpans
    <2> QED
      BY <2>1
  <1>2. PICK g \in [SUBSET (1 .. n) -> V] : Folds(g, F, base, n, seq)
    <2>1. base \in V /\ n \in Nat /\ seq \in [1 .. n -> Span]
      OBVIOUS
    <2> HIDE DEF F, V
    <2> QED
      BY <1>1, <2>1, FoldExists
  <1>3. g = Body(g)
    <2>1. ASSUME NEW s \in SUBSET (1 .. n), s # {}
          PROVE  F[g[s \ {Max(s)}]][seq[Max(s)]] = Merged(g[s \ {Max(s)}], seq[Max(s)])
      <3>1. Max(s) \in 1 .. n /\ s \ {Max(s)} \in SUBSET (1 .. n)
        BY <2>1, MaxIndex
      <3>2. g[s \ {Max(s)}] \in V /\ seq[Max(s)] \in Span
        BY <3>1
      <3> QED
        BY <3>2
    <2>2. DOMAIN seq = 1 .. n
      OBVIOUS
    <2> HIDE DEF F
    <2> QED
      BY <1>2, <2>1, <2>2 DEF Folds
  <1>4. merged = Body(merged)
    BY <1>3
  <1>5. FoldLeft(Merged, base, seq) = merged[DOMAIN seq]
    BY DEF FoldLeft, MapThenFoldSet
  <1> HIDE DEF merged, F, V
  <1> DEFINE h == [k \in 0 .. n |-> merged[1 .. k]]
  <1>6. DOMAIN seq = 1 .. n /\ h[n] = merged[1 .. n]
    OBVIOUS
  <1>7. h[0] = base
    <2>1. 1 .. 0 = {} /\ {} \in SUBSET DOMAIN seq /\ h[0] = merged[1 .. 0]
      OBVIOUS
    <2> HIDE DEF h
    <2> QED
      BY <1>4, <2>1
  <1>8. ASSUME NEW k \in 1 .. n
        PROVE  h[k] = Merged(h[k - 1], seq[k])
    <2>1. h[k] = merged[1 .. k] /\ h[k - 1] = merged[1 .. (k - 1)]
      OBVIOUS
    <2>2. /\ 1 .. k # {} /\ (1 .. k) \in SUBSET DOMAIN seq
          /\ Max(1 .. k) = k
          /\ (1 .. k) \ {k} = 1 .. (k - 1)
      BY <1>6, Indices
    <2> HIDE DEF h
    <2> QED
      BY <1>4, <2>1, <2>2
  <1> HIDE DEF h
  <1> QED
    BY <1>5, <1>6, <1>7, <1>8
-----------------------------------------------------------------------------
(* The sweep *)

\* After the first k spans, the gaps have in them all moments between ws and
\* the cursor for which there is no span, and no gap ends where another one or
\* the next one begins.
SweptTo(v, ws, seq, k) ==
  /\ v \in [gaps : SUBSET Span, cursor : Nat]
  /\ ws <= v.cursor
  /\ v.cursor = ws \/ \E i \in 1 .. k : v.cursor = seq[i].end
  /\ \A i \in 1 .. k : seq[i].end <= v.cursor
  /\ \A t \in ws .. v.cursor - 1 : Hit(v.gaps, t) <=> ~\E i \in 1 .. k : Within(seq[i], t)
  /\ \A g \in v.gaps : ws <= g.start /\ g.end < v.cursor
  /\ \A g, h \in v.gaps : g.end # h.start

\* One round of the loop takes the next span in.
LEMMA SweepStep ==
  ASSUME NEW ws \in Nat, NEW n \in Nat, NEW seq \in [1 .. n -> Span],
         \A i \in 1 .. n : ws <= seq[i].start,
         \A i, j \in 1 .. n : i < j => seq[i].start <= seq[j].start,
         NEW k \in 0 .. n - 1, NEW v, SweptTo(v, ws, seq, k)
  PROVE  SweptTo(Sweep(v, seq[k + 1]), ws, seq, k + 1)
  <1> DEFINE p == seq[k + 1]
             w == Sweep(v, p)
             new == [start |-> v.cursor, end |-> p.start]
  <1>0. k \in Nat /\ k + 1 \in 1 .. n
    OBVIOUS
  <1>1. /\ p.start \in Nat /\ p.end \in Nat /\ p.start < p.end /\ ws <= p.start
        /\ \A i \in 1 .. k : i \in 1 .. n /\ seq[i] \in Span /\ seq[i].start <= p.start
    BY <1>0 DEF Span
  <1>2. /\ v.gaps \subseteq Span /\ v.cursor \in Nat /\ ws <= v.cursor
        /\ v.cursor = ws \/ \E i \in 1 .. k : v.cursor = seq[i].end
        /\ \A i \in 1 .. k : seq[i].end <= v.cursor
    BY DEF SweptTo
  <1>3. /\ w.cursor = IF v.cursor < p.end THEN p.end ELSE v.cursor
        /\ w.gaps = IF v.cursor < p.start THEN v.gaps \cup {new} ELSE v.gaps
        /\ w = [gaps |-> w.gaps, cursor |-> w.cursor]
    BY DEF Sweep
  <1>4. v.cursor < p.start => new \in Span
    BY <1>1, <1>2 DEF Span
  <1>5. new.start = v.cursor /\ new.end = p.start
    OBVIOUS
  <1> HIDE DEF w, p, new
  <1>6. w \in [gaps : SUBSET Span, cursor : Nat] /\ v.cursor <= w.cursor /\ p.end <= w.cursor
    BY <1>1, <1>2, <1>3, <1>4
  <1>7. w.cursor = ws \/ \E i \in 1 .. k + 1 : w.cursor = seq[i].end
    BY <1>0, <1>2, <1>3 DEF p
  <1>8. \A i \in 1 .. k + 1 : i \in 1 .. k \/ i = k + 1
    BY <1>0
  <1>9. \A i \in 1 .. k : i \in 1 .. k + 1
    BY <1>0
  <1>10. \A i \in 1 .. k + 1 : seq[i].end <= w.cursor
    BY <1>1, <1>2, <1>3, <1>8 DEF p, Span
  <1>11. ASSUME NEW t \in ws .. w.cursor - 1
         PROVE  Hit(w.gaps, t) <=> ~\E i \in 1 .. k + 1 : Within(seq[i], t)
    <2>1. (\E i \in 1 .. k + 1 : Within(seq[i], t))
            <=> Within(p, t) \/ \E i \in 1 .. k : Within(seq[i], t)
      BY <1>0, <1>8, <1>9 DEF p
    <2>2. Hit(w.gaps, t) <=> Hit(v.gaps, t) \/ (v.cursor < p.start /\ Within(new, t))
      BY <1>3 DEF Hit
    <2>3. CASE t < v.cursor
      <3>1. Within(p, t) => \E i \in 1 .. k : Within(seq[i], t)
        <4>1. SUFFICES ASSUME Within(p, t) PROVE \E i \in 1 .. k : Within(seq[i], t)
          OBVIOUS
        <4>2. PICK i \in 1 .. k : v.cursor = seq[i].end
          BY <1>2, <2>3
        <4>3. Within(seq[i], t)
          BY <1>1, <2>3, <4>1, <4>2 DEF Within, Span
        <4> QED
          BY <4>3
      <3>2. ~Within(new, t)
        BY <1>2, <1>5, <2>3 DEF Within
      <3>3. Hit(v.gaps, t) <=> ~\E i \in 1 .. k : Within(seq[i], t)
        BY <1>2, <2>3 DEF SweptTo
      <3> QED
        BY <2>1, <2>2, <3>1, <3>2, <3>3
    <2>4. CASE v.cursor <= t
      <3>1. ~\E i \in 1 .. k : Within(seq[i], t)
        BY <1>1, <1>2, <2>4 DEF Within, Span
      <3>2. ~Hit(v.gaps, t)
        BY <1>2, <2>4 DEF Hit, Within, SweptTo, Span
      <3>3. t < p.end
        BY <1>1, <1>2, <1>3, <2>4
      <3>4. (v.cursor < p.start /\ Within(new, t)) <=> ~Within(p, t)
        BY <1>1, <1>2, <1>5, <2>4, <3>3 DEF Within
      <3> QED
        BY <2>1, <2>2, <3>1, <3>2, <3>4
    <2> QED
      BY <1>2, <2>3, <2>4
  <1>12. \A g \in w.gaps : ws <= g.start /\ g.end < w.cursor
    <2>1. ASSUME NEW g \in w.gaps PROVE ws <= g.start /\ g.end < w.cursor
      <3>1. CASE g \in v.gaps
        <4>1. g \in Span /\ ws <= g.start /\ g.end < v.cursor
          BY <1>2, <3>1 DEF SweptTo
        <4> QED
          BY <1>2, <1>6, <4>1 DEF Span
      <3>2. CASE g = new /\ v.cursor < p.start
        BY <1>1, <1>2, <1>3, <1>5, <1>6, <3>2
      <3> QED
        BY <1>3, <3>1, <3>2
    <2> QED
      BY <2>1
  <1>13. ASSUME NEW g \in w.gaps, NEW h \in w.gaps PROVE g.end # h.start
    <2>1. ASSUME NEW x \in v.gaps
          PROVE  x \in Span /\ x.end < v.cursor
      BY <1>2, <2>1 DEF SweptTo
    <2>2. CASE g \in v.gaps /\ h \in v.gaps
      BY <2>2 DEF SweptTo
    <2>3. CASE g \in v.gaps /\ h = new
      BY <1>2, <1>5, <2>1, <2>3 DEF Span
    <2>4. CASE g = new /\ v.cursor < p.start
      <3>1. h \in v.gaps \/ h = new
        BY <1>3
      <3> QED
        BY <1>1, <1>2, <1>5, <2>1, <2>4, <3>1 DEF Span
    <2> QED
      BY <1>3, <2>2, <2>3, <2>4
  <1> QED
    BY <1>2, <1>6, <1>7, <1>10, <1>11, <1>12, <1>13 DEF SweptTo, w, p

\* The sweep of a sorted sequence.
LEMMA SweepExact ==
  ASSUME NEW ws \in Nat, NEW n \in Nat, NEW seq \in [1 .. n -> Span],
         \A i \in 1 .. n : ws <= seq[i].start,
         \A i, j \in 1 .. n : i < j => seq[i].start <= seq[j].start
  PROVE  SweptTo(FoldLeft(Sweep, [gaps |-> {}, cursor |-> ws], seq), ws, seq, n)
  <1> DEFINE base == [gaps |-> {}, cursor |-> ws]
  <1>1. base \in [gaps : SUBSET Span, cursor : Nat] /\ base.gaps = {} /\ base.cursor = ws
    OBVIOUS
  <1> HIDE DEF base
  <1>2. PICK h : /\ h[0] = base
                 /\ \A k \in 1 .. n : h[k] = Sweep(h[k - 1], seq[k])
                 /\ FoldLeft(Sweep, base, seq) = h[n]
    BY <1>1, SweepSteps
  <1> DEFINE T == {k \in Nat : k <= n => SweptTo(h[k], ws, seq, k)}
  <1>3. 0 \in T
    <2>1. SweptTo(base, ws, seq, 0)
      BY <1>1 DEF SweptTo, Hit
    <2> QED
      BY <1>2, <2>1
  <1>4. ASSUME NEW k \in Nat, k \in T PROVE k + 1 \in T
    <2>1. SUFFICES ASSUME k + 1 <= n PROVE SweptTo(h[k + 1], ws, seq, k + 1)
      BY k + 1 \in Nat
    <2>2. k \in 0 .. n - 1 /\ k <= n /\ k + 1 \in 1 .. n /\ (k + 1) - 1 = k
      BY <2>1
    <2>3. SweptTo(h[k], ws, seq, k) /\ h[k + 1] = Sweep(h[k], seq[k + 1])
      BY <1>2, <1>4, <2>2
    <2> QED
      BY <2>2, <2>3, SweepStep
  <1> HIDE DEF T
  <1>5. n \in T
    BY <1>3, <1>4, NatInductionSet
  <1>6. SweptTo(h[n], ws, seq, n)
    BY <1>5 DEF T
  <1> QED
    BY <1>2, <1>6 DEF base

\* What lies between the spans in a window: CoverageGaps, once the evidence is
\* clipped to the window.
LEMMA SweptWindow ==
  ASSUME NEW b \in Booking, NEW spans \in SUBSET Span, IsFiniteSet(spans),
         \A p \in spans : b.start <= p.start /\ p.end <= b.end
  PROVE  LET swept == FoldLeft(Sweep, [gaps |-> {}, cursor |-> b.start], ByStart(spans))
             gaps == IF swept.cursor < b.end
                     THEN swept.gaps \cup {[start |-> swept.cursor, end |-> b.end]} ELSE swept.gaps
         IN  /\ gaps \subseteq Span
             /\ \A g \in gaps : b.start <= g.start /\ g.end <= b.end
             /\ \A t \in Points(b) : Hit(gaps, t) <=> ~Hit(spans, t)
             /\ \A g, h \in gaps : g.end # h.start
  <1> DEFINE seq == ByStart(spans)
             v == FoldLeft(Sweep, [gaps |-> {}, cursor |-> b.start], seq)
             rest == [start |-> v.cursor, end |-> b.end]
             gaps == IF v.cursor < b.end THEN v.gaps \cup {rest} ELSE v.gaps
  <1>1. PICK n \in Nat : /\ seq \in [1 .. n -> spans]
                         /\ \A p \in spans : \E i \in 1 .. n : seq[i] = p
                         /\ \A i, j \in 1 .. n : i < j => seq[i].start <= seq[j].start
    BY ByStartSorts
  <1>2. b.start \in Nat /\ b.end \in Nat /\ b.start < b.end
    BY DEF Booking
  <1>3. SweptTo(v, b.start, seq, n)
    <2>1. /\ seq \in [1 .. n -> Span] /\ \A i \in 1 .. n : b.start <= seq[i].start
      BY <1>1
    <2> HIDE DEF seq
    <2> QED
      BY <1>1, <1>2, <2>1, SweepExact
  <1> HIDE DEF v, seq
  <1>4. /\ v.gaps \subseteq Span /\ v.cursor \in Nat /\ b.start <= v.cursor
        /\ \A g \in v.gaps : b.start <= g.start /\ g.end < v.cursor
        /\ \A g, h \in v.gaps : g.end # h.start
    BY <1>3 DEF SweptTo
  <1>5. v.cursor <= b.end
    <2>1. CASE v.cursor = b.start
      BY <1>2, <2>1
    <2>2. CASE \E i \in 1 .. n : v.cursor = seq[i].end
      BY <1>1, <2>2
    <2> QED
      BY <1>3, <2>1, <2>2 DEF SweptTo
  <1>6. /\ v.cursor < b.end => rest \in Span
        /\ rest.start = v.cursor /\ rest.end = b.end
    BY <1>2, <1>4 DEF Span
  <1> HIDE DEF rest
  <1>7. gaps \subseteq Span
    BY <1>4, <1>6
  <1>8. \A g \in gaps : b.start <= g.start /\ g.end <= b.end
    BY <1>2, <1>4, <1>5, <1>6 DEF Span
  <1>9. ASSUME NEW t \in Points(b) PROVE Hit(gaps, t) <=> ~Hit(spans, t)
    <2>1. t \in Nat /\ b.start <= t /\ t < b.end
      BY <1>2 DEF Points
    <2>2. Hit(spans, t) <=> \E i \in 1 .. n : Within(seq[i], t)
      BY <1>1 DEF Hit
    <2>3. CASE t < v.cursor
      <3>1. Hit(v.gaps, t) <=> ~\E i \in 1 .. n : Within(seq[i], t)
        BY <1>3, <1>4, <2>1, <2>3 DEF SweptTo
      <3>2. ~Within(rest, t)
        BY <1>4, <1>6, <2>1, <2>3 DEF Within
      <3> QED
        BY <2>2, <3>1, <3>2 DEF Hit
    <2>4. CASE v.cursor <= t
      <3>1. \A i \in 1 .. n : seq[i].end <= v.cursor /\ seq[i] \in Span
        BY <1>1, <1>3 DEF SweptTo
      <3>2. ~\E i \in 1 .. n : Within(seq[i], t)
        BY <1>4, <2>1, <2>4, <3>1 DEF Within, Span
      <3>3. v.cursor < b.end /\ Within(rest, t)
        BY <1>2, <1>4, <1>6, <2>1, <2>4 DEF Within
      <3> QED
        BY <2>2, <3>2, <3>3 DEF Hit
    <2> QED
      BY <1>4, <2>1, <2>3, <2>4
  <1>10. ASSUME NEW g \in gaps, NEW h \in gaps PROVE g.end # h.start
    <2>1. CASE g \in v.gaps /\ h \in v.gaps
      BY <1>4, <2>1
    <2>2. CASE g \in v.gaps /\ h = rest
      BY <1>4, <1>6, <2>2 DEF Span
    <2>3. CASE g = rest
      <3>1. h.start < h.end /\ h.end <= b.end /\ h \in Span
        BY <1>7, <1>8 DEF Span
      <3> QED
        BY <1>2, <1>6, <2>3, <3>1 DEF Span
    <2> QED
      BY <2>1, <2>2, <2>3
  <1> HIDE DEF gaps
  <1>11. /\ gaps \subseteq Span
         /\ \A g \in gaps : b.start <= g.start /\ g.end <= b.end
         /\ \A t \in Points(b) : Hit(gaps, t) <=> ~Hit(spans, t)
         /\ \A g, h \in gaps : g.end # h.start
    BY <1>7, <1>8, <1>9, <1>10
  <1> QED
    BY <1>11 DEF gaps, rest, v, seq

\* The evidence of one kind, clipped to a window.
LEMMA ClippedEvidence ==
  ASSUME NEW b \in Booking, NEW refs \in SUBSET Reference, NEW kind
  PROVE  LET spans == {Clipped(r, b) : r \in Relevant(refs, b, kind)}
         IN  /\ spans \subseteq Span
             /\ \A p \in spans : b.start <= p.start /\ p.end <= b.end
             /\ \A t \in Points(b) : Hit(spans, t) <=> Holds(refs, kind, t)
             /\ IsFiniteSet(refs) => IsFiniteSet(spans)
  <1> DEFINE used == Relevant(refs, b, kind)
             spans == {Clipped(r, b) : r \in used}
  <1>1. b.start \in Nat /\ b.end \in Nat /\ b.start < b.end
    BY DEF Booking
  <1>2. ASSUME NEW r \in used
        PROVE  /\ r \in refs /\ r.kind = kind /\ r.from \in Nat /\ r.until \in Nat
               /\ r.from < r.until /\ b.start < r.until /\ r.from < b.end
               /\ Clipped(r, b) \in Span
               /\ b.start <= Clipped(r, b).start /\ Clipped(r, b).end <= b.end
               /\ \A t \in Points(b) : Within(Clipped(r, b), t) <=> r.from <= t /\ t < r.until
    <2>1. /\ r \in refs /\ r.kind = kind /\ r.from \in Nat /\ r.until \in Nat
          /\ r.from < r.until /\ b.start < r.until /\ r.from < b.end
      BY <1>2 DEF Relevant, Reference
    <2>2. /\ Clipped(r, b).start = IF r.from < b.start THEN b.start ELSE r.from
          /\ Clipped(r, b).end = IF b.end < r.until THEN b.end ELSE r.until
          /\ Clipped(r, b) \in [start : Nat, end : Nat]
      BY <1>1, <2>1 DEF Clipped
    <2>3. \A t \in Points(b) : t \in Nat /\ b.start <= t /\ t < b.end
      BY <1>1 DEF Points
    <2>4. /\ Clipped(r, b).start < Clipped(r, b).end
          /\ b.start <= Clipped(r, b).start /\ Clipped(r, b).end <= b.end
      BY <1>1, <2>1, <2>2
    <2>5. \A t \in Points(b) : Within(Clipped(r, b), t) <=> r.from <= t /\ t < r.until
      BY <1>1, <2>1, <2>2, <2>3 DEF Within
    <2> QED
      BY <2>1, <2>2, <2>4, <2>5 DEF Span
  <1> HIDE DEF used
  <1>3. spans \subseteq Span /\ \A p \in spans : b.start <= p.start /\ p.end <= b.end
    BY <1>2
  <1>4. ASSUME NEW t \in Points(b) PROVE Hit(spans, t) <=> Holds(refs, kind, t)
    <2>1. Hit(spans, t) <=> \E r \in used : r.from <= t /\ t < r.until
      BY <1>2 DEF Hit
    <2>2. ASSUME NEW r \in refs, r.kind = kind, r.from <= t, t < r.until
          PROVE  r \in used
      <3>1. t \in Nat /\ b.start <= t /\ t < b.end /\ r.from \in Nat /\ r.until \in Nat
        BY <1>1 DEF Points, Reference
      <3> QED
        BY <1>1, <2>2, <3>1 DEF used, Relevant
    <2> QED
      BY <1>2, <2>1, <2>2 DEF Holds
  <1>5. IsFiniteSet(refs) => IsFiniteSet(spans)
    <2>1. IsFiniteSet(refs) => IsFiniteSet(used)
      BY FS_Subset DEF used, Relevant
    <2>2. IsFiniteSet(used) => IsFiniteSet(spans)
      <3> DEFINE f == [r \in used |-> Clipped(r, b)]
      <3>1. f \in Surjection(used, spans)
        BY DEF Surjection
      <3> HIDE DEF f
      <3> QED
        BY <3>1, FS_Surjection
    <2> QED
      BY <2>1, <2>2
  <1> HIDE DEF spans
  <1> QED
    BY <1>3, <1>4, <1>5 DEF spans, used

\* coverageGaps finds what is to be found, in whole gaps.
LEMMA CoverageExact ==
  ASSUME NEW b \in Booking, NEW refs \in SUBSET Reference, IsFiniteSet(refs), NEW kind
  PROVE  /\ CoverageGaps(refs, b, kind) \subseteq Span
         /\ \A g \in CoverageGaps(refs, b, kind) : b.start <= g.start /\ g.end <= b.end
         /\ \A t \in Points(b) : Hit(CoverageGaps(refs, b, kind), t) <=> ~Holds(refs, kind, t)
         /\ \A g, h \in CoverageGaps(refs, b, kind) : g.end # h.start
  <1> DEFINE spans == {Clipped(r, b) : r \in Relevant(refs, b, kind)}
  <1>1. /\ spans \subseteq Span /\ IsFiniteSet(spans)
        /\ \A p \in spans : b.start <= p.start /\ p.end <= b.end
        /\ \A t \in Points(b) : Hit(spans, t) <=> Holds(refs, kind, t)
    BY ClippedEvidence
  <1> DEFINE swept == FoldLeft(Sweep, [gaps |-> {}, cursor |-> b.start], ByStart(spans))
             gaps == IF swept.cursor < b.end
                     THEN swept.gaps \cup {[start |-> swept.cursor, end |-> b.end]} ELSE swept.gaps
  <1>2. CoverageGaps(refs, b, kind) = gaps
    BY DEF CoverageGaps
  <1> HIDE DEF spans
  <1>3. /\ gaps \subseteq Span
        /\ \A g \in gaps : b.start <= g.start /\ g.end <= b.end
        /\ \A t \in Points(b) : Hit(gaps, t) <=> ~Hit(spans, t)
        /\ \A g, h \in gaps : g.end # h.start
    BY <1>1, SweptWindow
  <1> HIDE DEF gaps
  <1> QED
    BY <1>1, <1>2, <1>3

\* There is no gap just if there is evidence all the time.
LEMMA NoGaps ==
  ASSUME NEW b \in Booking, NEW refs \in SUBSET Reference, IsFiniteSet(refs), NEW kind
  PROVE  CoverageGaps(refs, b, kind) = {} <=> \A t \in Points(b) : Holds(refs, kind, t)
  <1> DEFINE gaps == CoverageGaps(refs, b, kind)
  <1>1. /\ gaps \subseteq Span
        /\ \A g \in gaps : b.start <= g.start /\ g.end <= b.end
        /\ \A t \in Points(b) : Hit(gaps, t) <=> ~Holds(refs, kind, t)
    BY CoverageExact
  <1> HIDE DEF gaps
  <1>2. gaps = {} => \A t \in Points(b) : Holds(refs, kind, t)
    BY <1>1 DEF Hit
  <1>3. ASSUME NEW g \in gaps PROVE \E t \in Points(b) : ~Holds(refs, kind, t)
    <2>1. g.start \in Points(b) /\ Within(g, g.start)
      BY <1>1 DEF Points, Within, Span, Booking
    <2> QED
      BY <1>1, <2>1 DEF Hit
  <1> QED
    BY <1>2, <1>3 DEF gaps
-----------------------------------------------------------------------------
(* The cuts *)

\* Least is what it says.
LEMMA LeastIsLeast ==
  ASSUME NEW T, T \subseteq Int, T # {}, NEW low \in Int, \A k \in T : low <= k
  PROVE  Least(T) \in T /\ \A k \in T : Least(T) <= k
  BY LeastExists DEF Least

\* So is Greatest.
LEMMA GreatestIsGreatest ==
  ASSUME NEW T, T \subseteq Int, T # {}, NEW high \in Int, \A k \in T : k <= high
  PROVE  Greatest(T) \in T /\ \A k \in T : k <= Greatest(T)
  BY GreatestExists DEF Greatest

\* The moments at which resilience is looked at anew.
Cuts(spans, b) == {b.start, b.end} \cup {s.start : s \in spans} \cup {s.end : s \in spans}

\* Between two cuts next to each other, no span goes from one to the other.
OpenSegment(g, spans, b) ==
  /\ g.start \in Cuts(spans, b) /\ g.end \in Cuts(spans, b)
  /\ \A q \in Cuts(spans, b) : q <= g.start \/ g.end <= q
  /\ \A s \in spans : s.start <= g.start => s.end < g.end

\* Cuts are moments of the window, its end included.
LEMMA CutsInWindow ==
  ASSUME NEW b \in Booking, NEW spans \in SUBSET Span,
         \A p \in spans : b.start <= p.start /\ p.end <= b.end
  PROVE  /\ b.start \in Nat /\ b.end \in Nat /\ b.start < b.end
         /\ \A q \in Cuts(spans, b) : q \in Nat /\ b.start <= q /\ q <= b.end
  BY DEF Cuts, Span, Booking

\* What ResilienceGaps selects.
LEMMA ResilienceSegments ==
  ASSUME NEW b \in Booking, NEW refs \in SUBSET Reference, NEW kind
  PROVE  LET spans == {Clipped(r, b) : r \in Relevant(refs, b, kind)}
         IN  ResilienceGaps(refs, b, kind) = {g \in Span : OpenSegment(g, spans, b)}
  <1> DEFINE spans == {Clipped(r, b) : r \in Relevant(refs, b, kind)}
             cuts == Cuts(spans, b)
             After(p) == {q \in cuts : p < q}
             segments == {[start |-> p, end |-> Least(After(p))] : p \in cuts \ {b.end}}
             found == {g \in segments : \A s \in spans : ~(s.start <= g.start /\ g.end <= s.end)}
  <1>1. ResilienceGaps(refs, b, kind) = found
    BY DEF ResilienceGaps, Cuts
  <1>2. spans \subseteq Span /\ \A p \in spans : b.start <= p.start /\ p.end <= b.end
    BY ClippedEvidence
  <1> HIDE DEF spans
  <1>3. /\ b.start \in Nat /\ b.end \in Nat /\ b.start < b.end
        /\ \A q \in cuts : q \in Nat /\ b.start <= q /\ q <= b.end
        /\ b.start \in cuts /\ b.end \in cuts
    BY <1>2, CutsInWindow DEF Cuts
  <1> HIDE DEF cuts
  <1>4. ASSUME NEW p \in cuts, p # b.end
        PROVE  /\ Least(After(p)) \in cuts /\ p < Least(After(p))
               /\ \A q \in cuts : q <= p \/ Least(After(p)) <= q
    <2>1. After(p) \subseteq Int /\ After(p) # {} /\ 0 \in Int /\ \A k \in After(p) : 0 <= k
      BY <1>3, <1>4
    <2>2. Least(After(p)) \in After(p) /\ \A k \in After(p) : Least(After(p)) <= k
      BY <2>1, LeastIsLeast
    <2> QED
      BY <1>3, <2>2
  <1>5. ASSUME NEW g \in found PROVE g \in Span /\ OpenSegment(g, spans, b)
    <2>1. PICK p \in cuts \ {b.end} : g = [start |-> p, end |-> Least(After(p))]
      OBVIOUS
    <2>2. /\ g.start = p /\ g.end \in cuts /\ p < g.end /\ \A q \in cuts : q <= p \/ g.end <= q
          /\ g.end = Least(After(p))
      BY <1>4, <2>1
    <2>3. g \in Span
      BY <1>3, <2>1, <2>2 DEF Span
    <2>4. \A s \in spans : s.start <= g.start => s.end < g.end
      BY <1>2, <2>3 DEF Span
    <2> QED
      BY <2>2, <2>3, <2>4 DEF OpenSegment, cuts
  <1>6. ASSUME NEW g \in Span, OpenSegment(g, spans, b) PROVE g \in found
    <2>1. /\ g.start \in cuts /\ g.end \in cuts
          /\ \A q \in cuts : q <= g.start \/ g.end <= q
          /\ \A s \in spans : s.start <= g.start => s.end < g.end
      BY <1>6 DEF OpenSegment, cuts
    <2>2. g.start # b.end
      BY <1>3, <2>1 DEF Span
    <2>3. Least(After(g.start)) = g.end
      <3> DEFINE next == Least(After(g.start))
      <3>1. next \in cuts /\ g.start < next /\ \A q \in cuts : q <= g.start \/ next <= q
        BY <1>4, <2>1, <2>2
      <3> HIDE DEF next
      <3>2. next \in Nat /\ g.start \in Nat /\ g.end \in Nat /\ g.start < g.end
        BY <1>3, <3>1 DEF Span
      <3>3. next <= g.end /\ g.end <= next
        BY <2>1, <3>1, <3>2
      <3>4. next = g.end
        BY <3>2, <3>3
      <3> QED
        BY <3>4 DEF next
    <2>4. g = [start |-> g.start, end |-> Least(After(g.start))]
      BY <2>3 DEF Span
    <2>5. \A s \in spans : ~(s.start <= g.start /\ g.end <= s.end)
      BY <1>2, <2>1 DEF Span
    <2> QED
      BY <2>1, <2>2, <2>4, <2>5
  <1> HIDE DEF found
  <1> QED
    BY <1>1, <1>5, <1>6 DEF spans

\* The cuts find what is to be found.
LEMMA ResilienceExact ==
  ASSUME NEW b \in Booking, NEW refs \in SUBSET Reference, NEW kind
  PROVE  /\ ResilienceGaps(refs, b, kind) \subseteq Span
         /\ \A g \in ResilienceGaps(refs, b, kind) : b.start <= g.start /\ g.end <= b.end
         /\ \A t \in Points(b) : Hit(ResilienceGaps(refs, b, kind), t) <=> ~Holds(refs, kind, t)
  <1> DEFINE spans == {Clipped(r, b) : r \in Relevant(refs, b, kind)}
             cuts == Cuts(spans, b)
             gaps == ResilienceGaps(refs, b, kind)
  <1>1. gaps = {g \in Span : OpenSegment(g, spans, b)}
    BY ResilienceSegments
  <1>2. /\ spans \subseteq Span /\ \A p \in spans : b.start <= p.start /\ p.end <= b.end
        /\ \A t \in Points(b) : Hit(spans, t) <=> Holds(refs, kind, t)
    BY ClippedEvidence
  <1> HIDE DEF spans, gaps
  <1>3. /\ b.start \in Nat /\ b.end \in Nat /\ b.start < b.end
        /\ \A q \in cuts : q \in Nat /\ b.start <= q /\ q <= b.end
        /\ b.start \in cuts /\ b.end \in cuts
        /\ \A s \in spans : s.start \in cuts /\ s.end \in cuts
    BY <1>2, CutsInWindow DEF Cuts
  <1>4. \A g \in gaps :
          /\ g \in Span /\ g.start \in cuts /\ g.end \in cuts
          /\ \A q \in cuts : q <= g.start \/ g.end <= q
          /\ \A s \in spans : s.start <= g.start => s.end < g.end
    BY <1>1 DEF OpenSegment
  <1> HIDE DEF cuts
  <1>5. gaps \subseteq Span /\ \A g \in gaps : b.start <= g.start /\ g.end <= b.end
    BY <1>3, <1>4
  <1>6. ASSUME NEW t \in Points(b), ~Hit(spans, t) PROVE Hit(gaps, t)
    <2> DEFINE before == {q \in cuts : q <= t}
               after == {q \in cuts : t < q}
    <2>1. t \in Nat /\ b.start <= t /\ t < b.end
      BY <1>3 DEF Points
    <2>2. PICK p \in before : \A q \in before : q <= p
      <3>1. before \subseteq Int /\ before # {} /\ t \in Int /\ \A q \in before : q <= t
        BY <1>3, <2>1
      <3> QED
        BY <3>1, GreatestExists
    <2>3. PICK q \in after : \A k \in after : q <= k
      <3>1. after \subseteq Int /\ after # {} /\ t \in Int /\ \A k \in after : t <= k
        BY <1>3, <2>1
      <3> QED
        BY <3>1, LeastExists
    <2> DEFINE g == [start |-> p, end |-> q]
    <2>4. /\ g \in Span /\ g.start = p /\ g.end = q /\ p \in cuts /\ q \in cuts
          /\ p <= t /\ t < q
      BY <1>3, <2>1, <2>2, <2>3 DEF Span
    <2> HIDE DEF g
    <2>5. \A k \in cuts : k <= p \/ q <= k
      BY <1>3, <2>1, <2>2, <2>3
    <2>6. ASSUME NEW s \in spans, s.start <= p PROVE s.end < q
      <3>1. s.start \in Nat /\ s.end \in Nat /\ ~Within(s, t)
        BY <1>2, <1>6 DEF Hit, Span
      <3> QED
        BY <1>3, <2>1, <2>4, <2>6, <3>1 DEF Within
    <2>7. OpenSegment(g, spans, b) /\ Within(g, t)
      BY <2>4, <2>5, <2>6 DEF OpenSegment, Within, cuts
    <2> QED
      BY <1>1, <2>4, <2>7 DEF Hit
  <1>7. ASSUME NEW t \in Points(b), Hit(gaps, t), Hit(spans, t) PROVE FALSE
    <2>1. t \in Nat
      BY <1>3 DEF Points
    <2>2. PICK g \in gaps : g.start <= t /\ t < g.end
      BY <1>7 DEF Hit, Within
    <2>3. PICK s \in spans : s.start <= t /\ t < s.end
      BY <1>7 DEF Hit, Within
    <2>4. /\ g.start \in Nat /\ g.end \in Nat /\ s.start \in Nat /\ s.end \in Nat
          /\ s.start <= g.start \/ g.end <= s.start
          /\ s.end <= g.start \/ g.end <= s.end
          /\ s.start <= g.start => s.end < g.end
      BY <1>2, <1>3, <1>4 DEF Span
    <2> QED
      BY <2>1, <2>2, <2>3, <2>4
  <1> QED
    BY <1>2, <1>5, <1>6, <1>7 DEF gaps

\* What leaves a gap if it is taken away, that there is not with it, holds
\* alone at some moment, and the other way round.
LEMMA CriticalHoldsAlone ==
  ASSUME NEW b \in Booking, NEW refs \in SUBSET Reference, NEW r \in refs
  PROVE  r \in Critical(refs, b) <=>
           \E t \in Points(b) : Holds(refs, r.kind, t) /\ ~Holds(refs \ {r}, r.kind, t)
  <1> DEFINE Spans(R, kind) == {Clipped(q, b) : q \in Relevant(R, b, kind)}
             others == refs \ {r}
  <1>1. others \subseteq Reference /\ r \in Reference /\ r.kind \in Kinds
    BY DEF Reference
  <1>2. b.start \in Nat /\ b.end \in Nat /\ b.start < b.end
    BY DEF Booking
  <1>3. ASSUME NEW t \in Points(b), Holds(refs, r.kind, t), ~Holds(others, r.kind, t)
        PROVE  r \in Critical(refs, b)
    <2>1. PICK g \in ResilienceGaps(others, b, r.kind) : Within(g, t)
      BY <1>1, <1>3, ResilienceExact DEF Hit
    <2>2. g \notin ResilienceGaps(refs, b, r.kind)
      BY <1>3, <2>1, ResilienceExact DEF Hit
    <2> QED
      BY <1>1, <2>1, <2>2 DEF Critical
  <1>4. ASSUME r \in Critical(refs, b),
               \A t \in Points(b) : Holds(refs, r.kind, t) => Holds(others, r.kind, t)
        PROVE  FALSE
    <2>1. PICK kind \in Kinds :
            ResilienceGaps(others, b, kind) \ ResilienceGaps(refs, b, kind) # {}
      BY <1>4 DEF Critical
    <2>2. PICK g : g \in ResilienceGaps(others, b, kind) /\ g \notin ResilienceGaps(refs, b, kind)
      BY <2>1
    <2> DEFINE few == Spans(others, kind)
               all == Spans(refs, kind)
    <2>3. /\ ResilienceGaps(others, b, kind) = {h \in Span : OpenSegment(h, few, b)}
          /\ ResilienceGaps(refs, b, kind) = {h \in Span : OpenSegment(h, all, b)}
      BY <1>1, ResilienceSegments
    <2>4. CASE r \notin Relevant(refs, b, kind)
      <3>1. Relevant(refs, b, kind) = Relevant(others, b, kind)
        BY <2>4 DEF Relevant
      <3> QED
        BY <2>2, <2>3, <3>1
    <2>5. CASE r \in Relevant(refs, b, kind)
      <3>1. r.kind = kind /\ Relevant(refs, b, kind) = Relevant(others, b, kind) \cup {r}
        BY <2>5 DEF Relevant
      <3> DEFINE own == Clipped(r, b)
      <3>2. all = few \cup {own}
        BY <3>1
      <3>3. own \in Span /\ b.start <= own.start /\ own.end <= b.end
        <4>1. own \in all
          BY <3>2
        <4> HIDE DEF own
        <4>2. all \subseteq Span /\ \A p \in all : b.start <= p.start /\ p.end <= b.end
          BY <1>1, ClippedEvidence
        <4> QED
          BY <4>1, <4>2
      <3>4. \A t \in Points(b) : Hit(all, t) <=> Holds(refs, kind, t)
        BY <1>1, ClippedEvidence
      <3>5. \A t \in Points(b) : Hit(few, t) <=> Holds(others, kind, t)
        BY <1>1, ClippedEvidence
      <3> HIDE DEF few, all, own
      <3>6. /\ g \in Span /\ b.start <= g.start /\ g.end <= b.end
            /\ \A t \in Points(b) : Within(g, t) => ~Holds(others, kind, t)
        BY <1>1, <2>2, ResilienceExact DEF Hit
      <3>7. /\ OpenSegment(g, few, b)
            /\ g.start \in Nat /\ g.end \in Nat /\ g.start < g.end
            /\ own.start \in Nat /\ own.end \in Nat /\ own.start < own.end
        BY <2>2, <2>3, <3>3, <3>6 DEF Span
      <3>8. \A t \in Points(b) : ~(Within(g, t) /\ Within(own, t))
        BY <1>4, <3>1, <3>2, <3>4, <3>6 DEF Hit
      <3>9. own.end <= g.start \/ g.end <= own.start
        <4>1. ASSUME g.start < own.end, own.start < g.end, g.start <= own.start PROVE FALSE
          <5>1. own.start \in Points(b) /\ Within(g, own.start) /\ Within(own, own.start)
            BY <1>2, <3>3, <3>6, <3>7, <4>1 DEF Points, Within
          <5> QED
            BY <3>8, <5>1
        <4>2. ASSUME g.start < own.end, own.start < g.end, own.start <= g.start PROVE FALSE
          <5>1. g.start \in Points(b) /\ Within(g, g.start) /\ Within(own, g.start)
            BY <1>2, <3>3, <3>6, <3>7, <4>2 DEF Points, Within
          <5> QED
            BY <3>8, <5>1
        <4> QED
          BY <3>7, <4>1, <4>2
      <3>10. \A q \in Cuts(all, b) : q \in Cuts(few, b) \/ q = own.start \/ q = own.end
        BY <3>2 DEF Cuts
      <3>11. Cuts(few, b) \subseteq Cuts(all, b)
        BY <3>2 DEF Cuts
      <3>12. OpenSegment(g, all, b)
        <4>1. \A q \in Cuts(all, b) : q <= g.start \/ g.end <= q
          BY <3>7, <3>9, <3>10 DEF OpenSegment
        <4>2. \A s \in all : s.start <= g.start => s.end < g.end
          BY <3>2, <3>7, <3>9 DEF OpenSegment
        <4> QED
          BY <3>7, <3>11, <4>1, <4>2 DEF OpenSegment
      <3> QED
        BY <2>2, <2>3, <3>6, <3>12
    <2> QED
      BY <2>4, <2>5
  <1> QED
    BY <1>3, <1>4
-----------------------------------------------------------------------------
(* The merge *)

\* After the first k spans, those merged so far have the same moments in them,
\* with time in between; the last one begins no later than the last span seen.
MergedTo(m, seq, k) ==
  /\ m \in Seq(Span)
  /\ m = <<>> <=> k = 0
  /\ \A i \in 2 .. Len(m) : m[i - 1].end < m[i].start
  /\ \A t \in Int :
       (\E i \in 1 .. Len(m) : Within(m[i], t)) <=> \E i \in 1 .. k : Within(seq[i], t)
  /\ k # 0 => m[Len(m)].start <= seq[k].start

\* One round of the loop takes the next span in.
LEMMA MergeStep ==
  ASSUME NEW n \in Nat, NEW seq \in [1 .. n -> Span],
         \A i, j \in 1 .. n : i < j => seq[i].start <= seq[j].start,
         NEW k \in 0 .. n - 1, NEW m, MergedTo(m, seq, k)
  PROVE  MergedTo(Merged(m, seq[k + 1]), seq, k + 1)
  <1> DEFINE p == seq[k + 1]
             w == Merged(m, p)
  <1> SUFFICES MergedTo(w, seq, k + 1)
    OBVIOUS
  <1>0. k \in Nat /\ k + 1 \in 1 .. n /\ \A i \in 1 .. k + 1 : i \in 1 .. k \/ i = k + 1
    OBVIOUS
  <1>1. p \in Span /\ p.start \in Nat /\ p.end \in Nat /\ p.start < p.end
    BY <1>0 DEF Span
  <1>2. /\ m \in Seq(Span) /\ Len(m) \in Nat /\ \A i \in 1 .. Len(m) : m[i] \in Span
        /\ m = <<>> <=> k = 0
        /\ \A i \in 2 .. Len(m) : m[i - 1].end < m[i].start
    BY DEF MergedTo
  <1>3. \A t \in Int : (\E i \in 1 .. k + 1 : Within(seq[i], t))
                         <=> Within(p, t) \/ \E i \in 1 .. Len(m) : Within(m[i], t)
    <2>1. \A t \in Int : (\E i \in 1 .. k + 1 : Within(seq[i], t))
                           <=> Within(p, t) \/ \E i \in 1 .. k : Within(seq[i], t)
      BY <1>0
    <2> HIDE DEF p
    <2> QED
      BY <2>1 DEF MergedTo
  <1>4. k # 0 => m[Len(m)].start <= p.start
    <2>1. k # 0 => k \in 1 .. n /\ seq[k] \in Span /\ seq[k].start <= p.start
      BY <1>0
    <2>2. k # 0 => m[Len(m)] \in Span
      BY <1>2
    <2> HIDE DEF p
    <2> QED
      BY <1>1, <2>1, <2>2 DEF MergedTo, Span
  <1> HIDE DEF p, w
  <1>5. w \in Seq(Span)
    BY <1>1, <1>2, MergedSpans DEF w
  <1>6. CASE m = <<>> \/ Last(m).end < p.start
    <2>1. w = Append(m, p)
      BY <1>1, <1>2, <1>6, MergedSpans DEF w
    <2>2. /\ Len(w) = Len(m) + 1 /\ w[Len(w)] = p
          /\ \A i \in 1 .. Len(m) : w[i] = m[i]
      BY <1>1, <1>2, <2>1
    <2>3. \A i \in 1 .. Len(w) : i \in 1 .. Len(m) \/ i = Len(w)
      BY <1>2, <2>2
    <2>4. \A i \in 1 .. Len(m) : i \in 1 .. Len(w)
      BY <1>2, <2>2
    <2>5. Len(w) \in 1 .. Len(w)
      BY <1>2, <2>2
    <2>6. \A t \in Int : (\E i \in 1 .. Len(w) : Within(w[i], t))
                           <=> Within(p, t) \/ \E i \in 1 .. Len(m) : Within(m[i], t)
      BY <2>2, <2>3, <2>4, <2>5
    <2>7. ASSUME NEW i \in 2 .. Len(w) PROVE w[i - 1].end < w[i].start
      <3>1. CASE i \in 2 .. Len(m)
        <4>1. i \in 1 .. Len(m) /\ i - 1 \in 1 .. Len(m)
          BY <1>2, <3>1
        <4> QED
          BY <1>2, <2>2, <3>1, <4>1
      <3>2. CASE i = Len(w)
        <4>1. i - 1 = Len(m) /\ Len(m) \in 1 .. Len(m) /\ m # <<>>
          BY <1>2, <2>2, <3>2
        <4>2. w[i - 1] = m[Len(m)] /\ w[i] = p
          BY <2>2, <3>2, <4>1
        <4> QED
          BY <1>6, <4>1, <4>2 DEF Last
      <3> QED
        BY <1>2, <2>2, <3>1, <3>2
    <2>8. w # <<>> /\ k + 1 # 0
      BY <1>0, <1>2, <2>2
    <2>9. w[Len(w)].start <= p.start
      BY <1>1, <2>2
    <2>10. \A t \in Int : (\E i \in 1 .. Len(w) : Within(w[i], t))
                             <=> \E i \in 1 .. k + 1 : Within(seq[i], t)
      BY <1>3, <2>6
    <2>11. w[Len(w)].start <= seq[k + 1].start
      BY <2>9 DEF p
    <2> QED
      BY <1>5, <2>7, <2>8, <2>10, <2>11 DEF MergedTo
  <1>7. CASE ~(m = <<>> \/ Last(m).end < p.start)
    <2> DEFINE n1 == Len(m)
    <2>1. /\ Len(w) = n1 /\ n1 \in Nat \ {0}
          /\ \A i \in 1 .. n1 - 1 : w[i] = m[i]
          /\ w[n1].start = m[n1].start
          /\ w[n1].end = IF m[n1].end < p.end THEN p.end ELSE m[n1].end
      BY <1>1, <1>2, <1>7, MergedSpans DEF w
    <2>2. /\ m[n1].start \in Nat /\ m[n1].end \in Nat /\ m[n1].start < m[n1].end
          /\ p.start <= m[n1].end /\ m[n1].start <= p.start
      <3>1. n1 \in 1 .. n1 /\ m[n1] \in Span
        BY <1>2, <2>1
      <3> QED
        BY <1>1, <1>2, <1>4, <1>7, <3>1 DEF Last, Span
    <2>3. \A t \in Int : Within(w[n1], t) <=> Within(p, t) \/ Within(m[n1], t)
      BY <1>1, <2>1, <2>2 DEF Within
    <2>4. /\ \A i \in 1 .. n1 : i \in 1 .. n1 - 1 \/ i = n1
          /\ \A i \in 1 .. n1 - 1 : i \in 1 .. n1
          /\ n1 \in 1 .. n1
      BY <2>1
    <2> HIDE DEF n1
    <2>5. \A t \in Int : (\E i \in 1 .. n1 : Within(w[i], t))
                           <=> Within(p, t) \/ \E i \in 1 .. n1 : Within(m[i], t)
      BY <2>1, <2>3, <2>4
    <2>6. ASSUME NEW i \in 2 .. n1 PROVE w[i - 1].end < w[i].start
      <3>1. i - 1 \in 1 .. n1 - 1 /\ w[i - 1] = m[i - 1] /\ m[i - 1].end < m[i].start
        BY <1>2, <2>1 DEF n1
      <3>2. w[i].start = m[i].start
        BY <2>1, <2>4
      <3> QED
        BY <3>1, <3>2
    <2>7. w # <<>> /\ k + 1 # 0
      <3>1. Len(w) # 0 /\ k + 1 # 0
        BY <1>0, <2>1
      <3> QED
        BY <3>1
    <2>8. w[Len(w)].start <= p.start
      BY <2>1, <2>2
    <2>9. \A t \in Int : (\E i \in 1 .. Len(w) : Within(w[i], t))
                            <=> \E i \in 1 .. k + 1 : Within(seq[i], t)
      BY <1>3, <2>1, <2>5 DEF n1
    <2>10. w[Len(w)].start <= seq[k + 1].start
      BY <2>8 DEF p
    <2>11. \A i \in 2 .. Len(w) : w[i - 1].end < w[i].start
      BY <2>1, <2>6
    <2> QED
      BY <1>5, <2>7, <2>9, <2>10, <2>11 DEF MergedTo
  <1> QED
    BY <1>6, <1>7

\* The merge of a sorted sequence.
LEMMA MergeExact ==
  ASSUME NEW n \in Nat, NEW seq \in [1 .. n -> Span],
         \A i, j \in 1 .. n : i < j => seq[i].start <= seq[j].start
  PROVE  MergedTo(FoldLeft(Merged, <<>>, seq), seq, n)
  <1>1. <<>> \in Seq(Span)
    OBVIOUS
  <1>2. PICK h : /\ h[0] = <<>>
                 /\ \A k \in 1 .. n : h[k] = Merged(h[k - 1], seq[k])
                 /\ FoldLeft(Merged, <<>>, seq) = h[n]
    BY <1>1, MergedSteps
  <1> DEFINE T == {k \in Nat : k <= n => MergedTo(h[k], seq, k)}
  <1>3. 0 \in T
    <2>1. MergedTo(<<>>, seq, 0)
      BY <1>1 DEF MergedTo
    <2> QED
      BY <1>2, <2>1
  <1>4. ASSUME NEW k \in Nat, k \in T PROVE k + 1 \in T
    <2>1. SUFFICES ASSUME k + 1 <= n PROVE MergedTo(h[k + 1], seq, k + 1)
      BY k + 1 \in Nat
    <2>2. k \in 0 .. n - 1 /\ k <= n /\ k + 1 \in 1 .. n /\ (k + 1) - 1 = k
      BY <2>1
    <2>3. MergedTo(h[k], seq, k) /\ h[k + 1] = Merged(h[k], seq[k + 1])
      BY <1>2, <1>4, <2>2
    <2> QED
      BY <2>2, <2>3, MergeStep
  <1> HIDE DEF T
  <1>5. n \in T
    BY <1>3, <1>4, NatInductionSet
  <1>6. MergedTo(h[n], seq, n)
    BY <1>5 DEF T
  <1> QED
    BY <1>2, <1>6

\* Spans merged in the order of their starts.
LEMMA MergedWhole ==
  ASSUME NEW spans \in SUBSET Span, IsFiniteSet(spans)
  PROVE  LET m == FoldLeft(Merged, <<>>, ByStart(spans))
         IN  /\ m \in Seq(Span)
             /\ \A i \in 2 .. Len(m) : m[i - 1].end < m[i].start
             /\ \A t \in Int : (\E i \in 1 .. Len(m) : Within(m[i], t)) <=> Hit(spans, t)
  <1> DEFINE seq == ByStart(spans)
             m == FoldLeft(Merged, <<>>, seq)
  <1>1. PICK n \in Nat : /\ seq \in [1 .. n -> spans]
                         /\ \A p \in spans : \E i \in 1 .. n : seq[i] = p
                         /\ \A i, j \in 1 .. n : i < j => seq[i].start <= seq[j].start
    BY ByStartSorts
  <1>2. MergedTo(m, seq, n)
    <2>1. seq \in [1 .. n -> Span]
      BY <1>1
    <2> HIDE DEF seq
    <2> QED
      BY <1>1, <2>1, MergeExact
  <1> HIDE DEF m, seq
  <1>3. \A t \in Int : (\E i \in 1 .. n : Within(seq[i], t)) <=> Hit(spans, t)
    BY <1>1 DEF Hit
  <1>4. /\ m \in Seq(Span)
        /\ \A i \in 2 .. Len(m) : m[i - 1].end < m[i].start
        /\ \A t \in Int : (\E i \in 1 .. Len(m) : Within(m[i], t)) <=> Hit(spans, t)
    BY <1>2, <1>3 DEF MergedTo
  <1> QED
    BY <1>4 DEF m, seq
-----------------------------------------------------------------------------
(* Gaps and intervals, as sets of moments *)

\* The moments of spans in a window, if they meet those of the window that a
\* set T says.
LEMMA PointsOfAll ==
  ASSUME NEW b \in Booking, NEW spans \in SUBSET Span, NEW T \in SUBSET Points(b),
         \A p \in spans : b.start <= p.start /\ p.end <= b.end,
         \A t \in Points(b) : Hit(spans, t) <=> t \in T
  PROVE  UNION {Points(p) : p \in spans} = T
  <1>1. b.start \in Nat /\ b.end \in Nat
    BY DEF Booking
  <1>2. ASSUME NEW p \in spans, NEW t \in Points(p)
        PROVE  t \in Points(b) /\ Within(p, t)
    BY <1>1, <1>2 DEF Points, Within, Span
  <1>3. ASSUME NEW p \in spans, NEW t \in Points(b), Within(p, t)
        PROVE  t \in Points(p)
    BY <1>1, <1>3 DEF Points, Within, Span
  <1>4. ASSUME NEW t \in UNION {Points(p) : p \in spans} PROVE t \in T
    BY <1>2, <1>4 DEF Hit
  <1>5. ASSUME NEW t \in T PROVE t \in UNION {Points(p) : p \in spans}
    <2>1. PICK p \in spans : Within(p, t)
      BY <1>5 DEF Hit
    <2>2. t \in Points(p)
      BY <1>3, <1>5, <2>1
    <2> QED
      BY <2>2
  <1> QED
    BY <1>4, <1>5

\* Sweep, cuts and merge agree about the moments without evidence.
LEMMA EvidenceExact ==
  ASSUME NEW b \in Booking, NEW refs \in SUBSET Reference, IsFiniteSet(refs), NEW kind
  PROVE  LET gaps == CoverageGaps(refs, b, kind)
             intervals == Intervals(refs, b, kind)
             open == {t \in Points(b) : ~Holds(refs, kind, t)}
         IN  /\ UNION {Points(g) : g \in gaps} = open
             /\ UNION {Points(g) : g \in ResilienceGaps(refs, b, kind)} = open
             /\ \A g \in gaps : g.start < g.end /\ \A h \in gaps : g.end # h.start
             /\ UNION {Points(intervals[i]) : i \in DOMAIN intervals} = Points(b) \ open
             /\ \A i \in 2 .. Len(intervals) : intervals[i - 1].end < intervals[i].start
  <1> DEFINE gaps == CoverageGaps(refs, b, kind)
             m == Intervals(refs, b, kind)
             open == {t \in Points(b) : ~Holds(refs, kind, t)}
  <1>1. UNION {Points(g) : g \in gaps} = open
    <2>1. /\ gaps \in SUBSET Span /\ \A g \in gaps : b.start <= g.start /\ g.end <= b.end
          /\ \A t \in Points(b) : Hit(gaps, t) <=> t \in open
      BY CoverageExact
    <2>2. open \in SUBSET Points(b)
      OBVIOUS
    <2> HIDE DEF gaps, open
    <2> QED
      BY <2>1, <2>2, PointsOfAll
  <1>2. UNION {Points(g) : g \in ResilienceGaps(refs, b, kind)} = open
    <2> DEFINE found == ResilienceGaps(refs, b, kind)
    <2>1. /\ found \in SUBSET Span /\ \A g \in found : b.start <= g.start /\ g.end <= b.end
          /\ \A t \in Points(b) : Hit(found, t) <=> t \in open
      BY ResilienceExact
    <2>2. open \in SUBSET Points(b)
      OBVIOUS
    <2> HIDE DEF found, open
    <2>3. UNION {Points(g) : g \in found} = open
      BY <2>1, <2>2, PointsOfAll
    <2> QED
      BY <2>3 DEF found
  <1>3. \A g \in gaps : g.start < g.end /\ \A h \in gaps : g.end # h.start
    BY CoverageExact DEF Span
  <1> DEFINE spans == {Clipped(r, b) : r \in Relevant(refs, b, kind)}
  <1>4. /\ spans \subseteq Span /\ \A p \in spans : b.start <= p.start /\ p.end <= b.end
        /\ \A t \in Points(b) : Hit(spans, t) <=> Holds(refs, kind, t)
        /\ IsFiniteSet(spans)
    BY ClippedEvidence
  <1>5. m = FoldLeft(Merged, <<>>, ByStart(spans))
    BY DEF Intervals
  <1> HIDE DEF spans, m
  <1>6. /\ m \in Seq(Span)
        /\ \A i \in 2 .. Len(m) : m[i - 1].end < m[i].start
        /\ \A t \in Int : (\E i \in 1 .. Len(m) : Within(m[i], t)) <=> Hit(spans, t)
    BY <1>4, <1>5, MergedWhole
  <1>7. UNION {Points(m[i]) : i \in DOMAIN m} = Points(b) \ open
    <2>1. b.start \in Nat /\ b.end \in Nat /\ DOMAIN m = 1 .. Len(m)
      BY <1>6 DEF Booking
    <2>2. \A i \in 1 .. Len(m) : m[i] \in Span
      BY <1>6
    <2>3. ASSUME NEW i \in 1 .. Len(m), NEW t \in Points(m[i])
          PROVE  t \in Points(b) /\ Holds(refs, kind, t)
      <3>1. t \in Int /\ Within(m[i], t)
        BY <2>2, <2>3 DEF Points, Within, Span
      <3>2. PICK p \in spans : Within(p, t)
        BY <1>6, <3>1 DEF Hit
      <3>3. t \in Points(b)
        BY <1>4, <2>1, <3>1, <3>2 DEF Within, Points, Span
      <3> QED
        BY <1>4, <3>2, <3>3 DEF Hit
    <2>4. ASSUME NEW t \in Points(b), Holds(refs, kind, t)
          PROVE  \E i \in 1 .. Len(m) : t \in Points(m[i])
      <3>1. t \in Int /\ Hit(spans, t)
        BY <1>4, <2>1, <2>4 DEF Points
      <3>2. PICK i \in 1 .. Len(m) : Within(m[i], t)
        BY <1>6, <3>1
      <3>3. t \in Points(m[i])
        BY <2>2, <3>1, <3>2 DEF Within, Points, Span
      <3> QED
        BY <3>3
    <2>5. Points(b) \ open = {t \in Points(b) : Holds(refs, kind, t)}
      OBVIOUS
    <2> HIDE DEF open
    <2>6. ASSUME NEW t \in UNION {Points(m[i]) : i \in DOMAIN m} PROVE t \in Points(b) \ open
      BY <2>1, <2>3, <2>5, <2>6
    <2>7. ASSUME NEW t \in Points(b) \ open PROVE t \in UNION {Points(m[i]) : i \in DOMAIN m}
      BY <2>1, <2>4, <2>5, <2>7
    <2> QED
      BY <2>6, <2>7
  <1> QED
    BY <1>1, <1>2, <1>3, <1>6, <1>7 DEF m
-----------------------------------------------------------------------------
(* Free windows *)

\* NextStart finds the first window from start on that runs into nothing.
LEMMA NextFree ==
  ASSUME NEW busy \in Seq(Span), NEW duration \in Nat, NEW start \in Int
  PROVE  LET found == NextStart(busy, start, duration)
         IN  /\ found \in Int /\ start <= found /\ Hits(busy, found, duration) = {}
             /\ \A u \in Int : start <= u /\ u < found => Hits(busy, u, duration) # {}
  <1> DEFINE hits(t) == Hits(busy, t, duration)
             jump(t) == busy[Least(Hits(busy, t, duration))].end
             Body(f) == [t \in Int |-> IF hits(t) = {} THEN t ELSE f[jump(t)]]
             chosen == CHOOSE f : f = Body(f)
             free(t) == {u \in Int : t <= u /\ hits(u) = {}}
             best == [t \in Int |-> Least(free(t))]
  <1>1. /\ DOMAIN busy = 1 .. Len(busy) /\ Len(busy) \in Nat
        /\ \A i \in DOMAIN busy : busy[i].start \in Nat /\ busy[i].end \in Nat
                                  /\ busy[i].start < busy[i].end
    BY DEF Span
  <1>2. ASSUME NEW t \in Int, hits(t) # {}
        PROVE  /\ jump(t) \in Int /\ t < jump(t)
               /\ \A u \in Int : t <= u /\ u < jump(t) => hits(u) # {}
    <2> DEFINE i == Least(hits(t))
    <2>1. i \in hits(t)
      <3>1. hits(t) \subseteq Int /\ hits(t) # {} /\ 0 \in Int /\ \A k \in hits(t) : 0 <= k
        BY <1>1, <1>2 DEF Hits
      <3> HIDE DEF hits
      <3> QED
        BY <3>1, LeastIsLeast
    <2> HIDE DEF i
    <2>2. /\ i \in DOMAIN busy /\ t < busy[i].end /\ busy[i].start < t + duration
      BY <2>1 DEF Hits
    <2>3. jump(t) = busy[i].end
      BY DEF i
    <2>4. /\ busy[i].end \in Int /\ t < busy[i].end
      BY <1>1, <2>2
    <2>5. ASSUME NEW u \in Int, t <= u, u < busy[i].end PROVE i \in hits(u)
      BY <1>1, <2>2, <2>5 DEF Hits
    <2> HIDE DEF hits, jump
    <2> QED
      BY <2>3, <2>4, <2>5
  <1>3. \E bound \in Int : \A t \in Int : bound <= t => hits(t) = {}
    <2> DEFINE ends == [i \in 1 .. Len(busy) |-> busy[i].end]
    <2>1. ends \in [1 .. Len(busy) -> Int]
      BY <1>1
    <2>2. PICK bound \in Int : \A i \in 1 .. Len(busy) : ends[i] <= bound
      BY <1>1, <2>1, BoundExists
    <2>3. ASSUME NEW t \in Int, bound <= t PROVE hits(t) = {}
      BY <1>1, <2>2, <2>3 DEF Hits
    <2> QED
      BY <2>3
  <1> HIDE DEF hits, jump
  <1>4. PICK bound \in Int : \A t \in Int : bound <= t => hits(t) = {}
    BY <1>3
  <1>5. ASSUME NEW t \in Int
        PROVE  /\ best[t] \in Int /\ t <= best[t] /\ hits(best[t]) = {}
               /\ \A u \in Int : t <= u /\ hits(u) = {} => best[t] <= u
    <2>1. free(t) \subseteq Int /\ free(t) # {} /\ \A u \in free(t) : t <= u
      <3> DEFINE far == IF t < bound THEN bound ELSE t
      <3>1. far \in free(t)
        BY <1>4
      <3> QED
        BY <3>1
    <2>2. best[t] = Least(free(t))
      OBVIOUS
    <2>3. Least(free(t)) \in free(t) /\ \A u \in free(t) : Least(free(t)) <= u
      <3> HIDE DEF free
      <3> QED
        BY <2>1, LeastIsLeast
    <2> HIDE DEF best
    <2> QED
      BY <2>2, <2>3
  <1> HIDE DEF best
  <1>6. ASSUME NEW t \in Int, hits(t) = {} PROVE best[t] = t
    <2>1. best[t] \in Int /\ t <= best[t] /\ best[t] <= t
      BY <1>5, <1>6
    <2> QED
      BY <2>1
  <1>7. ASSUME NEW t \in Int, hits(t) # {} PROVE best[t] = best[jump(t)]
    <2> DEFINE e == jump(t)
    <2>1. e \in Int /\ t < e /\ \A u \in Int : t <= u /\ u < e => hits(u) # {}
      BY <1>2, <1>7
    <2> HIDE DEF e
    <2>2. /\ best[t] \in Int /\ t <= best[t] /\ hits(best[t]) = {}
          /\ \A u \in Int : t <= u /\ hits(u) = {} => best[t] <= u
      BY <1>5
    <2>3. /\ best[e] \in Int /\ e <= best[e] /\ hits(best[e]) = {}
          /\ \A u \in Int : e <= u /\ hits(u) = {} => best[e] <= u
      BY <1>5, <2>1
    <2>4. e <= best[t]
      BY <2>1, <2>2
    <2>5. best[e] <= best[t] /\ best[t] <= best[e]
      BY <2>1, <2>2, <2>3, <2>4
    <2> QED
      BY <2>2, <2>3, <2>5 DEF e
  <1>8. best = Body(best)
    <2>1. \A t \in Int : best[t] = IF hits(t) = {} THEN t ELSE best[jump(t)]
      BY <1>6, <1>7
    <2>2. best = [t \in Int |-> best[t]]
      BY DEF best
    <2> QED
      BY <2>1, <2>2
  <1>9. chosen = Body(chosen)
    BY <1>8
  <1>10. NextStart(busy, start, duration) = chosen[start]
    BY DEF NextStart, hits, jump
  <1> HIDE DEF chosen
  <1>11. \A t \in Int : chosen[t] = IF hits(t) = {} THEN t ELSE chosen[jump(t)]
    BY <1>9
  <1>12. \A t \in Int : chosen[t] = best[t]
    <2> DEFINE T == {t \in Int : chosen[t] # best[t]}
    <2>1. SUFFICES ASSUME T # {} PROVE FALSE
      OBVIOUS
    <2>2. \A t \in T : t <= bound
      BY <1>4, <1>6, <1>11
    <2>3. PICK t \in T : \A u \in T : u <= t
      <3>1. T \subseteq Int
        OBVIOUS
      <3> HIDE DEF T
      <3> QED
        BY <1>4, <2>1, <2>2, <3>1, GreatestExists
    <2>4. hits(t) # {}
      BY <1>6, <1>11, <2>3
    <2>5. jump(t) \in Int /\ t < jump(t)
      BY <1>2, <2>4
    <2>6. jump(t) \notin T
      BY <2>3, <2>5
    <2>7. chosen[t] = chosen[jump(t)] /\ best[t] = best[jump(t)]
      BY <1>7, <1>11, <2>4
    <2> QED
      BY <2>3, <2>5, <2>6, <2>7
  <1> DEFINE found == NextStart(busy, start, duration)
  <1>13. start \in Int /\ found = best[start]
    BY <1>10, <1>12
  <1> HIDE DEF found
  <1>14. found \in Int /\ start <= found /\ hits(found) = {}
    BY <1>5, <1>13
  <1>15. \A u \in Int : start <= u /\ u < found => hits(u) # {}
    BY <1>5, <1>13, <1>14
  <1> QED
    BY <1>14, <1>15 DEF found, hits

\* PreviousStart finds the last window ending by start that runs into nothing.
LEMMA PreviousFree ==
  ASSUME NEW busy \in Seq(Span), NEW duration \in Nat, NEW start \in Int
  PROVE  LET found == PreviousStart(busy, start, duration)
         IN  /\ found \in Int /\ found <= start - duration /\ Hits(busy, found, duration) = {}
             /\ \A u \in Int : u <= start - duration /\ found < u => Hits(busy, u, duration) # {}
  <1> DEFINE hits(t) == Hits(busy, t, duration)
             jump(t) == busy[Greatest(Hits(busy, t, duration))].start - duration
             Body(f) == [t \in Int |-> IF hits(t) = {} THEN t ELSE f[jump(t)]]
             chosen == CHOOSE f : f = Body(f)
             free(t) == {u \in Int : u <= t /\ hits(u) = {}}
             best == [t \in Int |-> Greatest(free(t))]
  <1>1. /\ DOMAIN busy = 1 .. Len(busy) /\ Len(busy) \in Nat
        /\ \A i \in DOMAIN busy : busy[i].start \in Nat /\ busy[i].end \in Nat
                                  /\ busy[i].start < busy[i].end
    BY DEF Span
  <1>2. ASSUME NEW t \in Int, hits(t) # {}
        PROVE  /\ jump(t) \in Int /\ jump(t) < t
               /\ \A u \in Int : u <= t /\ jump(t) < u => hits(u) # {}
    <2> DEFINE i == Greatest(hits(t))
    <2>1. i \in hits(t)
      <3>1. /\ hits(t) \subseteq Int /\ hits(t) # {}
            /\ Len(busy) \in Int /\ \A k \in hits(t) : k <= Len(busy)
        BY <1>1, <1>2 DEF Hits
      <3> HIDE DEF hits
      <3> QED
        BY <3>1, GreatestIsGreatest
    <2> HIDE DEF i
    <2>2. /\ i \in DOMAIN busy /\ t < busy[i].end /\ busy[i].start < t + duration
      BY <2>1 DEF Hits
    <2>3. jump(t) = busy[i].start - duration
      BY DEF i
    <2>4. /\ busy[i].start - duration \in Int /\ busy[i].start - duration < t
      BY <1>1, <2>2
    <2>5. ASSUME NEW u \in Int, u <= t, busy[i].start - duration < u PROVE i \in hits(u)
      BY <1>1, <2>2, <2>5 DEF Hits
    <2> HIDE DEF hits, jump
    <2> QED
      BY <2>3, <2>4, <2>5
  <1>3. \E bound \in Int : \A t \in Int : t <= bound => hits(t) = {}
    <2>1. ASSUME NEW t \in Int, t <= 0 - duration PROVE hits(t) = {}
      BY <1>1, <2>1 DEF Hits
    <2>2. 0 - duration \in Int
      OBVIOUS
    <2> QED
      BY <2>1, <2>2
  <1> HIDE DEF hits, jump
  <1>4. PICK bound \in Int : \A t \in Int : t <= bound => hits(t) = {}
    BY <1>3
  <1>5. ASSUME NEW t \in Int
        PROVE  /\ best[t] \in Int /\ best[t] <= t /\ hits(best[t]) = {}
               /\ \A u \in Int : u <= t /\ hits(u) = {} => u <= best[t]
    <2>1. free(t) \subseteq Int /\ free(t) # {} /\ \A u \in free(t) : u <= t
      <3> DEFINE far == IF bound < t THEN bound ELSE t
      <3>1. far \in free(t)
        BY <1>4
      <3> QED
        BY <3>1
    <2>2. best[t] = Greatest(free(t))
      OBVIOUS
    <2>3. Greatest(free(t)) \in free(t) /\ \A u \in free(t) : u <= Greatest(free(t))
      <3> HIDE DEF free
      <3> QED
        BY <2>1, GreatestIsGreatest
    <2> HIDE DEF best
    <2> QED
      BY <2>2, <2>3
  <1> HIDE DEF best
  <1>6. ASSUME NEW t \in Int, hits(t) = {} PROVE best[t] = t
    <2>1. best[t] \in Int /\ best[t] <= t /\ t <= best[t]
      BY <1>5, <1>6
    <2> QED
      BY <2>1
  <1>7. ASSUME NEW t \in Int, hits(t) # {} PROVE best[t] = best[jump(t)]
    <2> DEFINE e == jump(t)
    <2>1. e \in Int /\ e < t /\ \A u \in Int : u <= t /\ e < u => hits(u) # {}
      BY <1>2, <1>7
    <2> HIDE DEF e
    <2>2. /\ best[t] \in Int /\ best[t] <= t /\ hits(best[t]) = {}
          /\ \A u \in Int : u <= t /\ hits(u) = {} => u <= best[t]
      BY <1>5
    <2>3. /\ best[e] \in Int /\ best[e] <= e /\ hits(best[e]) = {}
          /\ \A u \in Int : u <= e /\ hits(u) = {} => u <= best[e]
      BY <1>5, <2>1
    <2>4. best[t] <= e
      BY <2>1, <2>2
    <2>5. best[e] <= best[t] /\ best[t] <= best[e]
      BY <2>1, <2>2, <2>3, <2>4
    <2> QED
      BY <2>2, <2>3, <2>5 DEF e
  <1>8. best = Body(best)
    <2>1. \A t \in Int : best[t] = IF hits(t) = {} THEN t ELSE best[jump(t)]
      BY <1>6, <1>7
    <2>2. best = [t \in Int |-> best[t]]
      BY DEF best
    <2> QED
      BY <2>1, <2>2
  <1>9. chosen = Body(chosen)
    BY <1>8
  <1>10. PreviousStart(busy, start, duration) = chosen[start - duration]
    BY DEF PreviousStart, hits, jump
  <1> HIDE DEF chosen
  <1>11. \A t \in Int : chosen[t] = IF hits(t) = {} THEN t ELSE chosen[jump(t)]
    BY <1>9
  <1>12. \A t \in Int : chosen[t] = best[t]
    <2> DEFINE T == {t \in Int : chosen[t] # best[t]}
    <2>1. SUFFICES ASSUME T # {} PROVE FALSE
      OBVIOUS
    <2>2. \A t \in T : bound <= t
      BY <1>4, <1>6, <1>11
    <2>3. PICK t \in T : \A u \in T : t <= u
      <3>1. T \subseteq Int
        OBVIOUS
      <3> HIDE DEF T
      <3> QED
        BY <1>4, <2>1, <2>2, <3>1, LeastExists
    <2>4. hits(t) # {}
      BY <1>6, <1>11, <2>3
    <2>5. jump(t) \in Int /\ jump(t) < t
      BY <1>2, <2>4
    <2>6. jump(t) \notin T
      BY <2>3, <2>5
    <2>7. chosen[t] = chosen[jump(t)] /\ best[t] = best[jump(t)]
      BY <1>7, <1>11, <2>4
    <2> QED
      BY <2>3, <2>5, <2>6, <2>7
  <1> DEFINE found == PreviousStart(busy, start, duration)
  <1>13. start - duration \in Int /\ found = best[start - duration]
    BY <1>10, <1>12
  <1> HIDE DEF found
  <1>14. found \in Int /\ found <= start - duration /\ hits(found) = {}
    BY <1>5, <1>13
  <1>15. \A u \in Int : u <= start - duration /\ found < u => hits(u) # {}
    BY <1>5, <1>13, <1>14
  <1> QED
    BY <1>14, <1>15 DEF found, hits
=============================================================================
