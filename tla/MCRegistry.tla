----------------------------- MODULE MCRegistry -----------------------------
(* Registry on a small instance. *)
EXTENDS Registry, TLC

CONSTANTS s1, s2, d1, d2, i1, i2, i3, i4, j1, j3, w, x, y, z, p1

\* Three windows of the same resources, one after the other, of which the first
\* two leave a gap if the one between them is not booked, and inside the longest
\* one of others: a question about s1 and d2 runs into all of them.
MCAsked ==
  {[station |-> s1, devices |-> {d1}, start |-> 0, end |-> 1],
   [station |-> s1, devices |-> {d1}, start |-> 2, end |-> 5],
   [station |-> s1, devices |-> {d1}, start |-> 1, end |-> 2],
   [station |-> s2, devices |-> {d2}, start |-> 3, end |-> 4]}

Certificate(id, digest, kind, from, until) ==
  [id |-> id, digest |-> digest, kind |-> kind, provider |-> p1, from |-> from, until |-> until]

\* Clock evidence for all windows and for the middle of the longest, and
\* frequency evidence.
MCOffered ==
  {Certificate(i1, x, "clock", 0, 5), Certificate(i2, y, "clock", 3, 4),
   Certificate(i3, z, "frequency", 0, 5)}

\* Other candidates contradict what may be in use elsewhere, have the source of
\* one that is offered, or just its id.
MCCandidates ==
  MCOffered \cup {Certificate(i4, x, "clock", 1, 5), Certificate(i4, w, "clock", 0, 5),
                 Certificate(i2, w, "clock", 2, 5)}

MCQuestions ==
  {b \in [station : {s1}, devices : {{d1}, {d2}}, start : 0 .. 3, end : 1 .. 5] :
     b.end - b.start \in {1, 2}}

\* One campaign has been archived already, as it is after its four commands, on
\* evidence which nobody submits under those ids again; the
\* events that are left are enough to archive a successor and to succeed that.
FirstBooking == [station |-> s1, devices |-> {d1}, start |-> 0, end |-> 1]

SeededInit ==
  \E c \in Campaign :
    /\ campaigns = [d \in Campaign |->
         IF d = c THEN [booking |-> FirstBooking, state |-> "ARCHIVED", revision |-> 4,
                        predecessor |-> Nil]
         ELSE Nil]
    /\ tables = [d \in Campaign |->
         IF d = c THEN [Empty EXCEPT !.references = {Certificate(j1, x, "clock", 0, 5),
                                                     Certificate(j3, z, "frequency", 0, 5)},
                                     !.measured = TRUE]
         ELSE Empty]
    /\ events = [d \in Campaign |-> IF d = c THEN 1 .. 4 ELSE {}]
    /\ pending = [h \in Handler |-> Nil]

SeededSpec == SeededInit /\ [][Next]_vars

Symmetry == Permutations(Campaign)
=============================================================================
