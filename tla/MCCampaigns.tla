---------------------------- MODULE MCCampaigns ----------------------------
(* Campaigns on a small instance. *)
EXTENDS Campaigns, TLC

CONSTANTS s1, s2, d1, d2, i1, i2, i3, i4, x, y, z, p1

\* The first two share station s1 at time 1, the last two device d2 at time 2;
\* the first and the third share d1, but one ends when the other begins.
MCAsked ==
  {[station |-> s1, devices |-> {d1}, start |-> 0, end |-> 2],
   [station |-> s1, devices |-> {d2}, start |-> 1, end |-> 3],
   [station |-> s2, devices |-> {d1, d2}, start |-> 2, end |-> 3]}

\* Two clock certificates under one digest, one for the first of these
\* windows and one for the others; two frequency certificates, one for all
\* windows and one for the first, of which each may correct the other.
MCOffered ==
  {[id |-> i1, digest |-> x, kind |-> "clock", provider |-> p1, from |-> 0, until |-> 2],
   [id |-> i2, digest |-> x, kind |-> "clock", provider |-> p1, from |-> 1, until |-> 3],
   [id |-> i3, digest |-> y, kind |-> "frequency", provider |-> p1, from |-> 0, until |-> 3],
   [id |-> i4, digest |-> z, kind |-> "frequency", provider |-> p1, from |-> 0, until |-> 2]}

Symmetry == Permutations(Campaign) \cup Permutations(Handler)
=============================================================================
