------------------------------ MODULE Calendar ------------------------------
(***************************************************************************)
(* What the booking of stations and devices promises, with every operation *)
(* done at once: a campaign holds a set of slots, each a resource at a     *)
(* moment, that nobody else holds; it may exchange its slots for others or *)
(* give them back, until it has used them.                                 *)
(***************************************************************************)
CONSTANTS Campaign,
          Allotments  \* the sets of slots that can be held together

VARIABLES held,  \* campaign -> the slots it holds
          used   \* campaigns that have measured in theirs

Free(c, slots) == \A d \in Campaign \ {c} : held[d] \cap slots = {}

Book(c, slots) ==
  /\ c \notin used
  /\ Free(c, slots)
  /\ held' = [held EXCEPT ![c] = slots]
  /\ UNCHANGED used

Release(c) ==
  /\ c \notin used
  /\ held' = [held EXCEPT ![c] = {}]
  /\ UNCHANGED used

Use(c) ==
  /\ held[c] # {}
  /\ used' = used \cup {c}
  /\ UNCHANGED held

Init == held = [c \in Campaign |-> {}] /\ used = {}

Next ==
  \E c \in Campaign :
    (\E slots \in Allotments : Book(c, slots)) \/ Release(c) \/ Use(c)

Spec == Init /\ [][Next]_<<held, used>>
=============================================================================
