----------------------------- MODULE CampaignLog -----------------------------
(***************************************************************************)
(* What the service promises of one campaign: an append-only log of        *)
(* requests, each applied to exactly the state its predecessors left, at   *)
(* most once per idempotency key, and none after the archive.  Every step  *)
(* is atomic here; CampaignCommit shows how handlers that run concurrently *)
(* and touch the database several times implement it.                      *)
(***************************************************************************)
EXTENDS Naturals, Sequences

CONSTANTS Ops,    \* what a request asks for: [kind, key, hash, ifMatch]
          NoKey   \* the key of a request that carries no Idempotency-Key

VARIABLES log,    \* the requests applied so far, the creation first
          sealed  \* the campaign is archived

logVars == <<log, sealed>>

LogTypeOK ==
  /\ log \in Seq(Ops)
  /\ sealed \in BOOLEAN

LogInit ==
  /\ \E op \in Ops : log = <<op>>
  /\ sealed = FALSE

\* The key of op has not been used by an earlier request of this campaign.
FreshKey(op) ==
  op.key # NoKey => \A i \in 1..Len(log) : log[i].key # op.key

\* op names the revision it expects, and that is the one it is applied to.
ExpectedRevision(op) ==
  op.ifMatch # 0 => op.ifMatch = Len(log)

Apply(op) ==
  /\ ~sealed
  /\ ExpectedRevision(op)
  /\ log' = Append(log, op)
  /\ FreshKey(op)
  /\ sealed' = (op.kind = "ARCHIVE")

LogNext == \E op \in Ops : Apply(op)

LogSpec == LogInit /\ [][LogNext]_logVars
=============================================================================
