--------------------------- MODULE CampaignCommit ---------------------------
(***************************************************************************)
(* The commit protocol of one campaign: HTTP handlers that run             *)
(* concurrently, read the campaign row, the idempotency table, the         *)
(* evidence tables and the audit chain one statement at a time (each its   *)
(* own autocommit read), decide, and write everything in one transaction.  *)
(* Nothing locks a campaign between the reads and the write.  The only     *)
(* fence is the primary key (campaign_id, revision) of audit_events: a     *)
(* handler inserts the event of the revision after the one it read.        *)
(*                                                                         *)
(* Abstracted: which of the some twenty mutating endpoints a WRITE is, and *)
(* the domain rule by which it may be refused (Lifecycle models both); the *)
(* campaign's JSON is the sequence of requests folded into it, a table is  *)
(* the set of revisions that inserted a row into it, and a digest is the   *)
(* very history it hashes.                                                 *)
(***************************************************************************)
EXTENDS Naturals, Sequences, FiniteSets

CONSTANTS Handler,      \* requests that can be in flight at once
          Kind,         \* the kinds of request clients send
          IfMatch,      \* the revisions they expect; 0 is none
          Key, NoKey,   \* Idempotency-Key values; the header left out
          Hash,         \* digests of request bodies
          Table,        \* evidence tables ("rounds", "deviations", ...)
          MaxRevision,  \* bound: no request is received at this revision
          Nil

ASSUME ConstantsAssumption ==
  /\ NoKey \notin Key
  /\ MaxRevision \in Nat
  /\ Kind \subseteq {"WRITE", "SIGN", "ARCHIVE", "SNAPSHOT", "PIN", "VERIFY"}
  /\ IfMatch \subseteq Nat /\ 0 \in IfMatch
  /\ "audit_events" \notin Table

VARIABLES
  campaign,   \* the campaigns row: [revision, content, state]
  evidence,   \* table -> revisions whose transaction inserted a row
  events,     \* audit_events rows: [revision, op, previous, digest]
  idem,       \* idem rows: [key, hash]
  artifact,   \* the artifacts row, or Nil
  snapshots,  \* review_snapshots rows: [revision, content, view]
  pc,         \* where each handler is
  loc         \* local variables of each handler

database == <<campaign, evidence, events, idem, artifact, snapshots>>
vars == <<campaign, evidence, events, idem, artifact, snapshots, pc, loc>>

-----------------------------------------------------------------------------
(* Requests and rows *)

Writers == {"WRITE", "SIGN", "ARCHIVE"}   \* commit an event
Readers == {"SNAPSHOT", "PIN", "VERIFY"}  \* commit none

Ops == [kind : {"CREATE"} \cup Writers \cup Readers, key : Key \cup {NoKey},
        hash : Hash, ifMatch : IfMatch]

Digest == Seq(Ops)
Row == [revision : Nat, content : Seq(Ops), state : {"OPEN", "ARCHIVED"}]
View == [Table -> SUBSET Nat]
Event == [revision : Nat, op : Ops, previous : Digest, digest : Digest]
IdemRow == [key : Key, hash : Hash]
Artifact == [content : Seq(Ops), view : View, head : Digest]
ReviewSnapshot == [revision : Nat, content : Seq(Ops), view : View]
Unread == SUBSET (Table \cup {"audit_events"})

\* The tables whose failing read a request takes for an answer: the handler
\* drops the error and goes on with the rows it got.  A WRITE is any command,
\* and drops what one of them does (Measure and Evaluate, AddPlans, Review).
Dropping ==
  [WRITE |-> {"sample_exclusions", "remediation_plans", "reviews"},
   SIGN |-> {"reviews"},
   ARCHIVE |-> {"device_baselines", "remediation_evidence", "sample_exclusions"},
   SNAPSHOT |-> {"remediation_plans"},
   PIN |-> {"remediation_plans"},
   VERIFY |-> {"device_baselines", "remediation_evidence", "sample_exclusions"}]

ASSUME NilIsNoArtifact == Nil \notin Artifact

\* op's event after the chain whose last digest is previous.
NewEvent(revision, op, previous) ==
  [revision |-> revision, op |-> op, previous |-> previous,
   digest |-> Append(previous, op)]

\* The last digest of the chain, "" (here <<>>) when there is no event.
HeadDigest(es) ==
  IF es = {} THEN <<>>
  ELSE (CHOOSE e \in es : \A f \in es : f.revision <= e.revision).digest

\* Revisions run from 1 to revision without a gap, each event names its
\* predecessor's digest, and its own digest is that of its fields.
ValidateDetailed(es, revision) ==
  /\ {e.revision : e \in es} = 1..revision
  /\ \A e \in es :
       /\ e.digest = Append(e.previous, e.op)
       /\ e.revision = 1 => e.previous = <<>>
       /\ \A f \in es : e.revision = f.revision + 1 => e.previous = f.digest

Steps == {"idle", "artifact", "campaign", "replay", "snapshot", "lookup",
          "read", "commit", "done"}

Idle ==
  [op |-> Nil, row |-> Nil, label |-> 0, view |-> [t \in Table |-> {}],
   unread |-> {}, previous |-> <<>>, artifact |-> Nil, outcome |-> "none"]

Locals ==
  [op : Ops \cup {Nil}, row : Row \cup {Nil}, label : Nat, view : View,
   unread : Unread, previous : Digest, artifact : Artifact \cup {Nil},
   outcome : {"none", "ok", "replayed", "refused", "archived", "conflict",
              "key conflict", "stale snapshot", "unique", "integrity",
              "mismatch", "failed"}]

TypeOK ==
  /\ campaign \in Row
  /\ evidence \in View
  /\ events \in SUBSET Event
  /\ idem \in SUBSET IdemRow
  /\ artifact \in Artifact \cup {Nil}
  /\ snapshots \in SUBSET ReviewSnapshot
  /\ pc \in [Handler -> Steps]
  /\ loc \in [Handler -> Locals]

Init ==
  /\ \E op \in Ops :
       /\ op.kind = "CREATE" /\ op.key = NoKey /\ op.ifMatch = 0
       /\ campaign = [revision |-> 1, content |-> <<op>>, state |-> "OPEN"]
       /\ events = {NewEvent(1, op, <<>>)}
  /\ evidence = [t \in Table |-> {}]
  /\ idem = {}
  /\ artifact = Nil
  /\ snapshots = {}
  /\ pc = [h \in Handler |-> "idle"]
  /\ loc = [h \in Handler |-> Idle]
-----------------------------------------------------------------------------
(* Steps of a handler.  Each reads or writes the database at most once. *)

\* Requests a client may send: only a writer that is not the archive has an
\* Idempotency-Key, only a writer expects a revision.
Requests ==
  {op \in Ops :
     /\ op.kind \in Kind
     /\ op.kind \in Readers \cup {"ARCHIVE"} => op.key = NoKey
     /\ op.kind \in Readers => op.ifMatch = 0}

\* Handler h goes on at step with its local fields changed to those of new.
Goto(h, step, new) ==
  /\ pc' = [pc EXCEPT ![h] = step]
  /\ loc' = [loc EXCEPT ![h] = new]

\* Handler h answers its client.
Answer(h, outcome) ==
  Goto(h, "done", [Idle EXCEPT !.op = loc[h].op, !.outcome = outcome])

\* A request arrives: a new one, or the retry of one whose answer was lost.
Receive(h, op) ==
  /\ pc[h] = "idle"
  /\ op.kind \in Writers => campaign.revision < MaxRevision
  /\ Goto(h, IF op.kind = "VERIFY" THEN "artifact" ELSE "campaign",
          [Idle EXCEPT !.op = op])
  /\ UNCHANGED database

\* VerifySection loads the artifact before anything else.
ReadArtifact(h) ==
  /\ pc[h] = "artifact"
  /\ IF artifact = Nil
     THEN Answer(h, "refused")
     ELSE Goto(h, "campaign", [loc[h] EXCEPT !.artifact = artifact])
  /\ UNCHANGED database

\* GetCampaign.  Some handlers refuse an archived campaign before they look
\* for a replay.  CreateReviewSnapshot refuses, for a reason of its own, a
\* campaign that is not pending or that the reviewer has not claimed; it
\* remembers the revision it saw, and reads the campaign a second time.
ReadCampaign(h) ==
  /\ pc[h] = "campaign"
  /\ LET kind == loc[h].op.kind
         read == [loc[h] EXCEPT !.row = campaign,
                                !.unread = Table \cup {"audit_events"}]
     IN  \/ kind \in Writers /\ Goto(h, "replay", read)
         \/ kind \in Writers /\ campaign.state = "ARCHIVED" /\ Answer(h, "archived")
         \/ kind \in {"SNAPSHOT", "VERIFY"} /\ Goto(h, "read", read)
         \/ kind = "PIN" /\ campaign.state # "ARCHIVED"
            /\ Goto(h, "snapshot", [read EXCEPT !.label = campaign.revision])
         \/ kind = "PIN" /\ Answer(h, "refused")
  /\ UNCHANGED database

\* The second read of the campaign, by SnapshotForDevice.
ReadCampaignAgain(h) ==
  /\ pc[h] = "snapshot"
  /\ Goto(h, "read", [loc[h] EXCEPT !.row = campaign])
  /\ UNCHANGED database

\* check: the client's If-Match, when there is one, is the revision read.
ExpectedIgnored(op, row) == TRUE   \* Mutant: If-Match is not looked at.
Expected(op, row) == op.ifMatch \in {0, row.revision}

\* replay, then check: an If-Match that no longer holds, an archived campaign.
\* A review that names a snapshot digest goes on to look the snapshot up.
Replay(h) ==
  /\ pc[h] = "replay"
  /\ LET op == loc[h].op
         row == loc[h].row
         old == {i \in idem : i.key = op.key}
     IN  \/ (\E i \in old : i.hash # op.hash) /\ Answer(h, "key conflict")
         \/ (\E i \in old : i.hash = op.hash) /\ Answer(h, "replayed")
         \/ /\ old = {}
            /\ ~Expected(op, row)
            /\ Answer(h, "conflict")
         \/ /\ old = {}
            /\ Expected(op, row)
            /\ row.state = "ARCHIVED"
            /\ Answer(h, "archived")
         \/ /\ old = {}
            /\ Expected(op, row)
            /\ row.state = "OPEN"
            /\ Goto(h, IF op.kind = "SIGN" THEN "lookup" ELSE "read", loc[h])
  /\ UNCHANGED database

\* A snapshot is stored for the revision the review is about to be made at.
PinnedAnywhere(row) == snapshots # {}   \* Mutant: any revision will do.
Pinned(row) == \E s \in snapshots : s.revision = row.revision

\* The review_snapshots row of the revision in hand.  The reviewer signs a
\* digest obtained earlier, which the stored one may or may not equal.  A
\* failing look-up is no error: the review is answered as if the digest were
\* another, the snapshot made as if there were none.
LookupSnapshot(h) ==
  /\ pc[h] = "lookup"
  /\ IF loc[h].op.kind = "SIGN"
     THEN \/ Answer(h, "stale snapshot")
          \/ /\ Pinned(loc[h].row)
             /\ Goto(h, "read", loc[h])
     ELSE \/ (\E s \in snapshots : s.revision = loc[h].label) /\ Answer(h, "ok")
          \/ Goto(h, "commit", loc[h])
  /\ UNCHANGED database

\* What a handler does once nothing is left to read.
AfterReading(h, read) ==
  \/ read.unread # {} /\ Goto(h, "read", read)
  \/ /\ read.unread = {}
     /\ \/ read.op.kind \in Writers /\ Goto(h, "commit", read)
        \/ read.op.kind = "PIN" /\ Goto(h, "lookup", read)
        \/ /\ read.op.kind = "SNAPSHOT"
           /\ Goto(h, "done", [read EXCEPT !.outcome = "ok"])
        \/ /\ read.op.kind = "VERIFY"
           /\ Goto(h, "done", [read EXCEPT !.outcome =
                IF /\ read.artifact.content = read.row.content
                   /\ read.artifact.view = read.view
                THEN "ok" ELSE "mismatch"])

\* Each handler reads the tables in an order of its own; Snapshot reads the
\* audit chain after all of them, VerifySection before.
MayReadTable(h) ==
  loc[h].op.kind = "VERIFY" => "audit_events" \notin loc[h].unread

\* A statement that read table t returned the rows of these revisions.
Rows(h, t, revisions) ==
  /\ pc[h] = "read"
  /\ t \in loc[h].unread
  /\ MayReadTable(h)
  /\ AfterReading(h, [loc[h] EXCEPT !.view[t] = revisions,
                                    !.unread = @ \ {t}])
  /\ UNCHANGED database

ReadTable(h, t) == Rows(h, t, evidence[t])

\* The statement failed at once or part way, and nobody looks at the error.
ReadPart(h, t) ==
  /\ pc[h] = "read"
  /\ t \in Dropping[loc[h].op.kind]
  /\ \E part \in SUBSET evidence[t] : Rows(h, t, part)

\* Writers (newEvent) take the last digest; readers validate the whole chain
\* against the revision of the row they hold.
MayReadAuditEarly(h) == TRUE   \* Mutant: the chain is validated at any time.
MayReadAudit(h) ==
  loc[h].op.kind \in {"SNAPSHOT", "PIN"} => loc[h].unread = {"audit_events"}

ReadAudit(h) ==
  /\ pc[h] = "read"
  /\ "audit_events" \in loc[h].unread
  /\ MayReadAudit(h)
  /\ LET kind == loc[h].op.kind
         valid == kind \in Readers => ValidateDetailed(events, loc[h].row.revision)
         agrees == kind = "VERIFY" => HeadDigest(events) = loc[h].artifact.head
     IN  \/ ~(valid /\ agrees) /\ Answer(h, "integrity")
         \/ /\ valid /\ agrees
            /\ AfterReading(h, [loc[h] EXCEPT !.previous = HeadDigest(events),
                                              !.unread = @ \ {"audit_events"}])
  /\ UNCHANGED database

\* Some domain rule refuses the request (Lifecycle models the rules).
Refuse(h) ==
  /\ pc[h] = "read"
  /\ loc[h].op.kind \in Writers
  /\ Answer(h, "refused")
  /\ UNCHANGED database

\* PRIMARY KEY(campaign_id, revision) of audit_events and PRIMARY KEY
\* (request_id) of idem: the insertions that fail because of what is stored.
\* (An evidence table's own key, of an id that is taken, is under Fail.)
NoFence(event) == TRUE   \* Mutant: no key on the audit events.
UniqueEvent(event) == \A e \in events : e.revision # event.revision
UniqueKey(op) == op.key # NoKey => \A i \in idem : i.key # op.key

\* Every command adds one to the revision it read.
SameRevision(row) == row.revision   \* Mutant: Revision++ forgotten.
NextRevision(row) == row.revision + 1

\* Mutant: the archive leaves the state as it was.
UpdatedUnsealed(row, op) ==
  [revision |-> NextRevision(row), content |-> Append(row.content, op),
   state |-> row.state]

\* Mutant: the archive stores its action's name where the state's belongs.
UpdatedMisnamed(row, op) ==
  [revision |-> NextRevision(row), content |-> Append(row.content, op),
   state |-> IF op.kind = "ARCHIVE" THEN op.kind ELSE row.state]

\* The row a writer computed from the one it read.
Updated(row, op) ==
  [revision |-> NextRevision(row), content |-> Append(row.content, op),
   state |-> IF op.kind = "ARCHIVE" THEN "ARCHIVED" ELSE row.state]

\* Mutant: rows inserted before the failing statement stay.
KeepRows(h) ==
  /\ evidence' = [t \in Table |-> evidence[t] \cup
                    (IF pc[h] = "commit" THEN {NextRevision(loc[h].row)} ELSE {})]
  /\ UNCHANGED <<campaign, events, idem, artifact, snapshots>>
\* What a transaction leaves of a failed commit: nothing.
Rollback(h) == UNCHANGED database

\* A handler whose insertion failed gives up: it neither reads again nor waits.
RetrySameRow(h) == Goto(h, "commit", loc[h])   \* Mutant: it tries once more.
Overtaken(h) == Answer(h, "unique")

\* Store.Commit: one transaction, that a failed insertion rolls back whole.
\* The campaign row is written whatever it holds by then.
Commit(h) ==
  /\ pc[h] = "commit"
  /\ loc[h].op.kind \in Writers
  /\ LET op == loc[h].op
         row == loc[h].row
         event == NewEvent(NextRevision(row), op, loc[h].previous)
     IN  \/ /\ UniqueEvent(event) /\ UniqueKey(op)
            /\ campaign' = Updated(row, op)
            /\ events' = events \cup {event}
            /\ idem' = IF op.key = NoKey THEN idem
                       ELSE idem \cup {[key |-> op.key, hash |-> op.hash]}
            /\ \E written \in IF op.kind = "ARCHIVE" THEN {{}} ELSE SUBSET Table :
                 evidence' = [t \in Table |-> IF t \in written
                                THEN evidence[t] \cup {event.revision} ELSE evidence[t]]
            /\ artifact' = IF op.kind = "ARCHIVE"
                           THEN [content |-> Append(row.content, op),
                                 view |-> loc[h].view, head |-> event.digest]
                           ELSE artifact
            /\ UNCHANGED snapshots
            /\ Answer(h, "ok")
         \/ /\ ~(UniqueEvent(event) /\ UniqueKey(op))
            /\ Overtaken(h)
            /\ Rollback(h)

\* Store.Commit of a review snapshot alone: no campaign row, no event.  That
\* its own key (campaign_id, revision) is taken is not reported.
CommitSnapshot(h) ==
  /\ pc[h] = "commit"
  /\ loc[h].op.kind = "PIN"
  /\ snapshots' = IF \E s \in snapshots : s.revision = loc[h].label THEN snapshots
       ELSE snapshots \cup {[revision |-> loc[h].label,
                            content |-> loc[h].row.content, view |-> loc[h].view]}
  /\ Answer(h, "ok")
  /\ UNCHANGED <<campaign, evidence, events, idem, artifact>>

\* A statement or the transaction fails for a reason of its own (the file is
\* locked, the disk full, an evidence id taken) and the handler gives up: at
\* any step but those where it does not look at the error.
Fail(h) ==
  /\ pc[h] \notin {"idle", "lookup", "done"}
  /\ pc[h] = "read" => ~(loc[h].unread \subseteq Dropping[loc[h].op.kind])
  /\ Answer(h, "failed")
  /\ Rollback(h)

\* The answer reaches the client, or is lost on the way.
Reply(h) ==
  /\ pc[h] = "done"
  /\ Goto(h, "idle", Idle)
  /\ UNCHANGED database

\* The process dies and is started again: what is not committed is gone.
Crash ==
  /\ pc' = [h \in Handler |-> "idle"]
  /\ loc' = [h \in Handler |-> Idle]
  /\ UNCHANGED database

Step(h) ==
  \/ ReadArtifact(h) \/ ReadCampaign(h) \/ ReadCampaignAgain(h) \/ Replay(h)
  \/ LookupSnapshot(h) \/ (\E t \in Table : ReadTable(h, t)) \/ ReadAudit(h)
  \/ Refuse(h) \/ Commit(h) \/ CommitSnapshot(h) \/ Reply(h)

Next ==
  \/ \E h \in Handler :
       \/ Step(h)
       \/ \E t \in Table : ReadPart(h, t)
       \/ Fail(h)
       \/ \E op \in Requests : Receive(h, op)
  \/ Crash

Spec == Init /\ [][Next]_vars

\* Goroutines are scheduled and the store's mutex is handed over, so a handler
\* that can take a step takes one.  Nothing is assumed of clients, failures or crashes.
Fairness == \A h \in Handler : WF_vars(Step(h))

FairSpec == Spec /\ Fairness
-----------------------------------------------------------------------------
(* Safety *)

Upto(n) == SubSeq(campaign.content, 1, n)
RowsUpto(t, n) == {r \in evidence[t] : r <= n}

\* The audit chain of the stored campaign is complete at every moment: the
\* check every reader makes can fail only for a reader whose own row is old.
AuditChain ==
  /\ ValidateDetailed(events, campaign.revision)
  /\ HeadDigest(events) = campaign.content

\* A row of evidence is there only if the revision that wrote it is, and a
\* write that a concurrent one overtook leaves nothing behind.
NoOrphanEvidence ==
  \A t \in Table : \A r \in evidence[t] :
    \E e \in events : e.revision = r /\ e.op.kind \in {"WRITE", "SIGN"}

\* view has of table t exactly these rows, or only some of them where a request
\* of that kind does not notice that its read failed.
Shows(kind, view, t, rows) ==
  view[t] \subseteq rows /\ (t \notin Dropping[kind] => view[t] = rows)

\* An answered snapshot is the database as it was at one revision, although
\* its tables were read one by one while others committed: no row is later, and
\* none is missing but plans, whose failing read goes unnoticed.
SnapshotConsistent ==
  \A h \in Handler :
    pc[h] = "done" /\ loc[h].op.kind = "SNAPSHOT" /\ loc[h].outcome = "ok" =>
      LET row == loc[h].row
      IN  /\ row.content = Upto(row.revision)
          /\ \A t \in Table :
               Shows("SNAPSHOT", loc[h].view, t, RowsUpto(t, row.revision))

\* A review that names a snapshot digest was applied to what that snapshot
\* shows, whatever was committed while it was made and signed.  What it shows
\* is all there was, but for plans (as in SnapshotConsistent).
SignedWhatWasShown ==
  \A e \in events : e.op.kind = "SIGN" =>
    \E s \in snapshots :
      /\ s.revision = e.revision - 1
      /\ s.content = Upto(s.revision)
      /\ \A t \in Table : Shows("PIN", s.view, t, RowsUpto(t, s.revision))

\* The artifact holds the final digest and all evidence there will ever be of
\* each table whose read the archive checks; of the three others it may lack
\* rows for good.
ArtifactComplete ==
  IF campaign.state = "ARCHIVED"
  THEN /\ artifact # Nil
       /\ \A t \in Table : Shows("ARCHIVE", artifact.view, t, evidence[t])
       /\ artifact.content = campaign.content
       /\ artifact.head = HeadDigest(events)
  ELSE artifact = Nil

\* Verification of an artifact never fails because of when it is done: it
\* reports no broken chain, and a mismatch only if the artifact or the
\* verification itself lacks rows that a failed read left out unnoticed.
MismatchIsShortRead ==
  \A h \in Handler :
    pc[h] = "done" /\ loc[h].op.kind = "VERIFY" =>
      /\ loc[h].outcome # "integrity"
      /\ loc[h].outcome = "mismatch" =>
           \E t \in Table :
             \/ t \in Dropping["ARCHIVE"] /\ artifact.view[t] # evidence[t]
             \/ t \in Dropping["VERIFY"] /\ loc[h].view[t] # evidence[t]

-----------------------------------------------------------------------------
(* What a step may never do *)

Committing(h) ==
  pc[h] = "commit" /\ loc[h].op.kind \in Writers /\ pc'[h] = "done"

\* A decision that is committed was made on rows that are all still current;
\* rows are missing from it only of tables whose failing read goes unnoticed.
FreshDecision ==
  [][\A h \in Handler : Committing(h) /\ loc'[h].outcome = "ok" =>
       /\ loc[h].row = campaign
       /\ \A t \in Table : Shows(loc[h].op.kind, loc[h].view, t, evidence[t])
       /\ loc[h].previous = HeadDigest(events)]_vars

\* A writer is turned away by one of the two keys only because another one
\* committed since it read.
NoSpuriousConflict ==
  [][\A h \in Handler : Committing(h) /\ loc'[h].outcome = "unique" =>
       campaign.revision > loc[h].row.revision]_vars

\* The concurrent handlers implement the atomic log.
Log == INSTANCE CampaignLog WITH
         log <- campaign.content, sealed <- campaign.state = "ARCHIVED"
ImplementsLog == Log!LogSpec

-----------------------------------------------------------------------------
(* Liveness *)

\* Every request that has arrived is answered or lost in a crash.
Answered ==
  \A h \in Handler : pc[h] # "idle" ~> pc[h] \in {"done", "idle"}

-----------------------------------------------------------------------------
(* What the documentation says and the code does not do *)

\* README: "the same request is replayed safely".  A request whose key and
\* body are those of a committed one is never answered with an error.
SameRequestReplayed ==
  [][\A h \in Handler : Committing(h) /\ loc'[h].outcome = "unique" =>
       ~\E i \in idem : i.key = loc[h].op.key /\ i.hash = loc[h].op.hash]_vars
=============================================================================
