------------------------ MODULE CampaignReadersProofs ------------------------
(***************************************************************************)
(* Proofs of what the readers of CampaignCommit are told: snapshots, signed*)
(* snapshots, the artifact and its verification.                           *)
(*                                                                         *)
(* They rest on evidence being written once: rows of revision r are stored *)
(* with the campaign's revision r and never after, so a table read while   *)
(* the campaign is at revision n or later has all rows up to n, and those  *)
(* beyond n, if any, betray themselves: the chain, read last, is longer.   *)
(***************************************************************************)
EXTENDS CampaignCommitProofs

-----------------------------------------------------------------------------
(* The inductive invariant *)

\* Table by table, what is in hand has been stored, and is all there is up to
\* the revision of the row in hand, where a failing read does not go unnoticed.
Agrees(l) ==
  \A t \in Table \ l.unread :
    /\ l.view[t] \subseteq evidence[t]
    /\ t \notin Dropping[l.op.kind] =>
         \A r \in evidence[t] : r <= l.row.revision => r \in l.view[t]

\* Nothing in hand is later than the row in hand.
Whole(l) == \A t \in Table : \A r \in l.view[t] : r <= l.row.revision

Holding == {"replay", "snapshot", "lookup", "read", "commit"}

\* A snapshot that was answered.
Finished(step, l) == step = "done" /\ l.op.kind = "SNAPSHOT" /\ l.outcome = "ok"

\* A verification that reported a mismatch.
Alarmed(step, l) == step = "done" /\ l.op.kind = "VERIFY" /\ l.outcome = "mismatch"

\* The artifact, or what was read to verify it, lacks rows of a table whose
\* failing read goes unnoticed.
ShortRead(view) ==
  \E t \in Table :
    \/ t \in Dropping["ARCHIVE"] /\ artifact.view[t] # evidence[t]
    \/ t \in Dropping["VERIFY"] /\ view[t] # evidence[t]

ReaderInv(step, l) ==
  /\ step \in Holding \/ Finished(step, l) =>
       /\ l.row \in Row
       /\ l.row.revision <= campaign.revision
       /\ l.row.content = Upto(l.row.revision)
       /\ Agrees(l)
       /\ l.op.kind \in {"SNAPSHOT", "PIN"} /\ "audit_events" \notin l.unread =>
            l.unread = {} /\ Whole(l)
  /\ Finished(step, l) => l.unread = {}
  /\ step = "snapshot" =>
       l.op.kind = "PIN" /\ l.unread = Table \cup {"audit_events"}
  /\ step \in Holding /\ l.op.kind = "PIN" => l.label <= l.row.revision
  /\ step \in {"read", "commit"} /\ l.op.kind = "SIGN" =>
       \E s \in snapshots : s.revision = l.row.revision
  /\ step \in {"lookup", "read", "commit"} /\ l.op.kind \in Writers /\ l.row = campaign =>
       UniqueKey(l.op)
  /\ step \in {"campaign", "read"} /\ l.op.kind = "VERIFY" =>
       /\ campaign.state = "ARCHIVED"
       /\ l.artifact = artifact
       /\ step = "read" => l.row = campaign
  /\ Alarmed(step, l) => campaign.state = "ARCHIVED" /\ ShortRead(l.view)
  /\ step = "done" /\ l.op.kind = "VERIFY" => l.outcome # "integrity"

\* What was sealed is what is stored.
Sealed ==
  IF campaign.state = "ARCHIVED"
  THEN /\ artifact # Nil
       /\ \A t \in Table : Shows("ARCHIVE", artifact.view, t, evidence[t])
       /\ artifact.content = campaign.content
       /\ artifact.head = campaign.content
  ELSE artifact = Nil

\* The snapshot of the present revision, if there is one, shows the present.
SnapshotsCurrent ==
  \A s \in snapshots :
    /\ s.revision <= campaign.revision
    /\ s.revision = campaign.revision =>
         /\ s.content = campaign.content
         /\ \A t \in Table : Shows("PIN", s.view, t, evidence[t])

RInv ==
  /\ IInv
  /\ NoOrphanEvidence
  /\ Sealed
  /\ SnapshotsCurrent
  /\ SignedWhatWasShown
  /\ \A h \in Handler : ReaderInv(pc[h], loc[h])

Shared == NoOrphanEvidence /\ Sealed /\ SnapshotsCurrent /\ SignedWhatWasShown

-----------------------------------------------------------------------------
(* Lemmas *)

\* The first n elements of a sequence stay what they are when one is appended.
LEMMA PrefixOfAppend ==
  ASSUME NEW S, NEW s \in Seq(S), NEW x \in S, NEW n \in Nat, n <= Len(s)
  PROVE  SubSeq(Append(s, x), 1, n) = SubSeq(s, 1, n)
  OBVIOUS

\* All elements of a sequence are the sequence.
LEMMA WholePrefix ==
  ASSUME NEW S, NEW s \in Seq(S)
  PROVE  SubSeq(s, 1, Len(s)) = s
  OBVIOUS

\* No row of evidence is later than the campaign.
LEMMA EvidenceIsPast ==
  ASSUME IInv, NoOrphanEvidence, NEW t \in Table, NEW r \in evidence[t]
  PROVE  r \in Nat /\ r <= campaign.revision
  <1>1. PICK e \in events : e.revision = r
    BY DEF NoOrphanEvidence
  <1>2. e.revision \in 1..campaign.revision /\ campaign.revision \in Nat
    BY DEF IInv, Chain, ValidateDetailed, TypeOK, Row
  <1> QED
    BY <1>1, <1>2

\* Of a campaign that was just created there is nothing to read yet.
LEMMA InitRInv == Init => RInv
  <1> SUFFICES ASSUME Init PROVE RInv
    OBVIOUS
  <1>1. PICK op \in Ops :
          /\ op.kind = "CREATE"
          /\ campaign = [revision |-> 1, content |-> <<op>>, state |-> "OPEN"]
          /\ events = {NewEvent(1, op, <<>>)}
    BY DEF Init
  <1>2. Shared
    BY <1>1 DEF Init, Shared, NoOrphanEvidence, Sealed, SnapshotsCurrent,
       SignedWhatWasShown, NewEvent
  <1>3. \A h \in Handler : ReaderInv(pc[h], loc[h])
    BY DEF Init, ReaderInv, Holding, Finished, Alarmed, Idle
  <1> QED
    BY <1>2, <1>3, InitIInv DEF RInv, Shared

\* A step that leaves the database alone keeps the invariant if the handler
\* that takes it ends in a state that satisfies ReaderInv.
LEMMA ReaderStep ==
  ASSUME RInv, IInv', NEW h \in Handler, NEW step, NEW new,
         ReaderInv(step, new), Goto(h, step, new), UNCHANGED database
  PROVE  RInv'
  <1>1. Shared'
    BY DEF RInv, Shared, NoOrphanEvidence, Sealed, SnapshotsCurrent,
       SignedWhatWasShown, Upto, RowsUpto, database
  <1>2. ASSUME NEW g \in Handler PROVE ReaderInv(pc[g], loc[g])'
    <2>1. ReaderInv(pc'[g], loc'[g])
      BY DEF RInv, IInv, TypeOK, Goto
    <2> QED
      BY <2>1 DEF ReaderInv, Agrees, ShortRead, Upto, UniqueKey, database
  <1> QED
    BY <1>1, <1>2 DEF RInv, Shared

\* An answer that is neither a snapshot nor the report of a broken artifact.
LEMMA ReaderAnswer ==
  ASSUME RInv, IInv', NEW h \in Handler, NEW outcome, Answer(h, outcome),
         UNCHANGED database,
         loc[h].op.kind = "SNAPSHOT" => outcome # "ok",
         loc[h].op.kind = "VERIFY" => outcome \notin {"mismatch", "integrity"}
  PROVE  RInv'
  <1> DEFINE new == [Idle EXCEPT !.op = loc[h].op, !.outcome = outcome]
  <1>1. new.op = loc[h].op /\ new.outcome = outcome
    BY DEF Idle
  <1>2. ReaderInv("done", new)
    BY <1>1 DEF ReaderInv, Holding, Finished, Alarmed
  <1> QED
    BY <1>2, ReaderStep DEF Answer

\* The stored row is itself, all of it.
LEMMA RowInHand ==
  IInv => /\ campaign \in Row /\ campaign.revision \in Nat
          /\ campaign.content = Upto(campaign.revision)
  BY WholePrefix DEF IInv, TypeOK, Row, Chain, Upto

\* A request that arrives has nothing in hand.
LEMMA ReceiveReader ==
  ASSUME RInv, IInv', NEW h \in Handler, NEW op \in Requests, Receive(h, op)
  PROVE  RInv'
  <1> DEFINE new == [Idle EXCEPT !.op = op]
             step == IF op.kind = "VERIFY" THEN "artifact" ELSE "campaign"
  <1>1. new.op = op /\ new.outcome = "none"
    BY DEF Idle
  <1>2. ReaderInv(step, new)
    BY <1>1 DEF ReaderInv, Holding, Finished, Alarmed
  <1> QED
    BY <1>2, ReaderStep DEF Receive

\* The artifact exists only of an archived campaign.
LEMMA ReadArtifactReader ==
  ASSUME RInv, IInv', NEW h \in Handler, ReadArtifact(h)
  PROVE  RInv'
  <1> DEFINE new == [loc[h] EXCEPT !.artifact = artifact]
  <1>1. CASE artifact = Nil
    BY <1>1, ReaderAnswer DEF ReadArtifact
  <1>2. CASE artifact # Nil
    <2>1. loc[h] \in Locals /\ ReaderInv("artifact", loc[h])
      BY DEF RInv, IInv, TypeOK, ReadArtifact
    <2>2. /\ new.op = loc[h].op /\ new.outcome = loc[h].outcome
          /\ new.artifact = artifact
      BY <2>1 DEF Locals
    <2>3. campaign.state = "ARCHIVED"
      BY <1>2 DEF RInv, Sealed
    <2>4. ReaderInv("campaign", new)
      BY <2>1, <2>2, <2>3 DEF ReaderInv, Holding, Finished, Alarmed
    <2> QED
      BY <1>2, <2>4, ReaderStep DEF ReadArtifact
  <1> QED
    BY <1>1, <1>2

\* GetCampaign: the row in hand is the stored one, nothing else is read.
LEMMA ReadCampaignReader ==
  ASSUME RInv, IInv', NEW h \in Handler, ReadCampaign(h)
  PROVE  RInv'
  <1> DEFINE read == [loc[h] EXCEPT !.row = campaign,
                                    !.unread = Table \cup {"audit_events"}]
             pinned == [read EXCEPT !.label = campaign.revision]
  <1>1. loc[h] \in Locals /\ ReaderInv("campaign", loc[h])
    BY DEF RInv, IInv, TypeOK, ReadCampaign
  <1>2. /\ read.op = loc[h].op /\ read.outcome = loc[h].outcome
        /\ read.row = campaign /\ read.artifact = loc[h].artifact
        /\ read.unread = Table \cup {"audit_events"}
    BY <1>1 DEF Locals
  <1>3. /\ pinned.op = loc[h].op /\ pinned.outcome = loc[h].outcome
        /\ pinned.row = campaign /\ pinned.label = campaign.revision
        /\ pinned.unread = Table \cup {"audit_events"}
    BY <1>1 DEF Locals
  <1>4. /\ campaign \in Row /\ campaign.revision \in Nat
        /\ campaign.content = Upto(campaign.revision)
    BY RowInHand DEF RInv
  <1> HIDE DEF read, pinned
  <1>5. CASE loc[h].op.kind \in Writers /\ Goto(h, "replay", read)
    <2>1. ReaderInv("replay", read)
      BY <1>1, <1>2, <1>4, <1>5 DEF ReaderInv, Holding, Finished, Alarmed, Agrees, Writers
    <2> QED
      BY <1>5, <2>1, ReaderStep DEF ReadCampaign
  <1>6. CASE loc[h].op.kind \in {"SNAPSHOT", "VERIFY"} /\ Goto(h, "read", read)
    <2>1. ReaderInv("read", read)
      BY <1>1, <1>2, <1>4, <1>6 DEF ReaderInv, Holding, Finished, Alarmed, Agrees, Writers
    <2> QED
      BY <1>6, <2>1, ReaderStep DEF ReadCampaign
  <1>7. CASE loc[h].op.kind = "PIN" /\ Goto(h, "snapshot", pinned)
    <2>1. ReaderInv("snapshot", pinned)
      BY <1>1, <1>3, <1>4, <1>7 DEF ReaderInv, Holding, Finished, Alarmed, Agrees, Writers
    <2> QED
      BY <1>7, <2>1, ReaderStep DEF ReadCampaign
  <1>8. CASE Answer(h, "archived") \/ Answer(h, "refused")
    BY <1>8, ReaderAnswer DEF ReadCampaign
  <1> QED
    BY <1>5, <1>6, <1>7, <1>8 DEF ReadCampaign, read, pinned

\* The second read of the campaign: the label may be older than the row now.
LEMMA ReadCampaignAgainReader ==
  ASSUME RInv, IInv', NEW h \in Handler, ReadCampaignAgain(h)
  PROVE  RInv'
  <1> DEFINE new == [loc[h] EXCEPT !.row = campaign]
  <1>1. loc[h] \in Locals /\ ReaderInv("snapshot", loc[h])
    BY DEF RInv, IInv, TypeOK, ReadCampaignAgain
  <1>2. /\ new.op = loc[h].op /\ new.outcome = loc[h].outcome
        /\ new.row = campaign /\ new.label = loc[h].label
        /\ new.unread = loc[h].unread
    BY <1>1 DEF Locals
  <1>3. /\ campaign \in Row /\ campaign.revision \in Nat
        /\ campaign.content = Upto(campaign.revision)
    BY RowInHand DEF RInv
  <1>4. loc[h].label \in Nat /\ loc[h].row \in Row
    BY <1>1 DEF Locals, ReaderInv, Holding
  <1>5. loc[h].label <= campaign.revision
    BY <1>1, <1>3, <1>4 DEF ReaderInv, Holding, Row
  <1> HIDE DEF new
  <1>6. ReaderInv("read", new)
    BY <1>1, <1>2, <1>3, <1>5 DEF ReaderInv, Holding, Finished, Alarmed, Agrees, Writers
  <1> QED
    BY <1>6, ReaderStep DEF ReadCampaignAgain, new

\* A request that goes on after the look-up has a key that nobody used, as
\* long as nobody commits.
LEMMA ReplayReader ==
  ASSUME RInv, IInv', NEW h \in Handler, Replay(h)
  PROVE  RInv'
  <1>1. /\ loc[h] \in Locals /\ ReaderInv("replay", loc[h])
        /\ loc[h].op.kind \in Writers
    BY DEF RInv, IInv, TypeOK, LocalInv, Replay
  <1>2. CASE \E outcome \in {"key conflict", "replayed", "conflict", "archived"} :
               Answer(h, outcome)
    BY <1>1, <1>2, ReaderAnswer DEF Replay, Writers
  <1>3. CASE /\ {i \in idem : i.key = loc[h].op.key} = {}
             /\ Goto(h, IF loc[h].op.kind = "SIGN" THEN "lookup" ELSE "read", loc[h])
    <2>1. UniqueKey(loc[h].op)
      BY <1>3 DEF UniqueKey
    <2>2. ReaderInv(IF loc[h].op.kind = "SIGN" THEN "lookup" ELSE "read", loc[h])
      BY <1>1, <2>1 DEF ReaderInv, Holding, Finished, Alarmed, Writers
    <2> QED
      BY <1>3, <2>2, ReaderStep DEF Replay
  <1> QED
    BY <1>2, <1>3 DEF Replay

\* A review goes on only if there is a snapshot of the revision in hand.
LEMMA LookupSnapshotReader ==
  ASSUME RInv, IInv', NEW h \in Handler, LookupSnapshot(h)
  PROVE  RInv'
  <1>1. /\ loc[h] \in Locals /\ ReaderInv("lookup", loc[h])
        /\ loc[h].op.kind \in {"SIGN", "PIN"}
    BY DEF RInv, IInv, TypeOK, LocalInv, LookupSnapshot
  <1>2. CASE Answer(h, "stale snapshot") \/ Answer(h, "ok")
    BY <1>1, <1>2, ReaderAnswer DEF LookupSnapshot
  <1>3. CASE loc[h].op.kind = "SIGN" /\ Pinned(loc[h].row) /\ Goto(h, "read", loc[h])
    <2>1. ReaderInv("read", loc[h])
      BY <1>1, <1>3 DEF ReaderInv, Holding, Finished, Alarmed, Writers, Pinned
    <2> QED
      BY <1>3, <2>1, ReaderStep DEF LookupSnapshot
  <1>4. CASE loc[h].op.kind # "SIGN" /\ Goto(h, "commit", loc[h])
    <2>1. ReaderInv("commit", loc[h])
      BY <1>1, <1>4 DEF ReaderInv, Holding, Finished, Alarmed, Writers
    <2> QED
      BY <1>4, <2>1, ReaderStep DEF LookupSnapshot
  <1> QED
    BY <1>2, <1>3, <1>4 DEF LookupSnapshot

\* Of an archived campaign, a table that is in hand and was not read short is
\* the stored one.
LEMMA WholeTable ==
  ASSUME RInv, NEW l, Agrees(l), l.row = campaign, NEW t \in Table \ l.unread
  PROVE  Shows(l.op.kind, l.view, t, evidence[t])
  <1>1. l.view[t] \subseteq evidence[t]
    BY DEF Agrees
  <1>2. ASSUME t \notin Dropping[l.op.kind] PROVE l.view[t] = evidence[t]
    <2>1. \A r \in evidence[t] : r \in l.view[t]
      BY <1>2, EvidenceIsPast DEF Agrees, RInv
    <2> QED
      BY <1>1, <2>1
  <1> QED
    BY <1>1, <1>2 DEF Shows

\* Where the artifact and what was read to verify it differ, one was read short.
LEMMA MismatchExplained ==
  ASSUME RInv, NEW l \in Locals, ReaderInv("read", l), l.op.kind = "VERIFY",
         l.unread = {},
         ~(l.artifact.content = l.row.content /\ l.artifact.view = l.view)
  PROVE  campaign.state = "ARCHIVED" /\ ShortRead(l.view)
  <1>1. /\ campaign.state = "ARCHIVED" /\ l.artifact = artifact /\ l.row = campaign
        /\ Agrees(l)
    BY DEF ReaderInv, Holding
  <1>2. /\ artifact \in Artifact /\ artifact.content = campaign.content
        /\ \A t \in Table : Shows("ARCHIVE", artifact.view, t, evidence[t])
    BY <1>1 DEF RInv, Sealed, IInv, TypeOK
  <1>3. artifact.view \in [Table -> SUBSET Nat] /\ l.view \in [Table -> SUBSET Nat]
    BY <1>2 DEF Artifact, Locals, View
  <1>4. PICK t \in Table : artifact.view[t] # l.view[t]
    BY <1>1, <1>2, <1>3
  <1>5. Shows("VERIFY", l.view, t, evidence[t])
    BY <1>1, WholeTable
  <1>6. CASE artifact.view[t] # evidence[t]
    BY <1>1, <1>2, <1>6 DEF ShortRead, Shows
  <1>7. CASE l.view[t] # evidence[t]
    BY <1>1, <1>5, <1>7 DEF ShortRead, Shows
  <1> QED
    BY <1>4, <1>6, <1>7

\* Reading one more table or the chain: the cases of AfterReading.
LEMMA AfterReadingReader ==
  ASSUME RInv, IInv', NEW h \in Handler, NEW read \in Locals, pc[h] = "read",
         ReaderInv("read", read), read.op = loc[h].op, read.op \in Ops,
         AfterReading(h, read), UNCHANGED database
  PROVE  RInv'
  <1>1. CASE read.unread # {} /\ Goto(h, "read", read)
    BY <1>1, ReaderStep
  <1>2. CASE read.unread = {} /\ read.op.kind \in Writers /\ Goto(h, "commit", read)
    <2>1. ReaderInv("commit", read)
      BY <1>2 DEF ReaderInv, Holding, Finished, Alarmed, Writers
    <2> QED
      BY <1>2, <2>1, ReaderStep
  <1>3. CASE read.unread = {} /\ read.op.kind = "PIN" /\ Goto(h, "lookup", read)
    <2>1. ReaderInv("lookup", read)
      BY <1>3 DEF ReaderInv, Holding, Finished, Alarmed, Writers
    <2> QED
      BY <1>3, <2>1, ReaderStep
  <1>4. CASE /\ read.unread = {} /\ read.op.kind = "SNAPSHOT"
             /\ Goto(h, "done", [read EXCEPT !.outcome = "ok"])
    <2> DEFINE new == [read EXCEPT !.outcome = "ok"]
    <2>1. /\ new.op = read.op /\ new.row = read.row /\ new.view = read.view
          /\ new.unread = read.unread /\ new.outcome = "ok"
      BY DEF Locals
    <2> HIDE DEF new
    <2>2. ReaderInv("done", new)
      BY <1>4, <2>1 DEF ReaderInv, Holding, Finished, Alarmed, Agrees, Whole
    <2> QED
      BY <1>4, <2>2, ReaderStep DEF new
  <1>5. CASE read.unread = {} /\ read.op.kind = "VERIFY"
    <2> DEFINE same == /\ read.artifact.content = read.row.content
                       /\ read.artifact.view = read.view
               outcome == IF same THEN "ok" ELSE "mismatch"
               new == [read EXCEPT !.outcome = outcome]
    <2>1. /\ new.op = read.op /\ new.view = read.view /\ new.outcome = outcome
      BY DEF Locals
    <2>2. ~same => campaign.state = "ARCHIVED" /\ ShortRead(read.view)
      BY <1>5, MismatchExplained
    <2>3. Goto(h, "done", new)
      BY <1>5 DEF AfterReading, Writers
    <2>4. outcome \in {"ok", "mismatch"} /\ (outcome = "mismatch" => ~same)
      OBVIOUS
    <2> HIDE DEF new, same, outcome
    <2>5. ReaderInv("done", new)
      BY <1>5, <2>1, <2>2, <2>4 DEF ReaderInv, Holding, Finished, Alarmed
    <2> QED
      BY <2>3, <2>5, ReaderStep
  <1> QED
    BY <1>1, <1>2, <1>3, <1>4, <1>5 DEF AfterReading

\* Reading an evidence table: it has all rows up to the row in hand, and more
\* only if the campaign is ahead of it; or it was read short.
LEMMA ReadTableReader ==
  ASSUME RInv, IInv', NEW h \in Handler, NEW t \in Table,
         ReadTable(h, t) \/ ReadPart(h, t)
  PROVE  RInv'
  <1>0. PICK part \in SUBSET evidence[t] :
          /\ Rows(h, t, part)
          /\ t \notin Dropping[loc[h].op.kind] => part = evidence[t]
    BY SomeRows
  <1> DEFINE l == loc[h]
             read == [loc[h] EXCEPT !.view[t] = part, !.unread = @ \ {t}]
  <1>1. /\ l \in Locals /\ l.op \in Ops /\ ReaderInv("read", l)
        /\ part \in SUBSET Nat
    BY <1>0 DEF Rows, RInv, IInv, LocalInv, TypeOK, View
  <1>2. /\ read \in Locals /\ read.op = l.op /\ read.row = l.row
        /\ read.outcome = l.outcome /\ read.label = l.label
        /\ read.artifact = l.artifact
        /\ read.unread = l.unread \ {t}
        /\ read.view = [l.view EXCEPT ![t] = part]
    BY <1>1 DEF Locals, View, Unread
  <1>3. l.view \in View /\ t \in l.unread /\ t # "audit_events"
    BY <1>0, <1>1, ConstantsAssumption DEF Locals, Rows
  <1>4. t \notin Dropping[l.op.kind] => part = evidence[t]
    BY <1>0
  <1> HIDE DEF read, l
  <1>5. Agrees(read)
    <2>1. Agrees(l)
      BY <1>1 DEF ReaderInv, Holding
    <2>2. SUFFICES ASSUME NEW u \in Table, u \notin read.unread
                   PROVE  /\ read.view[u] \subseteq evidence[u]
                          /\ u \notin Dropping[read.op.kind] =>
                               \A r \in evidence[u] : r <= read.row.revision =>
                                 r \in read.view[u]
      BY DEF Agrees
    <2>3. CASE u = t
      <3>1. read.view[u] = part
        BY <1>2, <1>3, <2>3 DEF View
      <3> QED
        BY <1>2, <1>4, <2>3, <3>1
    <2>4. CASE u # t
      <3>1. read.view[u] = l.view[u] /\ u \in Table \ l.unread
        BY <1>2, <1>3, <2>2, <2>4 DEF View
      <3> QED
        BY <1>2, <2>1, <3>1 DEF Agrees
    <2> QED
      BY <2>3, <2>4
  <1>6. l.op.kind \in {"SNAPSHOT", "PIN"} => "audit_events" \in read.unread
    BY <1>1, <1>2, <1>3 DEF ReaderInv, Holding
  <1>7. ReaderInv("read", read)
    BY <1>1, <1>2, <1>5, <1>6 DEF ReaderInv, Holding, Finished, Alarmed
  <1>8. AfterReading(h, read) /\ UNCHANGED database /\ pc[h] = "read"
    BY <1>0 DEF Rows, read
  <1>9. read.op = loc[h].op /\ read.op \in Ops
    BY <1>1, <1>2 DEF l
  <1> QED
    BY <1>2, <1>7, <1>8, <1>9, AfterReadingReader

\* Reading the audit chain: it is as long as the row in hand says only if that
\* is still the stored one, and then so is everything that was read before.
LEMMA ReadAuditReader ==
  ASSUME RInv, IInv', NEW h \in Handler, ReadAudit(h)
  PROVE  RInv'
  <1> DEFINE l == loc[h]
             read == [loc[h] EXCEPT !.previous = HeadDigest(events),
                                    !.unread = @ \ {"audit_events"}]
  <1>1. /\ l \in Locals /\ l.op \in Ops /\ ReaderInv("read", l)
        /\ HeadDigest(events) = campaign.content /\ campaign.content \in Digest
    BY HeadIsContent DEF ReadAudit, RInv, IInv, LocalInv, TypeOK, Row, Digest
  <1>2. /\ read \in Locals /\ read.op = l.op /\ read.row = l.row
        /\ read.outcome = l.outcome /\ read.label = l.label
        /\ read.artifact = l.artifact /\ read.view = l.view
        /\ read.unread = l.unread \ {"audit_events"}
    BY <1>1 DEF Locals, Unread
  <1>3. \A t \in Table : t # "audit_events"
    BY ConstantsAssumption
  <1>4. l.op.kind = "VERIFY" =>
          /\ campaign.state = "ARCHIVED" /\ l.artifact = artifact /\ l.row = campaign
          /\ artifact.head = campaign.content
    BY <1>1 DEF ReaderInv, RInv, Sealed
  <1>5. l.op.kind = "VERIFY" =>
          /\ ValidateDetailed(events, l.row.revision)
          /\ HeadDigest(events) = l.artifact.head
    BY <1>1, <1>4 DEF RInv, IInv, Chain
  <1>6. CASE /\ ~(/\ l.op.kind \in Readers => ValidateDetailed(events, l.row.revision)
                  /\ l.op.kind = "VERIFY" => HeadDigest(events) = l.artifact.head)
             /\ Answer(h, "integrity")
    <2>1. l.op.kind # "VERIFY"
      BY <1>5, <1>6
    <2> QED
      BY <1>6, <2>1, ReaderAnswer DEF ReadAudit
  <1>7. CASE /\ l.op.kind \in Readers => ValidateDetailed(events, l.row.revision)
             /\ AfterReading(h, read)
    <2> HIDE DEF read, l
    <2>1. Agrees(l)
      BY <1>1 DEF ReaderInv, Holding
    <2>2. Agrees(read)
      BY <1>2, <1>3, <2>1 DEF Agrees
    <2>3. l.op.kind \in {"SNAPSHOT", "PIN"} => read.unread = {} /\ Whole(read)
      <3>1. SUFFICES ASSUME l.op.kind \in {"SNAPSHOT", "PIN"}
                     PROVE  read.unread = {} /\ Whole(read)
        OBVIOUS
      <3>2. l.unread = {"audit_events"}
        BY <3>1 DEF ReadAudit, MayReadAudit, l
      <3>3. ValidateDetailed(events, l.row.revision)
        BY <1>7, <3>1 DEF Readers
      <3>4. l.row.revision = campaign.revision
        <4>1. {e.revision : e \in events} = 1 .. l.row.revision
              /\ {e.revision : e \in events} = 1 .. campaign.revision
          BY <3>3 DEF ValidateDetailed, RInv, IInv, Chain
        <4>2. /\ l.row.revision \in Nat /\ campaign.revision \in Nat
              /\ l.row.revision <= campaign.revision /\ campaign.revision >= 1
          BY <1>1 DEF ReaderInv, Holding, Row, RInv, IInv, TypeOK, Chain
        <4>3. campaign.revision \in 1 .. l.row.revision
          BY <4>1, <4>2
        <4> QED
          BY <4>2, <4>3
      <3>5. \A t \in Table : \A r \in evidence[t] : r <= campaign.revision
        BY EvidenceIsPast DEF RInv
      <3> QED
        BY <1>2, <1>3, <2>1, <3>2, <3>4, <3>5 DEF Agrees, Whole
    <2>4. ReaderInv("read", read)
      BY <1>1, <1>2, <2>2, <2>3 DEF ReaderInv, Holding, Finished, Alarmed
    <2>6. UNCHANGED database /\ pc[h] = "read"
      BY DEF ReadAudit
    <2>7. read.op = loc[h].op /\ read.op \in Ops
      BY <1>1, <1>2 DEF l
    <2> QED
      BY <1>2, <1>7, <2>4, <2>6, <2>7, AfterReadingReader
  <1> QED
    BY <1>6, <1>7 DEF ReadAudit

-----------------------------------------------------------------------------
(* The commits *)

\* What a writer's commit changes: the row and the chain grow by one, and any
\* but the archive may add evidence, all of it with the new revision.
Grown(h) ==
  /\ Committed(h)
  /\ campaign.state = "OPEN"
  /\ campaign'.revision = campaign.revision + 1
  /\ campaign'.content = Append(campaign.content, loc[h].op)
  /\ \A t \in Table :
       /\ evidence[t] \subseteq evidence'[t]
       /\ \A r \in evidence'[t] : r \in evidence[t]
            \/ (r = campaign.revision + 1 /\ loc[h].op.kind \in {"WRITE", "SIGN"})
  /\ loc[h].op.kind = "ARCHIVE" => evidence' = evidence
  /\ UNCHANGED snapshots

\* A successful commit is such a change.
LEMMA CommitGrows ==
  ASSUME RInv, NEW h \in Handler, Commit(h), campaign' # campaign
  PROVE  Grown(h)
  <1> DEFINE op == loc[h].op
             row == loc[h].row
             event == NewEvent(NextRevision(row), op, loc[h].previous)
  <1>1. /\ UniqueEvent(event)
        /\ campaign' = Updated(row, op) /\ events' = events \cup {event}
        /\ UNCHANGED snapshots
        /\ \E written \in IF op.kind = "ARCHIVE" THEN {{}} ELSE SUBSET Table :
             evidence' = [t \in Table |-> IF t \in written
                            THEN evidence[t] \cup {event.revision} ELSE evidence[t]]
    BY DEF Commit, Rollback, database
  <1>2. /\ row = campaign /\ loc[h].previous = campaign.content
        /\ campaign.state = "OPEN"
    BY <1>1, Fence DEF Commit, RInv
  <1>3. Committed(h)
    BY <1>1, <1>2 DEF Committed, NextRevision
  <1>4. /\ campaign'.revision = campaign.revision + 1
        /\ campaign'.content = Append(campaign.content, op)
    BY <1>3 DEF Committed, Updated, NextRevision
  <1>5. event.revision = campaign.revision + 1
    BY <1>2 DEF NewEvent, NextRevision
  <1>6. evidence = [t \in Table |-> evidence[t]]
    BY DEF RInv, IInv, TypeOK, View
  <1>7. PICK written \in IF op.kind = "ARCHIVE" THEN {{}} ELSE SUBSET Table :
          evidence' = [t \in Table |-> IF t \in written
                         THEN evidence[t] \cup {event.revision} ELSE evidence[t]]
    BY <1>1
  <1> HIDE DEF event
  <1>8. \A t \in Table :
          /\ evidence[t] \subseteq evidence'[t]
          /\ \A r \in evidence'[t] : r \in evidence[t]
               \/ (r = campaign.revision + 1 /\ op.kind \in {"WRITE", "SIGN"})
    <2>1. op.kind \in {"WRITE", "SIGN", "ARCHIVE"}
      BY DEF Commit, Writers
    <2> QED
      BY <1>5, <1>7, <2>1
  <1>9. op.kind = "ARCHIVE" => evidence' = evidence
    BY <1>6, <1>7
  <1> QED
    BY <1>1, <1>2, <1>3, <1>4, <1>8, <1>9 DEF Grown

\* Nothing up to the old revision changes: neither content nor evidence.
LEMMA PastIsKept ==
  ASSUME RInv, NEW h \in Handler, loc[h].op \in Ops, Grown(h),
         NEW n \in Nat, n <= campaign.revision
  PROVE  Upto(n)' = Upto(n) /\ \A t \in Table : RowsUpto(t, n)' = RowsUpto(t, n)
  <1>1. /\ campaign.content \in Seq(Ops) /\ campaign.revision = Len(campaign.content)
        /\ campaign.revision \in Nat
    BY DEF RInv, IInv, TypeOK, Row, Chain
  <1>2. Upto(n)' = Upto(n)
    <2>1. SubSeq(Append(campaign.content, loc[h].op), 1, n) = SubSeq(campaign.content, 1, n)
      BY <1>1, PrefixOfAppend
    <2> QED
      BY <2>1 DEF Upto, Grown
  <1>3. ASSUME NEW t \in Table PROVE RowsUpto(t, n)' = RowsUpto(t, n)
    <2>1. \A r \in evidence'[t] : r <= n => r \in evidence[t]
      BY <1>1 DEF Grown
    <2>2. evidence[t] \subseteq evidence'[t]
      BY DEF Grown
    <2> QED
      BY <2>1, <2>2 DEF RowsUpto
  <1> QED
    BY <1>2, <1>3

\* A handler that holds something of the past still does after a commit.
LEMMA ReaderAfterCommit ==
  ASSUME RInv, NEW h \in Handler, loc[h].op \in Ops, Grown(h),
         NEW step, NEW l, ReaderInv(step, l)
  PROVE  ReaderInv(step, l)'
  <1>1. campaign.revision \in Nat /\ campaign'.revision = campaign.revision + 1
    BY DEF RInv, IInv, TypeOK, Row, Grown
  <1>2. CASE step \in Holding \/ Finished(step, l)
    <2>1. /\ l.row \in Row /\ l.row.revision \in Nat
          /\ l.row.revision <= campaign.revision
          /\ l.row.content = Upto(l.row.revision)
          /\ Agrees(l)
      BY <1>2 DEF ReaderInv, Row
    <2>2. l.row.content = Upto(l.row.revision)'
      BY <2>1, PastIsKept
    <2>3. Agrees(l)'
      <3>1. ASSUME NEW t \in Table \ l.unread
            PROVE  /\ l.view[t] \subseteq evidence'[t]
                   /\ t \notin Dropping[l.op.kind] =>
                        \A r \in evidence'[t] : r <= l.row.revision => r \in l.view[t]
        <4>1. /\ l.view[t] \subseteq evidence[t]
              /\ t \notin Dropping[l.op.kind] =>
                   \A r \in evidence[t] : r <= l.row.revision => r \in l.view[t]
          BY <2>1, <3>1 DEF Agrees
        <4>2. /\ evidence[t] \subseteq evidence'[t]
              /\ \A r \in evidence'[t] : r \in evidence[t] \/ r = campaign.revision + 1
          BY <3>1 DEF Grown
        <4> QED
          BY <1>1, <2>1, <4>1, <4>2
      <3> QED
        BY <3>1 DEF Agrees
    <2>4. l.row # campaign' /\ l.row.revision <= campaign'.revision
      BY <1>1, <2>1
    <2>5. campaign.state # "ARCHIVED" /\ snapshots' = snapshots
      BY DEF Grown
    <2> QED
      BY <2>1, <2>2, <2>3, <2>4, <2>5 DEF ReaderInv, Whole, Finished, Holding
  <1>3. CASE ~(step \in Holding \/ Finished(step, l))
    BY <1>3 DEF ReaderInv, Finished, Holding, Grown
  <1> QED
    BY <1>2, <1>3

\* Store.Commit of a writer: evidence comes with its event, the archive is
\* sealed with all there is, a review with the snapshot of its revision.
LEMMA CommitReader ==
  ASSUME RInv, IInv', NEW h \in Handler, Commit(h)
  PROVE  RInv'
  <1> DEFINE op == loc[h].op
             row == loc[h].row
             n == campaign.revision
             event == NewEvent(n + 1, op, campaign.content)
  <1>1. /\ loc[h] \in Locals /\ op \in Ops /\ op.kind \in Writers
        /\ ReaderInv("commit", loc[h]) /\ loc[h].unread = {}
        /\ n \in Nat
    BY DEF Commit, RInv, IInv, LocalInv, TypeOK, Row
  <1>2. CASE campaign' = campaign
    <2>1. Answer(h, "unique") /\ UNCHANGED database
      BY <1>2, <1>1, Fence DEF Commit, Overtaken, Rollback, Updated, NextRevision, RInv,
         IInv, TypeOK, Row
    <2> QED
      BY <1>1, <2>1, ReaderAnswer DEF Writers
  <1>3. CASE campaign' # campaign
    <2>1. Grown(h)
      BY <1>3, CommitGrows
    <2>2. row = campaign /\ events' = events \cup {event} /\ Answer(h, "ok")
          /\ campaign' = Updated(campaign, op)
          /\ artifact' = IF op.kind = "ARCHIVE"
                         THEN [content |-> campaign'.content, view |-> loc[h].view,
                               head |-> campaign'.content]
                         ELSE artifact
      <3>1. row = campaign /\ loc[h].previous = campaign.content
        BY <1>3, Fence DEF Commit, Rollback, database, RInv
      <3>2. event.digest = Append(campaign.content, op)
        BY DEF NewEvent
      <3> QED
        BY <1>3, <2>1, <3>1, <3>2 DEF Commit, Rollback, database, Grown, Committed,
           NextRevision, NewEvent
    <2>3. event.revision = n + 1 /\ event.op = op
      BY DEF NewEvent
    <2> HIDE DEF event
    <2>4. NoOrphanEvidence'
      BY <2>1, <2>2, <2>3 DEF NoOrphanEvidence, Grown, RInv
    <2>5. Sealed'
      <3>1. CASE op.kind = "ARCHIVE"
        <4>1. evidence' = evidence
          BY <2>1, <3>1 DEF Grown
        <4>2. \A t \in Table : Shows("ARCHIVE", loc[h].view, t, evidence[t])
          BY <1>1, <2>2, <3>1, WholeTable DEF ReaderInv, Holding
        <4>3. artifact' # Nil
          <5>1. artifact' \in Artifact
            BY <1>1, <2>2, <3>1 DEF Artifact, IInv, TypeOK, Row, RInv, Digest, Locals
          <5> QED
            BY <5>1, NilIsNoArtifact
        <4> QED
          BY <2>2, <3>1, <4>1, <4>2, <4>3 DEF Sealed, Updated, Shows
      <3>2. CASE op.kind # "ARCHIVE"
        BY <2>1, <2>2, <3>2 DEF Sealed, Grown, Updated, RInv
      <3> QED
        BY <3>1, <3>2
    <2>6. SnapshotsCurrent'
      <3>1. \A s \in snapshots : s.revision \in Nat
        BY DEF RInv, IInv, TypeOK, ReviewSnapshot
      <3> QED
        BY <1>1, <2>1, <3>1 DEF SnapshotsCurrent, Grown, RInv
    <2>7. SignedWhatWasShown'
      <3>1. SUFFICES ASSUME NEW e \in events', e.op.kind = "SIGN"
                     PROVE  \E s \in snapshots :
                              /\ s.revision = e.revision - 1
                              /\ s.content = Upto(s.revision)'
                              /\ \A t \in Table :
                                   Shows("PIN", s.view, t, RowsUpto(t, s.revision)')
        BY <2>1 DEF SignedWhatWasShown, Grown
      <3>2. PICK s \in snapshots :
              /\ s.revision = e.revision - 1
              /\ s.content = Upto(s.revision)
              /\ \A t \in Table : Shows("PIN", s.view, t, RowsUpto(t, s.revision))
        <4>1. CASE e \in events
          BY <3>1, <4>1 DEF RInv, SignedWhatWasShown
        <4>2. CASE e = event
          <5>1. PICK s \in snapshots : s.revision = n
            BY <1>1, <2>2, <2>3, <3>1, <4>2 DEF ReaderInv
          <5>2. /\ s.content = campaign.content
                /\ \A t \in Table : Shows("PIN", s.view, t, evidence[t])
            BY <5>1 DEF RInv, SnapshotsCurrent
          <5>3. campaign.content = Upto(n)
            BY RowInHand DEF RInv
          <5>4. \A t \in Table : RowsUpto(t, n) = evidence[t]
            BY EvidenceIsPast DEF RowsUpto, RInv
          <5> QED
            BY <1>1, <2>3, <4>2, <5>1, <5>2, <5>3, <5>4
        <4> QED
          BY <2>2, <4>1, <4>2
      <3>3. s.revision \in Nat /\ s.revision <= n
        BY DEF RInv, SnapshotsCurrent, IInv, TypeOK, ReviewSnapshot
      <3>4. /\ Upto(s.revision)' = Upto(s.revision)
            /\ \A t \in Table : RowsUpto(t, s.revision)' = RowsUpto(t, s.revision)
        BY <1>1, <2>1, <3>3, PastIsKept
      <3> QED
        BY <3>2, <3>4
    <2>8. ASSUME NEW g \in Handler PROVE ReaderInv(pc[g], loc[g])'
      <3>1. CASE g = h
        <4> DEFINE new == [Idle EXCEPT !.op = op, !.outcome = "ok"]
        <4>1. pc'[g] = "done" /\ loc'[g] = new
          BY <2>2, <3>1 DEF Answer, Goto, RInv, IInv, TypeOK
        <4>2. new.op = op /\ new.outcome = "ok"
          BY DEF Idle
        <4> HIDE DEF new
        <4> QED
          BY <1>1, <4>1, <4>2 DEF ReaderInv, Holding, Finished, Alarmed, Writers
      <3>2. CASE g # h
        <4>1. pc'[g] = pc[g] /\ loc'[g] = loc[g]
          BY <2>2, <3>2 DEF Answer, Goto, RInv, IInv, TypeOK
        <4>2. PICK step, l : step = pc[g] /\ l = loc[g]
          OBVIOUS
        <4>3. ReaderInv(step, l)
          BY <4>2 DEF RInv
        <4>4. ReaderInv(step, l)'
          BY <1>1, <2>1, <4>3, ReaderAfterCommit
        <4> QED
          BY <4>1, <4>2, <4>4 DEF ReaderInv, Agrees, Whole, Finished, Upto, UniqueKey
      <3> QED
        BY <3>1, <3>2
    <2> QED
      BY <2>4, <2>5, <2>6, <2>7, <2>8 DEF RInv
  <1> QED
    BY <1>2, <1>3

\* Store.Commit of a review snapshot: it may be labelled with a revision older
\* than what it shows, but then that revision is past and nobody can sign it.
LEMMA CommitSnapshotReader ==
  ASSUME RInv, IInv', NEW h \in Handler, CommitSnapshot(h)
  PROVE  RInv'
  <1> DEFINE l == loc[h]
             made == [revision |-> l.label, content |-> l.row.content, view |-> l.view]
             new == [Idle EXCEPT !.op = loc[h].op, !.outcome = "ok"]
  <1>1. /\ l \in Locals /\ l.op.kind = "PIN" /\ ReaderInv("commit", l) /\ l.unread = {}
        /\ campaign.revision \in Nat
    BY DEF CommitSnapshot, RInv, IInv, LocalInv, TypeOK, Row
  <1>2. snapshots \subseteq snapshots' /\ snapshots' \subseteq snapshots \cup {made}
    BY DEF CommitSnapshot
  <1>3. /\ l.label \in Nat /\ l.row.revision \in Nat
        /\ l.label <= l.row.revision /\ l.row.revision <= campaign.revision
        /\ l.row.content = Upto(l.row.revision)
        /\ Agrees(l) /\ Whole(l)
    BY <1>1 DEF ReaderInv, Holding, Locals, Row
  <1>4. /\ made.revision <= campaign.revision
        /\ made.revision = campaign.revision =>
             /\ made.content = campaign.content
             /\ \A t \in Table : Shows("PIN", made.view, t, evidence[t])
    <2>1. SUFFICES ASSUME l.label = campaign.revision
                   PROVE  /\ l.row.content = campaign.content
                          /\ \A t \in Table : Shows("PIN", l.view, t, evidence[t])
      BY <1>1, <1>3
    <2>2. l.row.revision = campaign.revision
      BY <1>1, <1>3, <2>1
    <2>3. l.row.content = campaign.content
      BY <1>3, <2>2, RowInHand DEF RInv
    <2>4. l.row = campaign
      BY <1>1, <2>2 DEF RInv, IInv, LocalInv, RowIsPast, CommitSnapshot
    <2> QED
      BY <1>1, <1>3, <2>3, <2>4, WholeTable
  <1> HIDE DEF made
  <1>5. UNCHANGED <<campaign, evidence, events, idem, artifact>>
    BY DEF CommitSnapshot
  <1>6. NoOrphanEvidence' /\ Sealed'
    BY <1>5 DEF RInv, NoOrphanEvidence, Sealed
  <1>7. SnapshotsCurrent'
    BY <1>2, <1>4, <1>5 DEF RInv, SnapshotsCurrent
  <1>8. SignedWhatWasShown'
    BY <1>2, <1>5 DEF RInv, SignedWhatWasShown, Upto, RowsUpto
  <1>9. ASSUME NEW g \in Handler PROVE ReaderInv(pc[g], loc[g])'
    <2>1. ReaderInv(pc'[g], loc'[g])
      <3>1. pc' = [pc EXCEPT ![h] = "done"] /\ loc' = [loc EXCEPT ![h] = new]
        BY DEF CommitSnapshot, Answer, Goto
      <3>2. new.op = l.op /\ new.outcome = "ok"
        BY DEF Idle
      <3> HIDE DEF new
      <3>3. ReaderInv("done", new)
        BY <1>1, <3>2 DEF ReaderInv, Holding, Finished, Alarmed
      <3> QED
        BY <3>1, <3>3 DEF RInv, IInv, TypeOK
    <2> QED
      BY <1>2, <1>5, <2>1 DEF ReaderInv, Agrees, ShortRead, Upto, UniqueKey
  <1> QED
    BY <1>6, <1>7, <1>8, <1>9 DEF RInv

\* An answered request leaves nothing in hand.
LEMMA ReplyReader ==
  ASSUME RInv, IInv', NEW h \in Handler, Reply(h)
  PROVE  RInv'
  <1>1. ReaderInv("idle", Idle)
    BY DEF ReaderInv, Holding, Finished, Alarmed, Idle
  <1> QED
    BY <1>1, ReaderStep DEF Reply

\* A crash loses what is in hand and nothing that is stored.
LEMMA CrashReader ==
  ASSUME RInv, IInv', Crash
  PROVE  RInv'
  <1>1. Shared'
    BY DEF Crash, RInv, Shared, NoOrphanEvidence, Sealed, SnapshotsCurrent,
       SignedWhatWasShown, Upto, RowsUpto, database
  <1>2. ASSUME NEW g \in Handler PROVE ReaderInv(pc[g], loc[g])'
    BY DEF Crash, ReaderInv, Holding, Finished, Alarmed, Idle
  <1> QED
    BY <1>1, <1>2 DEF RInv, Shared

\* The invariant speaks of the variables alone.
LEMMA StutterReader == RInv /\ IInv' /\ UNCHANGED vars => RInv'
  <1> SUFFICES ASSUME RInv, IInv', UNCHANGED vars PROVE RInv'
    OBVIOUS
  <1>1. Shared'
    BY DEF RInv, vars, Shared, NoOrphanEvidence, Sealed, SnapshotsCurrent,
       SignedWhatWasShown, Upto, RowsUpto
  <1>2. ASSUME NEW g \in Handler PROVE ReaderInv(pc[g], loc[g])'
    BY DEF RInv, vars, ReaderInv, Agrees, ShortRead, Upto, UniqueKey
  <1> QED
    BY <1>1, <1>2 DEF RInv, Shared

\* Every step keeps the invariant.
LEMMA NextRInv == RInv /\ [Next]_vars => RInv'
  <1> SUFFICES ASSUME RInv, [Next]_vars PROVE RInv'
    OBVIOUS
  <1>1. IInv'
    BY NextIInv DEF RInv
  <1>2. ASSUME NEW h \in Handler, Step(h) PROVE RInv'
    <2>1. CASE Refuse(h)
      BY <1>1, <2>1, ReaderAnswer DEF Refuse, Writers
    <2> QED
      BY <1>1, <1>2, <2>1, ReadArtifactReader, ReadCampaignReader, ReadCampaignAgainReader,
         ReplayReader, LookupSnapshotReader, ReadTableReader, ReadAuditReader, CommitReader,
         CommitSnapshotReader, ReplyReader DEF Step
  <1>3. ASSUME NEW h \in Handler, Fail(h) PROVE RInv'
    BY <1>1, <1>3, ReaderAnswer DEF Fail, Rollback
  <1> QED
    BY <1>1, <1>2, <1>3, ReadTableReader, ReceiveReader, CrashReader, StutterReader DEF Next

\* The inductive invariant behind the theorems below: what readers have in hand
\* of a table is all of it up to the revision they read (Store.Commit,
\* SnapshotForDevice, VerifySection).
THEOREM ReadersInvariance == Spec => []RInv
  BY InitRInv, NextRInv, PTL DEF Spec

-----------------------------------------------------------------------------
(* Theorems *)

\* Evidence is stored together with the event that tells of it, or not at all.
THEOREM EvidenceHasEvent == Spec => []NoOrphanEvidence
  <1>1. RInv => NoOrphanEvidence
    BY DEF RInv
  <1> QED
    BY <1>1, ReadersInvariance, PTL

\* A snapshot put together from single statements shows one revision's state:
\* of each table whose failing read SnapshotForDevice answers exactly its rows,
\* of remediation_plans no others.
THEOREM SnapshotsConsistent == Spec => []SnapshotConsistent
  <1>1. RInv => SnapshotConsistent
    <2>1. SUFFICES ASSUME RInv, NEW h \in Handler, pc[h] = "done",
                          loc[h].op.kind = "SNAPSHOT", loc[h].outcome = "ok"
                   PROVE  /\ loc[h].row.content = Upto(loc[h].row.revision)
                          /\ \A t \in Table :
                               Shows("SNAPSHOT", loc[h].view, t,
                                     RowsUpto(t, loc[h].row.revision))
      BY DEF SnapshotConsistent
    <2>2. ReaderInv("done", loc[h]) /\ Finished("done", loc[h])
      BY <2>1 DEF RInv, Finished
    <2>3. /\ loc[h].row.content = Upto(loc[h].row.revision)
          /\ loc[h].unread = {} /\ Agrees(loc[h]) /\ Whole(loc[h])
      BY <2>1, <2>2 DEF ReaderInv
    <2>4. ASSUME NEW t \in Table
          PROVE  Shows("SNAPSHOT", loc[h].view, t, RowsUpto(t, loc[h].row.revision))
      <3>1. loc[h].view[t] \subseteq RowsUpto(t, loc[h].row.revision)
        BY <2>3 DEF Agrees, Whole, RowsUpto
      <3>2. t \notin Dropping["SNAPSHOT"] =>
              RowsUpto(t, loc[h].row.revision) \subseteq loc[h].view[t]
        BY <2>1, <2>3 DEF Agrees, RowsUpto
      <3> QED
        BY <3>1, <3>2 DEF Shows
    <2> QED
      BY <2>3, <2>4
  <1> QED
    BY <1>1, ReadersInvariance, PTL

\* A review that names a snapshot was made at the revision it shows, although
\* the snapshot's label is read before its content; what it shows is what
\* SnapshotForDevice got, plans that it failed to read left out.
THEOREM SignedIsShown == Spec => []SignedWhatWasShown
  <1>1. RInv => SignedWhatWasShown
    BY DEF RInv
  <1> QED
    BY <1>1, ReadersInvariance, PTL

\* The artifact, collected table by table before the archive commits, has all
\* the evidence there ever is of the tables whose failing read Archive answers,
\* and of the three others nothing that is not there.
THEOREM ArtifactsComplete == Spec => []ArtifactComplete
  <1>1. RInv => ArtifactComplete
    BY HeadIsContent DEF RInv, IInv, Sealed, ArtifactComplete
  <1> QED
    BY <1>1, ReadersInvariance, PTL

\* Verification raises no alarm because of what else is running, only because
\* of rows that Archive or VerifySection failed to read without noticing.
THEOREM MismatchesAreShortReads == Spec => []MismatchIsShortRead
  <1>1. RInv => MismatchIsShortRead
    BY DEF RInv, ReaderInv, Alarmed, ShortRead, MismatchIsShortRead
  <1> QED
    BY <1>1, ReadersInvariance, PTL

\* A writer leaves its commit by the commit or by a failing transaction.
LEMMA CommittingCommits ==
  ASSUME RInv, Next, NEW h \in Handler, Committing(h)
  PROVE  Commit(h) \/ Answer(h, "failed")
  <1>1. pc[h] = "commit" /\ loc[h].op.kind \in Writers /\ pc'[h] = "done"
    BY DEF Committing
  <1>2. ASSUME NEW g \in Handler, g # h,
               \/ Step(g) \/ (\E t \in Table : ReadPart(g, t)) \/ Fail(g)
               \/ \E op \in Requests : Receive(g, op)
        PROVE  FALSE
    <2>1. pc'[h] = pc[h]
      BY <1>2 DEF Step, Fail, Receive, ReadArtifact, ReadCampaign, ReadCampaignAgain,
         Replay, LookupSnapshot, ReadTable, ReadPart, Rows, ReadAudit, AfterReading, Refuse, Commit,
         Overtaken, CommitSnapshot, Reply, Answer, Goto, RInv, IInv, TypeOK
    <2> QED
      BY <1>1, <2>1
  <1>3. \/ Step(h) \/ (\E t \in Table : ReadPart(h, t)) \/ Fail(h)
        \/ \E op \in Requests : Receive(h, op)
    BY <1>1, <1>2 DEF Next, Crash
  <1>4. ~(ReadArtifact(h) \/ ReadCampaign(h) \/ ReadCampaignAgain(h) \/ Replay(h)
          \/ LookupSnapshot(h) \/ Refuse(h) \/ CommitSnapshot(h) \/ Reply(h))
    BY <1>1 DEF ReadArtifact, ReadCampaign, ReadCampaignAgain, Replay, LookupSnapshot,
       Refuse, CommitSnapshot, Reply, Writers
  <1>5. ~((\E t \in Table : ReadTable(h, t) \/ ReadPart(h, t)) \/ ReadAudit(h)
          \/ \E op \in Requests : Receive(h, op))
    BY <1>1 DEF ReadTable, ReadPart, Rows, ReadAudit, Receive
  <1> QED
    BY <1>3, <1>4, <1>5 DEF Step, Fail

\* What an answer says is what the client is told.
LEMMA AnswerSays ==
  ASSUME TypeOK, NEW h \in Handler, NEW outcome, Answer(h, outcome)
  PROVE  loc'[h].outcome = outcome
  BY DEF Answer, Goto, Idle, TypeOK

\* The tables in hand at the commit are those stored if the row is, but for
\* what was read short.
LEMMA TablesInHand ==
  ASSUME RInv, NEW h \in Handler, pc[h] = "commit", loc[h].row = campaign
  PROVE  \A t \in Table : Shows(loc[h].op.kind, loc[h].view, t, evidence[t])
  <1>1. Agrees(loc[h]) /\ loc[h].unread = {}
    BY DEF RInv, ReaderInv, Holding, IInv, LocalInv
  <1> QED
    BY <1>1, WholeTable

\* Nothing a committed decision was based on has changed since it was read:
\* neither the row nor a table nor the chain (Store.Commit).  What it was based
\* on lacks rows only of tables whose failing read its handler does not notice.
THEOREM DecisionsAreFresh == Spec => FreshDecision
  <1>1. ASSUME RInv, Next, NEW h \in Handler, Committing(h), loc'[h].outcome = "ok"
        PROVE  /\ loc[h].row = campaign
               /\ \A t \in Table : Shows(loc[h].op.kind, loc[h].view, t, evidence[t])
               /\ loc[h].previous = HeadDigest(events)
    <2>1. TypeOK
      BY <1>1 DEF RInv, IInv
    <2>2. Commit(h)
      BY <1>1, <2>1, CommittingCommits, AnswerSays
    <2>3. UniqueEvent(NewEvent(NextRevision(loc[h].row), loc[h].op, loc[h].previous))
      BY <1>1, <2>1, <2>2, AnswerSays DEF Commit, Overtaken
    <2>4. pc[h] = "commit" /\ loc[h].op.kind \in Writers
      BY <2>2 DEF Commit
    <2>5. loc[h].row = campaign /\ loc[h].previous = campaign.content
      BY <1>1, <2>3, <2>4, Fence DEF RInv
    <2>6. loc[h].previous = HeadDigest(events)
      BY <1>1, <2>5, HeadIsContent DEF RInv, IInv
    <2> QED
      BY <1>1, <2>4, <2>5, <2>6, TablesInHand
  <1>2. RInv /\ [Next]_vars =>
          [\A h \in Handler : Committing(h) /\ loc'[h].outcome = "ok" =>
             /\ loc[h].row = campaign
             /\ \A t \in Table : Shows(loc[h].op.kind, loc[h].view, t, evidence[t])
             /\ loc[h].previous = HeadDigest(events)]_vars
    BY <1>1
  <1> QED
    BY <1>2, ReadersInvariance, PTL DEF Spec, FreshDecision

\* A writer is turned away only because another one committed since it read:
\* neither the key on the events nor that on the requests refuses one that is
\* alone (Store.Commit, Service.replay).
THEOREM ConflictsAreReal == Spec => NoSpuriousConflict
  <1>1. ASSUME RInv, Next, NEW h \in Handler, Committing(h), loc'[h].outcome = "unique"
        PROVE  campaign.revision > loc[h].row.revision
    <2> DEFINE row == loc[h].row
    <2>1. TypeOK
      BY <1>1 DEF RInv, IInv
    <2>2. Commit(h)
      BY <1>1, <2>1, CommittingCommits, AnswerSays
    <2>3. ~UniqueEvent(NewEvent(NextRevision(row), loc[h].op, loc[h].previous))
          \/ ~UniqueKey(loc[h].op)
      BY <1>1, <2>1, <2>2, AnswerSays DEF Commit
    <2>4. /\ ReaderInv("commit", loc[h]) /\ loc[h].op.kind \in Writers
          /\ LocalInv("commit", loc[h])
      BY <1>1, <2>2 DEF RInv, IInv, Commit
    <2>5. /\ row.revision \in Nat /\ campaign.revision \in Nat
          /\ row.revision <= campaign.revision
          /\ row.revision = campaign.revision => row = campaign
      BY <2>1, <2>4 DEF LocalInv, RowIsPast, TypeOK, Row
    <2>6. CASE ~UniqueEvent(NewEvent(NextRevision(row), loc[h].op, loc[h].previous))
      <3>1. PICK e \in events : e.revision = row.revision + 1
        BY <2>6 DEF UniqueEvent, NewEvent, NextRevision
      <3>2. e.revision \in 1 .. campaign.revision
        BY <1>1 DEF RInv, IInv, Chain, ValidateDetailed
      <3>3. campaign.revision > row.revision
        <4> HIDE DEF row
        <4> QED
          BY <2>5, <3>1, <3>2
      <3> QED
        BY <3>3
    <2>7. CASE ~UniqueKey(loc[h].op)
      <3>1. row # campaign
        BY <2>4, <2>7 DEF ReaderInv
      <3> QED
        BY <2>5, <3>1
    <2> QED
      BY <2>3, <2>6, <2>7
  <1>2. RInv /\ [Next]_vars =>
          [\A h \in Handler : Committing(h) /\ loc'[h].outcome = "unique" =>
             campaign.revision > loc[h].row.revision]_vars
    BY <1>1
  <1> QED
    BY <1>2, ReadersInvariance, PTL DEF Spec, NoSpuriousConflict
=============================================================================
