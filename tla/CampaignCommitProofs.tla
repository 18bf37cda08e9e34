------------------------ MODULE CampaignCommitProofs ------------------------
(***************************************************************************)
(* Proofs about CampaignCommit, for every number of handlers, keys and     *)
(* tables and without a bound on the revision.                             *)
(*                                                                         *)
(* The heart is RowIsPast: the row a handler holds is older than the       *)
(* stored one, or it is the stored one.  The primary key of audit_events   *)
(* then lets a handler commit only in the second case (lemma Fence).       *)
(***************************************************************************)
EXTENDS CampaignCommit, TLAPS

-----------------------------------------------------------------------------
(* The inductive invariant *)

\* The chain is whole, one event per revision, the last digest the content's.
Chain ==
  /\ campaign.revision = Len(campaign.content)
  /\ campaign.revision >= 1
  /\ ValidateDetailed(events, campaign.revision)
  /\ \A e, f \in events : e.revision = f.revision => e = f
  /\ \A e \in events : e.revision = campaign.revision => e.digest = campaign.content

\* A key that was used is in the idempotency table.
KeysRecorded ==
  \A i \in 1..Len(campaign.content) :
    campaign.content[i].key # NoKey =>
      \E x \in idem : x.key = campaign.content[i].key

\* A row read at some time is older than the stored one, or is the stored one.
RowIsPast(row) ==
  /\ row \in Row
  /\ row.revision <= campaign.revision
  /\ row.revision = campaign.revision => row = campaign

\* What holds of a handler that is at step with local variables l.
LocalInv(step, l) ==
  /\ step # "idle" => l.op \in Ops
  /\ step \in {"replay", "snapshot", "lookup", "read", "commit"} => RowIsPast(l.row)
  /\ step = "replay" => l.op.kind \in Writers /\ "audit_events" \in l.unread
  /\ step = "snapshot" => l.op.kind \notin Writers
  /\ step = "lookup" => l.op.kind = "SIGN" \/ (l.op.kind = "PIN" /\ l.unread = {})
  /\ step = "commit" => l.unread = {}
  /\ step \in {"lookup", "read", "commit"} /\ l.op.kind \in Writers =>
       /\ l.row.state = "OPEN"
       /\ l.op.ifMatch \in {0, l.row.revision}
       /\ \/ "audit_events" \in l.unread
          \/ l.row = campaign => l.previous = campaign.content

IInv ==
  /\ TypeOK
  /\ Chain
  /\ KeysRecorded
  /\ \A h \in Handler : LocalInv(pc[h], loc[h])

-----------------------------------------------------------------------------
(* Lemmas *)

\* A handler without a request has well-typed local variables.
LEMMA IdleIsLocals == Idle \in Locals
  BY DEF Idle, Locals, View, Unread, Digest

\* The invariant holds of a campaign that was just created.
LEMMA InitIInv == Init => IInv
  <1> SUFFICES ASSUME Init PROVE IInv
    OBVIOUS
  <1>1. PICK op \in Ops :
          /\ op.kind = "CREATE" /\ op.key = NoKey
          /\ campaign = [revision |-> 1, content |-> <<op>>, state |-> "OPEN"]
          /\ events = {NewEvent(1, op, <<>>)}
    BY DEF Init
  <1>2. <<op>> \in Seq(Ops) /\ Len(<<op>>) = 1 /\ <<op>>[1] = op /\ Append(<<>>, op) = <<op>>
    OBVIOUS
  <1>3. NewEvent(1, op, <<>>) \in Event
    BY <1>2 DEF NewEvent, Event, Digest
  <1>4. TypeOK
    BY <1>1, <1>2, <1>3, IdleIsLocals DEF Init, TypeOK, Row, View, Steps
  <1>5. Chain
    BY <1>1, <1>2 DEF Chain, ValidateDetailed, NewEvent
  <1>6. KeysRecorded
    BY <1>1, <1>2 DEF KeysRecorded
  <1>7. \A h \in Handler : LocalInv(pc[h], loc[h])
    BY DEF Init, LocalInv
  <1> QED
    BY <1>4, <1>5, <1>6, <1>7 DEF IInv

\* A step that leaves the database alone keeps the invariant if the handler
\* that takes it ends in a state that satisfies LocalInv.
LEMMA ReadStep ==
  ASSUME IInv, NEW h \in Handler, NEW step \in Steps, NEW new \in Locals,
         LocalInv(step, new), Goto(h, step, new), UNCHANGED database
  PROVE  IInv'
  <1>1. TypeOK'
    BY DEF IInv, TypeOK, Goto, database
  <1>2. Chain' /\ KeysRecorded'
    BY DEF IInv, Chain, KeysRecorded, database, ValidateDetailed
  <1>3. ASSUME NEW g \in Handler PROVE LocalInv(pc[g], loc[g])'
    <2>1. LocalInv(pc'[g], loc'[g])
      BY DEF IInv, TypeOK, Goto
    <2> QED
      BY <2>1 DEF LocalInv, RowIsPast, database
  <1> QED
    BY <1>1, <1>2, <1>3 DEF IInv

\* Answering is safe for every handler that has a request.
LEMMA AnswerStep ==
  ASSUME IInv, NEW h \in Handler, pc[h] # "idle",
         NEW outcome \in {"ok", "replayed", "refused", "archived", "conflict",
                          "key conflict", "stale snapshot", "unique",
                          "integrity", "mismatch", "failed"},
         Answer(h, outcome), UNCHANGED database
  PROVE  IInv'
  <1> DEFINE new == [Idle EXCEPT !.op = loc[h].op, !.outcome = outcome]
  <1>1. loc[h].op \in Ops
    BY DEF IInv, LocalInv
  <1>2. new \in Locals /\ new.op = loc[h].op
    BY <1>1, IdleIsLocals DEF Locals
  <1>3. LocalInv("done", new)
    BY <1>1, <1>2 DEF LocalInv
  <1>4. Goto(h, "done", new)
    BY DEF Answer
  <1> QED
    BY <1>2, <1>3, <1>4, ReadStep DEF Steps

\* The stored row is past itself, and new requests are requests.
LEMMA CampaignIsPast == IInv => RowIsPast(campaign)
  BY DEF IInv, TypeOK, RowIsPast, Row

\* A request that arrives is a request, and nothing is in hand yet.
LEMMA ReceiveInv ==
  ASSUME IInv, NEW h \in Handler, NEW op \in Requests, Receive(h, op)
  PROVE  IInv'
  <1> DEFINE new == [Idle EXCEPT !.op = op]
             step == IF op.kind = "VERIFY" THEN "artifact" ELSE "campaign"
  <1>1. new \in Locals /\ new.op = op /\ op \in Ops
    BY IdleIsLocals DEF Requests, Locals
  <1>2. LocalInv(step, new)
    BY <1>1 DEF LocalInv
  <1> QED
    BY <1>1, <1>2, ReadStep DEF Receive, Steps

\* VerifySection's first read: the artifact alone.
LEMMA ReadArtifactInv ==
  ASSUME IInv, NEW h \in Handler, ReadArtifact(h)
  PROVE  IInv'
  <1> DEFINE new == [loc[h] EXCEPT !.artifact = artifact]
  <1>1. CASE artifact = Nil
    BY <1>1, AnswerStep DEF ReadArtifact
  <1>2. CASE artifact # Nil
    <2>1. new \in Locals /\ new.op = loc[h].op
      BY DEF IInv, TypeOK, Locals
    <2>2. LocalInv("campaign", new)
      BY <2>1 DEF IInv, LocalInv, ReadArtifact
    <2> QED
      BY <1>2, <2>1, <2>2, ReadStep DEF ReadArtifact, Steps
  <1> QED
    BY <1>1, <1>2

\* GetCampaign: the row in hand is the stored one, nothing else is read.
LEMMA ReadCampaignInv ==
  ASSUME IInv, NEW h \in Handler, ReadCampaign(h)
  PROVE  IInv'
  <1> DEFINE read == [loc[h] EXCEPT !.row = campaign,
                                    !.unread = Table \cup {"audit_events"}]
             pinned == [read EXCEPT !.label = campaign.revision]
  <1>1. loc[h] \in Locals /\ loc[h].op \in Ops /\ campaign \in Row
    BY DEF ReadCampaign, IInv, LocalInv, TypeOK
  <1>2. read \in Locals /\ read.op = loc[h].op /\ read.row = campaign
        /\ "audit_events" \in read.unread
    BY <1>1 DEF Locals, Unread
  <1>3. pinned \in Locals /\ pinned.op = loc[h].op /\ pinned.row = campaign
    BY <1>1 DEF Locals, Unread, Row
  <1>4. CASE loc[h].op.kind \in Writers /\ Goto(h, "replay", read)
    <2>1. LocalInv("replay", read)
      BY <1>1, <1>2, <1>4, CampaignIsPast DEF LocalInv
    <2> QED
      BY <1>2, <1>4, <2>1, ReadStep DEF ReadCampaign, Steps
  <1>5. CASE loc[h].op.kind \in {"SNAPSHOT", "VERIFY"} /\ Goto(h, "read", read)
    <2>1. LocalInv("read", read)
      BY <1>1, <1>2, <1>5, CampaignIsPast DEF LocalInv, Writers
    <2> QED
      BY <1>2, <1>5, <2>1, ReadStep DEF ReadCampaign, Steps
  <1>6. CASE loc[h].op.kind = "PIN" /\ Goto(h, "snapshot", pinned)
    <2>1. LocalInv("snapshot", pinned)
      BY <1>1, <1>3, <1>6, CampaignIsPast DEF LocalInv, Writers
    <2> QED
      BY <1>3, <1>6, <2>1, ReadStep DEF ReadCampaign, Steps
  <1>7. CASE Answer(h, "archived") \/ Answer(h, "refused")
    BY <1>7, AnswerStep DEF ReadCampaign
  <1> QED
    BY <1>4, <1>5, <1>6, <1>7 DEF ReadCampaign

\* The second read of the campaign replaces the row by the stored one.
LEMMA ReadCampaignAgainInv ==
  ASSUME IInv, NEW h \in Handler, ReadCampaignAgain(h)
  PROVE  IInv'
  <1> DEFINE new == [loc[h] EXCEPT !.row = campaign]
  <1>1. loc[h] \in Locals /\ loc[h].op \in Ops
    BY DEF ReadCampaignAgain, IInv, LocalInv, TypeOK
  <1>2. new \in Locals /\ new.op = loc[h].op /\ new.row = campaign
        /\ new.unread = loc[h].unread
    BY <1>1 DEF IInv, TypeOK, Locals
  <1>3. loc[h].op.kind \notin Writers
    BY DEF ReadCampaignAgain, IInv, LocalInv
  <1>4. LocalInv("read", new)
    BY <1>1, <1>2, <1>3, CampaignIsPast DEF LocalInv
  <1> QED
    BY <1>2, <1>4, ReadStep DEF ReadCampaignAgain, Steps

\* A request that is neither replayed nor refused goes on with the row of an
\* open campaign whose revision is the one it expects.
LEMMA ReplayInv ==
  ASSUME IInv, NEW h \in Handler, Replay(h)
  PROVE  IInv'
  <1>1. loc[h] \in Locals /\ loc[h].op \in Ops /\ LocalInv("replay", loc[h])
    BY DEF Replay, IInv, LocalInv, TypeOK
  <1>2. CASE \E outcome \in {"key conflict", "replayed", "conflict", "archived"} :
               Answer(h, outcome)
    BY <1>2, AnswerStep DEF Replay
  <1>3. CASE /\ loc[h].op.ifMatch \in {0, loc[h].row.revision}
             /\ loc[h].row.state = "OPEN"
             /\ Goto(h, IF loc[h].op.kind = "SIGN" THEN "lookup" ELSE "read", loc[h])
    <2>1. LocalInv(IF loc[h].op.kind = "SIGN" THEN "lookup" ELSE "read", loc[h])
      BY <1>1, <1>3 DEF LocalInv
    <2> QED
      BY <1>1, <1>3, <2>1, ReadStep DEF Replay, Steps
  <1> QED
    BY <1>2, <1>3 DEF Replay, Expected

\* Looking a snapshot up changes nothing in hand.
LEMMA LookupSnapshotInv ==
  ASSUME IInv, NEW h \in Handler, LookupSnapshot(h)
  PROVE  IInv'
  <1>1. loc[h] \in Locals /\ loc[h].op \in Ops /\ LocalInv("lookup", loc[h])
    BY DEF LookupSnapshot, IInv, LocalInv, TypeOK
  <1>2. CASE Answer(h, "stale snapshot") \/ Answer(h, "ok")
    BY <1>2, AnswerStep DEF LookupSnapshot
  <1>3. CASE loc[h].op.kind = "SIGN" /\ Goto(h, "read", loc[h])
    <2>1. LocalInv("read", loc[h])
      BY <1>1 DEF LocalInv
    <2> QED
      BY <1>1, <1>3, <2>1, ReadStep DEF LookupSnapshot, Steps
  <1>4. CASE loc[h].op.kind # "SIGN" /\ Goto(h, "commit", loc[h])
    <2>1. LocalInv("commit", loc[h])
      BY <1>1, <1>4 DEF LocalInv
    <2> QED
      BY <1>1, <1>4, <2>1, ReadStep DEF LookupSnapshot, Steps
  <1> QED
    BY <1>2, <1>3, <1>4 DEF LookupSnapshot

\* The head of a whole chain is the campaign's content.
LEMMA HeadIsContent == TypeOK /\ Chain => HeadDigest(events) = campaign.content
  <1> SUFFICES ASSUME TypeOK, Chain PROVE HeadDigest(events) = campaign.content
    OBVIOUS
  <1> DEFINE last == CHOOSE e \in events : \A f \in events : f.revision <= e.revision
  <1>1. campaign.revision \in Nat /\ campaign.revision >= 1
    BY DEF Chain, TypeOK, Row
  <1>2. {e.revision : e \in events} = 1..campaign.revision
    BY DEF Chain, ValidateDetailed
  <1>3. PICK e \in events : e.revision = campaign.revision
    BY <1>1, <1>2
  <1>4. \A f \in events : f.revision <= e.revision
    BY <1>1, <1>2, <1>3
  <1>5. last \in events /\ \A f \in events : f.revision <= last.revision
    BY <1>3, <1>4
  <1>6. last.revision = campaign.revision
    BY <1>1, <1>2, <1>3, <1>4, <1>5
  <1>7. last.digest = campaign.content
    BY <1>5, <1>6 DEF Chain
  <1>8. events # {}
    BY <1>3
  <1> QED
    BY <1>7, <1>8 DEF HeadDigest

\* Reading one more table or the chain: the cases of AfterReading.
LEMMA AfterReadingInv ==
  ASSUME IInv, NEW h \in Handler, NEW read \in Locals, pc[h] = "read",
         LocalInv("read", read), read.op = loc[h].op,
         AfterReading(h, read), UNCHANGED database
  PROVE  IInv'
  <1>1. CASE read.unread # {} /\ Goto(h, "read", read)
    BY <1>1, ReadStep DEF Steps
  <1>2. CASE read.unread = {} /\ read.op.kind \in Writers /\ Goto(h, "commit", read)
    <2>1. LocalInv("commit", read)
      BY <1>2 DEF LocalInv
    <2> QED
      BY <1>2, <2>1, ReadStep DEF Steps
  <1>3. CASE read.unread = {} /\ read.op.kind = "PIN" /\ Goto(h, "lookup", read)
    <2>1. LocalInv("lookup", read)
      BY <1>3 DEF LocalInv
    <2> QED
      BY <1>3, <2>1, ReadStep DEF Steps
  <1>4. ASSUME NEW outcome \in {"ok", "mismatch"},
               Goto(h, "done", [read EXCEPT !.outcome = outcome])
        PROVE  IInv'
    <2>1. [read EXCEPT !.outcome = outcome] \in Locals
          /\ [read EXCEPT !.outcome = outcome].op = read.op
      BY DEF Locals
    <2>2. LocalInv("done", [read EXCEPT !.outcome = outcome])
      BY <2>1 DEF LocalInv
    <2> QED
      BY <1>4, <2>1, <2>2, ReadStep DEF Steps
  <1> QED
    BY <1>1, <1>2, <1>3, <1>4 DEF AfterReading

\* What was read of a table is all of it, or some of it.
LEMMA SomeRows ==
  ASSUME NEW h \in Handler, NEW t \in Table, ReadTable(h, t) \/ ReadPart(h, t)
  PROVE  \E part \in SUBSET evidence[t] :
           /\ Rows(h, t, part)
           /\ t \notin Dropping[loc[h].op.kind] => part = evidence[t]
  BY DEF ReadTable, ReadPart

\* Reading an evidence table.
LEMMA ReadTableInv ==
  ASSUME IInv, NEW h \in Handler, NEW t \in Table, ReadTable(h, t) \/ ReadPart(h, t)
  PROVE  IInv'
  <1>0. PICK part \in SUBSET evidence[t] : Rows(h, t, part)
    BY SomeRows
  <1> DEFINE read == [loc[h] EXCEPT !.view[t] = part, !.unread = @ \ {t}]
  <1>1. /\ loc[h] \in Locals /\ loc[h].op \in Ops /\ LocalInv("read", loc[h])
        /\ part \in SUBSET Nat
    BY <1>0 DEF Rows, IInv, LocalInv, TypeOK, View
  <1>2. /\ read \in Locals /\ read.op = loc[h].op /\ read.row = loc[h].row
        /\ read.previous = loc[h].previous
        /\ read.unread = loc[h].unread \ {t}
    BY <1>1 DEF Locals, View, Unread
  <1>3. t # "audit_events"
    BY ConstantsAssumption
  <1>4. LocalInv("read", read)
    BY <1>1, <1>2, <1>3 DEF LocalInv
  <1> QED
    BY <1>0, <1>2, <1>4, AfterReadingInv DEF Rows

\* Reading the audit chain: if the row in hand is still the stored one, the
\* digest read with it is that of its content.
LEMMA ReadAuditInv ==
  ASSUME IInv, NEW h \in Handler, ReadAudit(h)
  PROVE  IInv'
  <1> DEFINE read == [loc[h] EXCEPT !.previous = HeadDigest(events),
                                    !.unread = @ \ {"audit_events"}]
  <1>1. loc[h] \in Locals /\ loc[h].op \in Ops /\ LocalInv("read", loc[h])
    BY DEF ReadAudit, IInv, LocalInv, TypeOK
  <1>2. HeadDigest(events) = campaign.content /\ campaign.content \in Digest
    BY HeadIsContent DEF IInv, TypeOK, Row, Digest
  <1>3. /\ read \in Locals /\ read.op = loc[h].op /\ read.row = loc[h].row
        /\ read.previous = campaign.content
    BY <1>1, <1>2 DEF Locals, Unread
  <1>4. LocalInv("read", read)
    BY <1>1, <1>3 DEF LocalInv
  <1>5. CASE Answer(h, "integrity")
    BY <1>5, AnswerStep DEF ReadAudit
  <1>6. CASE AfterReading(h, read)
    BY <1>3, <1>4, <1>6, AfterReadingInv DEF ReadAudit
  <1> QED
    BY <1>5, <1>6 DEF ReadAudit

-----------------------------------------------------------------------------
(* The commit *)

\* What a writer has in hand when its insertions succeed is the stored row:
\* had anybody committed since it read, the event of the next revision would
\* be there already.
LEMMA Fence ==
  ASSUME IInv, NEW h \in Handler, pc[h] = "commit", loc[h].op.kind \in Writers,
         UniqueEvent(NewEvent(NextRevision(loc[h].row), loc[h].op, loc[h].previous))
  PROVE  /\ loc[h].row = campaign
         /\ loc[h].previous = campaign.content
         /\ campaign.state = "OPEN"
         /\ loc[h].op.ifMatch \in {0, campaign.revision}
  <1> DEFINE row == loc[h].row
  <1>1. LocalInv("commit", loc[h])
    BY DEF IInv
  <1>2. /\ row \in Row /\ row.revision \in Nat /\ campaign.revision \in Nat
        /\ row.revision <= campaign.revision
        /\ row.revision = campaign.revision => row = campaign
    BY <1>1 DEF LocalInv, RowIsPast, IInv, TypeOK, Row
  <1>3. {e.revision : e \in events} = 1..campaign.revision
    BY DEF IInv, Chain, ValidateDetailed
  <1>4. row.revision + 1 \notin {e.revision : e \in events}
    BY DEF UniqueEvent, NewEvent, NextRevision
  <1>5. row.revision = campaign.revision
    <2>1. row.revision + 1 \notin 1..campaign.revision
      BY <1>3, <1>4
    <2> HIDE DEF row
    <2> QED
      BY <1>2, <2>1
  <1> QED
    BY <1>1, <1>2, <1>5 DEF LocalInv

\* The commit of a writer appends one request to the log.
Committed(h) ==
  /\ campaign' = Updated(campaign, loc[h].op)
  /\ events' = events \cup {NewEvent(campaign.revision + 1, loc[h].op, campaign.content)}

\* A successful commit extends the chain by the event of the next revision.
LEMMA CommitChain ==
  ASSUME TypeOK, Chain, NEW h \in Handler, loc[h].op \in Ops, Committed(h)
  PROVE  Chain'
  <1> DEFINE op == loc[h].op
             n == campaign.revision
             event == NewEvent(n + 1, op, campaign.content)
  <1>1. n \in Nat /\ n >= 1 /\ n = Len(campaign.content) /\ campaign.content \in Seq(Ops)
    BY DEF TypeOK, Row, Chain
  <1>2. /\ campaign'.revision = n + 1
        /\ campaign'.content = Append(campaign.content, op)
    BY DEF Committed, Updated, NextRevision
  <1>3. /\ event.revision = n + 1 /\ event.previous = campaign.content
        /\ event.digest = Append(campaign.content, op)
    BY DEF NewEvent
  <1>4. {e.revision : e \in events} = 1..n
    BY DEF Chain, ValidateDetailed
  <1>5. events' = events \cup {event}
    BY DEF Committed
  <1>6. {e.revision : e \in events'} = 1..(n + 1)
    <2>1. {e.revision : e \in events'} = {e.revision : e \in events} \cup {n + 1}
      BY <1>3, <1>5
    <2>2. 1..(n + 1) = 1..n \cup {n + 1}
      BY <1>1
    <2> QED
      BY <1>4, <2>1, <2>2
  <1>7. \A e \in events : e.revision \in 1..n
    BY <1>4
  <1>8. ASSUME NEW e \in events'
        PROVE  /\ e.digest = Append(e.previous, e.op)
               /\ e.revision = 1 => e.previous = <<>>
               /\ \A f \in events' : e.revision = f.revision + 1 => e.previous = f.digest
    <2>1. CASE e \in events
      <3>1. \A f \in events : e.revision = f.revision + 1 => e.previous = f.digest
        BY <2>1 DEF Chain, ValidateDetailed
      <3>2. e.revision # event.revision + 1
        BY <1>1, <1>3, <1>7, <2>1
      <3> QED
        BY <1>5, <2>1, <3>1, <3>2 DEF Chain, ValidateDetailed
    <2>2. CASE e = event
      <3>1. e.digest = Append(e.previous, e.op)
        BY <2>2 DEF NewEvent
      <3>2. e.revision # 1
        BY <1>1, <1>3, <2>2
      <3>3. \A f \in events : f.revision = n => f.digest = campaign.content
        BY DEF Chain
      <3>4. \A f \in events' : e.revision = f.revision + 1 => e.previous = f.digest
        BY <1>1, <1>3, <1>5, <1>7, <2>2, <3>3
      <3> QED
        BY <3>1, <3>2, <3>4
    <2> QED
      BY <1>5, <2>1, <2>2
  <1>9. ValidateDetailed(events', campaign'.revision)
    BY <1>2, <1>6, <1>8 DEF ValidateDetailed
  <1>10. \A e, f \in events' : e.revision = f.revision => e = f
    BY <1>1, <1>3, <1>5, <1>7 DEF Chain
  <1>11. \A e \in events' : e.revision = n + 1 => e.digest = Append(campaign.content, op)
    BY <1>1, <1>3, <1>5, <1>7
  <1>12. Len(campaign'.content) = n + 1
    BY <1>1, <1>2
  <1> QED
    BY <1>1, <1>2, <1>9, <1>10, <1>11, <1>12 DEF Chain, ValidateDetailed

\* And it records the key of its request.
LEMMA CommitKeys ==
  ASSUME TypeOK, KeysRecorded, NEW h \in Handler, loc[h].op \in Ops, Committed(h),
         idem' = IF loc[h].op.key = NoKey THEN idem
                 ELSE idem \cup {[key |-> loc[h].op.key, hash |-> loc[h].op.hash]}
  PROVE  KeysRecorded'
  <1> DEFINE op == loc[h].op
             content == campaign.content
  <1>1. content \in Seq(Ops) /\ campaign'.content = Append(content, op)
    BY DEF TypeOK, Row, Committed, Updated
  <1>2. SUFFICES ASSUME NEW i \in 1..Len(Append(content, op)),
                        Append(content, op)[i].key # NoKey
                 PROVE  \E x \in idem' : x.key = Append(content, op)[i].key
    BY <1>1 DEF KeysRecorded
  <1>3. CASE i = Len(content) + 1
    <2>1. Append(content, op)[i] = op
      BY <1>1, <1>3
    <2>2. [key |-> op.key, hash |-> op.hash] \in idem'
      BY <1>2, <2>1
    <2> QED
      BY <2>1, <2>2
  <1>4. CASE i \in 1..Len(content)
    <2>1. Append(content, op)[i] = content[i]
      BY <1>1, <1>4
    <2>2. \E x \in idem : x.key = content[i].key
      BY <1>2, <1>4, <2>1 DEF KeysRecorded
    <2>3. idem \subseteq idem'
      OBVIOUS
    <2> QED
      BY <2>1, <2>2, <2>3
  <1>5. i = Len(content) + 1 \/ i \in 1..Len(content)
    BY <1>1
  <1> QED
    BY <1>3, <1>4, <1>5

\* A handler that holds an older row still holds an older one after a commit.
LEMMA CommitLocal ==
  ASSUME IInv, NEW h \in Handler, Committed(h), NEW step \in Steps, NEW l \in Locals,
         LocalInv(step, l)
  PROVE  LocalInv(step, l)'
  <1>1. campaign'.revision = campaign.revision + 1 /\ campaign.revision \in Nat
    BY DEF Committed, Updated, NextRevision, IInv, TypeOK, Row
  <1>2. ASSUME RowIsPast(l.row) PROVE RowIsPast(l.row)' /\ l.row # campaign'
    BY <1>1, <1>2 DEF RowIsPast, Row
  <1> QED
    BY <1>2 DEF LocalInv

\* Store.Commit of a writer: the fence makes the row in hand the stored one,
\* so the chain and the keys grow by one and every other row gets older.
LEMMA CommitInv ==
  ASSUME IInv, NEW h \in Handler, Commit(h)
  PROVE  IInv'
  <1> DEFINE op == loc[h].op
             row == loc[h].row
             event == NewEvent(NextRevision(row), op, loc[h].previous)
             new == [Idle EXCEPT !.op = op, !.outcome = "ok"]
  <1>1. loc[h] \in Locals /\ op \in Ops /\ TypeOK
    BY DEF Commit, IInv, LocalInv, TypeOK
  <1>2. CASE Answer(h, "unique") /\ UNCHANGED database
    BY <1>2, AnswerStep DEF Commit
  <1>3. CASE /\ UniqueEvent(event) /\ UniqueKey(op)
             /\ campaign' = Updated(row, op)
             /\ events' = events \cup {event}
             /\ idem' = IF op.key = NoKey THEN idem
                        ELSE idem \cup {[key |-> op.key, hash |-> op.hash]}
             /\ \E written \in SUBSET Table :
                  evidence' = [t \in Table |-> IF t \in written
                                 THEN evidence[t] \cup {event.revision} ELSE evidence[t]]
             /\ artifact' = IF op.kind = "ARCHIVE"
                            THEN [content |-> Append(row.content, op),
                                  view |-> loc[h].view, head |-> event.digest]
                            ELSE artifact
             /\ UNCHANGED snapshots
             /\ Answer(h, "ok")
    <2>1. row = campaign /\ loc[h].previous = campaign.content
      BY <1>3, Fence DEF Commit
    <2>2. Committed(h)
      BY <1>3, <2>1 DEF Committed, NextRevision
    <2>3. campaign.revision \in Nat /\ campaign.content \in Seq(Ops) /\ campaign \in Row
      BY <1>1 DEF TypeOK, Row
    <2>4. event \in Event /\ event.revision = campaign.revision + 1
          /\ event.digest = Append(campaign.content, op)
      BY <1>1, <2>1, <2>3 DEF NewEvent, NextRevision, Event, Digest
    <2>5. campaign' \in Row
      BY <1>1, <1>3, <2>1, <2>3 DEF Updated, NextRevision, Row
    <2>6. idem' \in SUBSET IdemRow
      BY <1>1, <1>3 DEF TypeOK, IdemRow, Ops
    <2>7. evidence' \in View
      <3>1. PICK written \in SUBSET Table :
              evidence' = [t \in Table |-> IF t \in written
                             THEN evidence[t] \cup {event.revision} ELSE evidence[t]]
        BY <1>3
      <3>2. event.revision \in Nat
        BY <2>3, <2>4
      <3> QED
        BY <1>1, <3>1, <3>2 DEF TypeOK, View
    <2>8. artifact' \in Artifact \cup {Nil}
      <3>1. Append(row.content, op) \in Seq(Ops) /\ event.digest \in Digest
        <4>1. Append(campaign.content, op) \in Seq(Ops)
          BY <1>1, <2>3
        <4> QED
          BY <2>1, <2>4, <4>1 DEF Digest
      <3>2. loc[h].view \in View
        BY <1>1 DEF Locals
      <3>3. [content |-> Append(row.content, op), view |-> loc[h].view,
             head |-> event.digest] \in Artifact
        BY <3>1, <3>2 DEF Artifact
      <3> QED
        BY <1>1, <1>3, <3>3 DEF TypeOK
    <2>9. new \in Locals /\ new.op = op
      BY <1>1, IdleIsLocals DEF Locals
    <2>10. pc' = [pc EXCEPT ![h] = "done"] /\ loc' = [loc EXCEPT ![h] = new]
      BY <1>3 DEF Answer, Goto
    <2>11. pc' \in [Handler -> Steps] /\ loc' \in [Handler -> Locals]
      BY <1>1, <2>9, <2>10 DEF TypeOK, Steps
    <2>12. TypeOK'
      BY <1>1, <1>3, <2>4, <2>5, <2>6, <2>7, <2>8, <2>11 DEF TypeOK
    <2>13. Chain'
      BY <1>1, <2>2, CommitChain DEF IInv
    <2>14. KeysRecorded'
      BY <1>1, <1>3, <2>2, CommitKeys DEF IInv
    <2>15. ASSUME NEW g \in Handler PROVE LocalInv(pc[g], loc[g])'
      <3>1. CASE g = h
        <4>1. pc'[g] = "done" /\ loc'[g] = new
          BY <1>1, <2>10, <3>1 DEF TypeOK
        <4> QED
          BY <1>1, <2>9, <4>1 DEF LocalInv
      <3>2. CASE g # h
        <4>1. pc'[g] = pc[g] /\ loc'[g] = loc[g]
          BY <1>1, <2>10, <3>2 DEF TypeOK
        <4>2. pc[g] \in Steps /\ loc[g] \in Locals /\ LocalInv(pc[g], loc[g])
          BY DEF IInv, TypeOK
        <4> HIDE DEF new
        <4> QED
          BY <2>2, <4>1, <4>2, CommitLocal DEF LocalInv, RowIsPast
      <3> QED
        BY <3>1, <3>2
    <2> QED
      BY <2>12, <2>13, <2>14, <2>15 DEF IInv
  <1> QED
    BY <1>2, <1>3 DEF Commit, Overtaken, Rollback

\* Store.Commit of a review snapshot touches neither row nor chain.
LEMMA CommitSnapshotInv ==
  ASSUME IInv, NEW h \in Handler, CommitSnapshot(h)
  PROVE  IInv'
  <1> DEFINE new == [Idle EXCEPT !.op = loc[h].op, !.outcome = "ok"]
  <1>1. /\ loc[h] \in Locals /\ loc[h].op \in Ops /\ TypeOK
        /\ loc[h].row \in Row
    BY DEF CommitSnapshot, IInv, LocalInv, TypeOK, RowIsPast
  <1>2. new \in Locals /\ new.op = loc[h].op
    BY <1>1, IdleIsLocals DEF Locals
  <1>3. [revision |-> loc[h].label, content |-> loc[h].row.content,
         view |-> loc[h].view] \in ReviewSnapshot
    BY <1>1 DEF ReviewSnapshot, Locals, Row
  <1>4. TypeOK'
    BY <1>1, <1>2, <1>3 DEF CommitSnapshot, Answer, Goto, TypeOK, Steps
  <1>5. Chain' /\ KeysRecorded'
    BY DEF CommitSnapshot, IInv, Chain, KeysRecorded, ValidateDetailed
  <1>6. ASSUME NEW g \in Handler PROVE LocalInv(pc[g], loc[g])'
    <2>1. LocalInv(pc'[g], loc'[g])
      BY <1>1, <1>2 DEF CommitSnapshot, Answer, Goto, IInv, TypeOK, LocalInv
    <2> QED
      BY <2>1 DEF LocalInv, RowIsPast, CommitSnapshot
  <1> QED
    BY <1>4, <1>5, <1>6 DEF IInv

\* An answered request leaves nothing in hand.
LEMMA ReplyInv ==
  ASSUME IInv, NEW h \in Handler, Reply(h)
  PROVE  IInv'
  <1>1. LocalInv("idle", Idle)
    BY DEF LocalInv
  <1> QED
    BY <1>1, IdleIsLocals, ReadStep DEF Reply, Steps

\* A crash loses what is in hand and nothing that is stored.
LEMMA CrashInv ==
  ASSUME IInv, Crash
  PROVE  IInv'
  <1>1. TypeOK'
    BY IdleIsLocals DEF IInv, TypeOK, Crash, database, Steps
  <1>2. Chain' /\ KeysRecorded'
    BY DEF IInv, Crash, Chain, KeysRecorded, database, ValidateDetailed
  <1>3. ASSUME NEW g \in Handler PROVE LocalInv(pc[g], loc[g])'
    BY DEF Crash, LocalInv
  <1> QED
    BY <1>1, <1>2, <1>3 DEF IInv

\* The invariant speaks of the variables alone.
LEMMA StutterInv == IInv /\ UNCHANGED vars => IInv'
  BY DEF IInv, vars, TypeOK, Chain, ValidateDetailed, KeysRecorded, LocalInv, RowIsPast

\* Every step keeps the invariant.
LEMMA NextIInv == IInv /\ [Next]_vars => IInv'
  <1> SUFFICES ASSUME IInv, Next PROVE IInv'
    BY StutterInv
  <1>1. ASSUME NEW h \in Handler, Step(h) PROVE IInv'
    BY <1>1, ReadArtifactInv, ReadCampaignInv, ReadCampaignAgainInv, ReplayInv,
       LookupSnapshotInv, ReadTableInv, ReadAuditInv, CommitInv, CommitSnapshotInv,
       ReplyInv, AnswerStep DEF Step, Refuse
  <1>2. ASSUME NEW h \in Handler, Fail(h) PROVE IInv'
    BY <1>2, AnswerStep DEF Fail, Rollback
  <1> QED
    BY <1>1, <1>2, ReadTableInv, ReceiveInv, CrashInv DEF Next

\* The inductive invariant holds of every reachable state: what a handler has
\* in hand is past or present, and the chain is whole (GetCampaign, newEvent,
\* Store.Commit).
THEOREM Invariance == Spec => []IInv
  BY InitIInv, NextIInv, PTL DEF Spec

-----------------------------------------------------------------------------
(* Theorems *)

\* Every variable keeps its type.
THEOREM TypeCorrect == Spec => []TypeOK
  <1>1. IInv => TypeOK
    BY DEF IInv
  <1> QED
    BY <1>1, Invariance, PTL

\* The stored audit chain is whole and its head is the campaign's content,
\* however handlers interleave and wherever the process crashes.
THEOREM AuditChainHolds == Spec => []AuditChain
  <1>1. IInv => AuditChain
    BY HeadIsContent DEF IInv, Chain, AuditChain
  <1> QED
    BY <1>1, Invariance, PTL

\* A committed decision was made on the stored row and the last audit digest,
\* and a step of the handlers is a step of the atomic log or none at all.
LEMMA LogStep == IInv /\ [Next]_vars => [Log!LogNext]_(Log!logVars)
  <1> SUFFICES ASSUME IInv, [Next]_vars
               PROVE  Log!LogNext \/ UNCHANGED campaign
    BY DEF Log!logVars
  <1>1. ASSUME NEW h \in Handler, Commit(h), campaign' # campaign
        PROVE  Log!Apply(loc[h].op)
    <2> DEFINE op == loc[h].op
               row == loc[h].row
    <2>1. /\ UniqueEvent(NewEvent(NextRevision(row), op, loc[h].previous))
          /\ UniqueKey(op)
          /\ campaign' = Updated(row, op)
          /\ op \in Ops
      BY <1>1 DEF Commit, Rollback, database, IInv, LocalInv
    <2>2. /\ row = campaign /\ campaign.state = "OPEN"
          /\ op.ifMatch \in {0, campaign.revision}
      BY <1>1, <2>1, Fence DEF Commit
    <2>3. Log!FreshKey(op)
      BY <2>1 DEF Log!FreshKey, UniqueKey, IInv, KeysRecorded
    <2>4. Log!ExpectedRevision(op)
      BY <2>2 DEF Log!ExpectedRevision, IInv, Chain
    <2>5. /\ campaign'.content = Append(campaign.content, op)
          /\ (campaign'.state = "ARCHIVED") = (op.kind = "ARCHIVE")
      BY <2>1, <2>2 DEF Updated
    <2> QED
      BY <2>2, <2>3, <2>4, <2>5 DEF Log!Apply
  <1>2. ASSUME NEW h \in Handler, Commit(h), campaign' # campaign
        PROVE  Log!LogNext
    BY <1>1, <1>2 DEF Log!LogNext, IInv, LocalInv, Commit
  <1>3. ASSUME NEW h \in Handler, Step(h), ~Commit(h) PROVE UNCHANGED campaign
    BY <1>3 DEF Step, ReadArtifact, ReadCampaign, ReadCampaignAgain, Replay, LookupSnapshot,
       ReadTable, Rows, ReadAudit, Refuse, CommitSnapshot, Reply, database
  <1> QED
    BY <1>2, <1>3 DEF Next, Receive, ReadPart, Rows, Fail, Rollback, Crash, vars, database

\* The concurrent handlers implement the atomic log: no update is lost, none
\* is applied twice, If-Match is honoured and nothing follows the archive.
THEOREM Refinement == Spec => ImplementsLog
  <1>1. Init => Log!LogInit
    BY DEF Init, Log!LogInit
  <1> QED
    BY <1>1, LogStep, Invariance, PTL DEF Spec, ImplementsLog, Log!LogSpec

-----------------------------------------------------------------------------
(* Every request is answered after finitely many statements *)

\* How far a request of a kind that is at step is from its answer.  A review
\* looks its snapshot up before it reads the tables, a new snapshot after.
Stage(step, kind) ==
  CASE step = "artifact" -> 7
    [] step = "campaign" -> 6
    [] step \in {"replay", "snapshot"} -> 5
    [] step = "lookup" /\ kind = "SIGN" -> 4
    [] step = "read" -> 3
    [] step = "lookup" /\ kind # "SIGN" -> 2
    [] step = "commit" -> 1
    [] OTHER -> 0

\* Going from one step and its local variables to the next leaves less to do:
\* a later stage, or the same one with one table less to read.
Less(step, l, next, new) ==
  \/ Stage(next, new.op.kind) < Stage(step, l.op.kind)
  \/ /\ Stage(next, new.op.kind) = Stage(step, l.op.kind)
     /\ \E t \in l.unread : new.unread = l.unread \ {t}

Busy(h) == pc[h] \notin {"idle", "done"}

\* Whatever step the system takes, a request in flight is where it was or has
\* less to do: no handler goes back, reads a table twice or tries again.
StatementsRunOut ==
  [][\A h \in Handler : Busy(h) =>
       \/ pc'[h] = pc[h] /\ loc'[h] = loc[h]
       \/ Less(pc[h], loc[h], pc'[h], loc'[h])]_vars

\* A request in flight has a statement left that it may execute: what it is
\* to read next does not wait for something it may not read yet.
MayGoOn(h) ==
  /\ loc[h].op.kind \in Writers \cup Readers
  /\ pc[h] = "commit" => loc[h].op.kind \in Writers \cup {"PIN"}
  /\ pc[h] = "read" =>
       \/ "audit_events" \in loc[h].unread /\ MayReadAudit(h)
       \/ MayReadTable(h) /\ \E t \in Table : t \in loc[h].unread

NeverStuck == \A h \in Handler : Busy(h) => MayGoOn(h)

\* What a handler that is at step has still to read with local variables l.
Going(step, l) ==
  /\ step \notin {"idle", "done"} => l.op.kind \in Writers \cup Readers
  /\ step \in {"replay", "snapshot", "read"} => l.unread # {}
  /\ step = "lookup" /\ l.op.kind = "SIGN" => l.unread # {}
  /\ step = "snapshot" => l.op.kind = "PIN"
  /\ step = "commit" => l.op.kind \in Writers \cup {"PIN"}

GoInv == \A h \in Handler : Going(pc[h], loc[h])

\* Handler h goes to a step from which it can go on, with less to do.
Onward(h) ==
  \E step \in Steps, new \in Locals :
    /\ Goto(h, step, new)
    /\ Going(step, new)
    /\ Busy(h) => Less(pc[h], loc[h], step, new)

\* The stages, one by one.
LEMMA Stages ==
  ASSUME NEW kind
  PROVE  /\ Stage("artifact", kind) = 7 /\ Stage("campaign", kind) = 6
         /\ Stage("replay", kind) = 5 /\ Stage("snapshot", kind) = 5
         /\ kind = "SIGN" => Stage("lookup", kind) = 4
         /\ kind # "SIGN" => Stage("lookup", kind) = 2
         /\ Stage("read", kind) = 3 /\ Stage("commit", kind) = 1
         /\ Stage("done", kind) = 0 /\ Stage("idle", kind) = 0
         /\ \A step \in Steps \ {"idle", "done"} : 0 < Stage(step, kind)
  <1>1. /\ Stage("artifact", kind) = 7 /\ Stage("campaign", kind) = 6
        /\ Stage("replay", kind) = 5 /\ Stage("snapshot", kind) = 5
        /\ kind = "SIGN" => Stage("lookup", kind) = 4
        /\ kind # "SIGN" => Stage("lookup", kind) = 2
        /\ Stage("read", kind) = 3 /\ Stage("commit", kind) = 1
        /\ Stage("done", kind) = 0 /\ Stage("idle", kind) = 0
    BY DEF Stage
  <1>2. Stage("lookup", kind) \in {2, 4}
    BY <1>1
  <1> QED
    BY <1>1, <1>2 DEF Steps

\* Answering is going on.
LEMMA AnswerOnward ==
  ASSUME IInv, NEW h \in Handler, Busy(h),
         NEW outcome \in {"ok", "replayed", "refused", "archived", "conflict",
                          "key conflict", "stale snapshot", "unique",
                          "integrity", "mismatch", "failed"},
         Answer(h, outcome)
  PROVE  Onward(h)
  <1> DEFINE new == [Idle EXCEPT !.op = loc[h].op, !.outcome = outcome]
  <1>1. loc[h].op \in Ops /\ pc[h] \in Steps
    BY DEF IInv, LocalInv, TypeOK, Busy
  <1>2. new \in Locals /\ new.op = loc[h].op
    BY <1>1, IdleIsLocals DEF Locals
  <1>3. Going("done", new)
    BY DEF Going
  <1>4. 0 < Stage(pc[h], loc[h].op.kind)
    BY <1>1, Stages DEF Busy
  <1>5. Less(pc[h], loc[h], "done", new)
    <2> HIDE DEF new
    <2>1. Stage("done", new.op.kind) = 0
      BY Stages
    <2>2. Stage("done", new.op.kind) < Stage(pc[h], loc[h].op.kind)
      BY <1>4, <2>1, Stages, Zenon
    <2> QED
      BY <2>2 DEF Less
  <1> QED
    BY <1>2, <1>3, <1>5 DEF Onward, Answer, Steps

\* A new request has a handler's first step before it.
LEMMA ReceiveOnward ==
  ASSUME IInv, NEW h \in Handler, NEW op \in Requests, Receive(h, op)
  PROVE  Onward(h)
  <1> DEFINE new == [Idle EXCEPT !.op = op]
             step == IF op.kind = "VERIFY" THEN "artifact" ELSE "campaign"
  <1>1. new \in Locals /\ new.op = op /\ op.kind \in Writers \cup Readers /\ step \in Steps
    BY IdleIsLocals, ConstantsAssumption DEF Requests, Locals, Writers, Readers, Steps
  <1>2. Going(step, new)
    BY <1>1 DEF Going
  <1> QED
    BY <1>1, <1>2 DEF Receive, Onward, Busy

\* The reads of the artifact and of the campaign.
LEMMA FirstOnward ==
  ASSUME IInv, GoInv, NEW h \in Handler,
         ReadArtifact(h) \/ ReadCampaign(h) \/ ReadCampaignAgain(h)
  PROVE  Onward(h)
  <1>1. /\ loc[h] \in Locals /\ loc[h].op \in Ops /\ campaign \in Row
        /\ loc[h].op.kind \in Writers \cup Readers /\ Busy(h) /\ Going(pc[h], loc[h])
    BY DEF ReadArtifact, ReadCampaign, ReadCampaignAgain, IInv, LocalInv, TypeOK, GoInv,
           Going, Busy
  <1>2. ASSUME ReadArtifact(h) PROVE Onward(h)
    <2> DEFINE new == [loc[h] EXCEPT !.artifact = artifact]
    <2>1. CASE artifact = Nil
      BY <1>1, <1>2, <2>1, AnswerOnward DEF ReadArtifact
    <2>2. CASE artifact # Nil
      <3>1. new \in Locals /\ new.op = loc[h].op
        BY DEF IInv, TypeOK, Locals
      <3>2. Going("campaign", new) /\ Less(pc[h], loc[h], "campaign", new)
        BY <1>1, <1>2, <3>1 DEF Going, Less, Stage, ReadArtifact
      <3> QED
        BY <1>2, <2>2, <3>1, <3>2 DEF ReadArtifact, Onward, Steps
    <2> QED
      BY <2>1, <2>2
  <1>3. ASSUME ReadCampaign(h) PROVE Onward(h)
    <2> DEFINE read == [loc[h] EXCEPT !.row = campaign,
                                      !.unread = Table \cup {"audit_events"}]
               pinned == [read EXCEPT !.label = campaign.revision]
    <2>1. /\ read \in Locals /\ read.op = loc[h].op /\ read.unread # {}
          /\ pinned \in Locals /\ pinned.op = loc[h].op /\ pinned.unread # {}
      BY <1>1 DEF Locals, Unread, Row
    <2>2. CASE loc[h].op.kind \in Writers /\ Goto(h, "replay", read)
      <3>1. Going("replay", read) /\ Less(pc[h], loc[h], "replay", read)
        BY <1>1, <1>3, <2>1 DEF Going, Less, Stage, ReadCampaign
      <3> QED
        BY <2>1, <2>2, <3>1 DEF Onward, Steps
    <2>3. CASE loc[h].op.kind \in {"SNAPSHOT", "VERIFY"} /\ Goto(h, "read", read)
      <3>1. Going("read", read) /\ Less(pc[h], loc[h], "read", read)
        BY <1>1, <1>3, <2>1 DEF Going, Less, Stage, ReadCampaign
      <3> QED
        BY <2>1, <2>3, <3>1 DEF Onward, Steps
    <2>4. CASE loc[h].op.kind = "PIN" /\ Goto(h, "snapshot", pinned)
      <3>1. Going("snapshot", pinned) /\ Less(pc[h], loc[h], "snapshot", pinned)
        BY <1>1, <1>3, <2>1, <2>4 DEF Going, Less, Stage, ReadCampaign
      <3> QED
        BY <2>1, <2>4, <3>1 DEF Onward, Steps
    <2>5. CASE Answer(h, "archived") \/ Answer(h, "refused")
      BY <1>1, <2>5, AnswerOnward
    <2> QED
      BY <1>3, <2>2, <2>3, <2>4, <2>5 DEF ReadCampaign
  <1>4. ASSUME ReadCampaignAgain(h) PROVE Onward(h)
    <2> DEFINE new == [loc[h] EXCEPT !.row = campaign]
    <2>1. new \in Locals /\ new.op = loc[h].op /\ new.unread = loc[h].unread
      BY <1>1 DEF Locals
    <2>2. Going("read", new) /\ Less(pc[h], loc[h], "read", new)
      BY <1>1, <1>4, <2>1 DEF Going, Less, Stage, ReadCampaignAgain
    <2> QED
      BY <1>4, <2>1, <2>2 DEF ReadCampaignAgain, Onward, Steps
  <1> QED
    BY <1>2, <1>3, <1>4

\* The look at the idempotency table, and the one at the stored snapshots.
LEMMA CheckOnward ==
  ASSUME IInv, GoInv, NEW h \in Handler, Replay(h) \/ LookupSnapshot(h)
  PROVE  Onward(h)
  <1>1. /\ loc[h] \in Locals /\ loc[h].op \in Ops /\ Busy(h) /\ Going(pc[h], loc[h])
        /\ LocalInv(pc[h], loc[h])
    BY DEF Replay, LookupSnapshot, IInv, LocalInv, TypeOK, GoInv, Busy
  <1>2. ASSUME NEW step \in {"lookup", "read"}, Replay(h), Goto(h, step, loc[h]),
               step = "lookup" => loc[h].op.kind = "SIGN"
        PROVE  Onward(h)
    <2>1. Going(step, loc[h])
      BY <1>1, <1>2 DEF Going, Replay, Writers
    <2>2. Less(pc[h], loc[h], step, loc[h])
      <3>1. pc[h] = "replay" /\ Stage("replay", loc[h].op.kind) = 5
        BY <1>2, Stages DEF Replay
      <3>2. Stage(step, loc[h].op.kind) \in {3, 4}
        BY <1>2, Stages
      <3>3. Stage(step, loc[h].op.kind) < Stage(pc[h], loc[h].op.kind)
        BY <3>1, <3>2
      <3> QED
        BY <3>3 DEF Less
    <2> QED
      BY <1>1, <1>2, <2>1, <2>2 DEF Onward, Steps
  <1>3. ASSUME Replay(h) PROVE Onward(h)
    BY <1>1, <1>2, <1>3, AnswerOnward DEF Replay
  <1>4. ASSUME LookupSnapshot(h), loc[h].op.kind = "SIGN", Goto(h, "read", loc[h])
        PROVE  Onward(h)
    <2>1. Going("read", loc[h])
      BY <1>1, <1>4 DEF Going, LookupSnapshot, Writers
    <2>2. Less(pc[h], loc[h], "read", loc[h])
      <3>1. Stage("read", loc[h].op.kind) = 3 /\ Stage(pc[h], loc[h].op.kind) = 4
        BY <1>4, Stages DEF LookupSnapshot
      <3>2. Stage("read", loc[h].op.kind) < Stage(pc[h], loc[h].op.kind)
        BY <3>1
      <3> QED
        BY <3>2 DEF Less
    <2> QED
      BY <1>1, <1>4, <2>1, <2>2 DEF Onward, Steps
  <1>5. ASSUME LookupSnapshot(h), loc[h].op.kind = "PIN", Goto(h, "commit", loc[h])
        PROVE  Onward(h)
    <2>1. Going("commit", loc[h]) /\ Less(pc[h], loc[h], "commit", loc[h])
      BY <1>1, <1>5 DEF Going, Less, Stage, LookupSnapshot, Writers, Readers
    <2> QED
      BY <1>1, <1>5, <2>1 DEF Onward, Steps
  <1>6. ASSUME LookupSnapshot(h) PROVE Onward(h)
    <2>1. loc[h].op.kind \in {"SIGN", "PIN"}
      BY <1>1, <1>6 DEF LocalInv, LookupSnapshot
    <2> QED
      BY <1>1, <1>4, <1>5, <1>6, <2>1, AnswerOnward DEF LookupSnapshot
  <1> QED
    BY <1>3, <1>6

\* Reading one more of what is unread.
LEMMA ReadOnward ==
  ASSUME IInv, GoInv, NEW h \in Handler, pc[h] = "read",
         NEW new \in Locals, new.op = loc[h].op,
         NEW t \in loc[h].unread, new.unread = loc[h].unread \ {t},
         AfterReading(h, new)
  PROVE  Onward(h)
  <1>1. /\ loc[h].op \in Ops /\ Going(pc[h], loc[h]) /\ Busy(h)
        /\ loc[h].op.kind \in Writers \cup Readers
    BY DEF IInv, LocalInv, GoInv, Going, Busy
  <1>2. CASE new.unread # {} /\ Goto(h, "read", new)
    <2>1. Going("read", new) /\ Less(pc[h], loc[h], "read", new)
      BY <1>1, <1>2 DEF Going, Less
    <2> QED
      BY <1>2, <2>1 DEF Onward, Steps
  <1>3. CASE new.op.kind \in Writers /\ Goto(h, "commit", new)
    <2>1. Going("commit", new) /\ Less(pc[h], loc[h], "commit", new)
      BY <1>1, <1>3 DEF Going, Less, Stage
    <2> QED
      BY <1>3, <2>1 DEF Onward, Steps
  <1>4. CASE new.op.kind = "PIN" /\ Goto(h, "lookup", new)
    <2>1. Going("lookup", new) /\ Less(pc[h], loc[h], "lookup", new)
      BY <1>1, <1>4 DEF Going, Less, Stage
    <2> QED
      BY <1>4, <2>1 DEF Onward, Steps
  <1>5. ASSUME NEW outcome \in {"ok", "mismatch"},
               Goto(h, "done", [new EXCEPT !.outcome = outcome])
        PROVE  Onward(h)
    <2> DEFINE last == [new EXCEPT !.outcome = outcome]
    <2>1. last \in Locals /\ Going("done", last)
      BY <1>1 DEF Going, Locals
    <2>2. Less(pc[h], loc[h], "done", last)
      BY <1>1 DEF Less, Stage
    <2> QED
      BY <1>5, <2>1, <2>2 DEF Onward, Steps
  <1> QED
    BY <1>2, <1>3, <1>4, <1>5 DEF AfterReading

\* The evidence tables and the audit chain.
LEMMA ReadsOnward ==
  ASSUME IInv, GoInv, NEW h \in Handler,
         (\E t \in Table : ReadTable(h, t) \/ ReadPart(h, t)) \/ ReadAudit(h)
  PROVE  Onward(h)
  <1>1. /\ loc[h] \in Locals /\ loc[h].op \in Ops /\ pc[h] = "read" /\ Busy(h)
        /\ evidence \in View /\ events \in SUBSET Event
    BY DEF ReadTable, ReadPart, Rows, ReadAudit, IInv, LocalInv, TypeOK, Busy
  <1>2. ASSUME NEW t \in Table, NEW part \in SUBSET evidence[t], Rows(h, t, part)
        PROVE  Onward(h)
    <2> DEFINE new == [loc[h] EXCEPT !.view[t] = part, !.unread = @ \ {t}]
    <2>1. new \in Locals /\ new.op = loc[h].op /\ new.unread = loc[h].unread \ {t}
      BY <1>1 DEF Locals, View, Unread
    <2> HIDE DEF new
    <2> QED
      BY <1>1, <1>2, <2>1, ReadOnward DEF Rows, new
  <1>3. ASSUME ReadAudit(h) PROVE Onward(h)
    <2> DEFINE new == [loc[h] EXCEPT !.previous = HeadDigest(events),
                                     !.unread = @ \ {"audit_events"}]
    <2>1. HeadDigest(events) \in Digest
      BY HeadIsContent DEF IInv, TypeOK, Row, Digest
    <2>2. new \in Locals /\ new.op = loc[h].op
          /\ new.unread = loc[h].unread \ {"audit_events"}
      BY <1>1, <2>1 DEF Locals, Unread
    <2>3. CASE AfterReading(h, new)
      <3> HIDE DEF new
      <3> QED
        BY <1>1, <1>3, <2>2, <2>3, ReadOnward DEF ReadAudit
    <2>4. CASE Answer(h, "integrity")
      BY <1>1, <2>4, AnswerOnward
    <2> QED
      BY <1>3, <2>3, <2>4 DEF ReadAudit
  <1> QED
    BY <1>2, <1>3, SomeRows

\* The two transactions, and the answer.
LEMMA CommitsOnward ==
  ASSUME IInv, GoInv, NEW h \in Handler, Commit(h) \/ CommitSnapshot(h) \/ Reply(h)
  PROVE  Onward(h)
  <1>1. CASE Commit(h) \/ CommitSnapshot(h)
    <2>1. Busy(h) /\ (Answer(h, "ok") \/ Answer(h, "unique"))
      BY <1>1 DEF Commit, CommitSnapshot, Busy, Overtaken
    <2> QED
      BY <2>1, AnswerOnward
  <1>2. CASE Reply(h)
    <2>1. Going("idle", Idle) /\ ~Busy(h)
      BY <1>2 DEF Going, Reply, Busy
    <2> QED
      BY <1>2, <2>1, IdleIsLocals DEF Reply, Onward, Steps
  <1> QED
    BY <1>1, <1>2

\* A step is a handler's going onward, or the crash that loses them all.
LEMMA OnwardOrCrash ==
  IInv /\ GoInv /\ Next => Crash \/ \E h \in Handler : Onward(h)
  <1> SUFFICES ASSUME IInv, GoInv, NEW h \in Handler,
                      \/ Step(h) \/ (\E t \in Table : ReadPart(h, t)) \/ Fail(h)
                      \/ \E op \in Requests : Receive(h, op)
               PROVE  Onward(h)
    BY DEF Next
  <1>1. CASE Step(h)
    BY <1>1, FirstOnward, CheckOnward, ReadsOnward, CommitsOnward, AnswerOnward
       DEF Step, Refuse, Busy
  <1>2. CASE Fail(h)
    BY <1>2, AnswerOnward DEF Fail, Busy
  <1> QED
    BY <1>1, <1>2, ReadsOnward, ReceiveOnward

\* Every step leaves the other handlers alone, or is the crash.
LEMMA StepOnward ==
  ASSUME IInv, GoInv, [Next]_vars, NEW h \in Handler
  PROVE  /\ Going(pc'[h], loc'[h])
         /\ Busy(h) => \/ pc'[h] = pc[h] /\ loc'[h] = loc[h]
                       \/ Less(pc[h], loc[h], pc'[h], loc'[h])
  <1>1. pc[h] \in Steps /\ Going(pc[h], loc[h]) /\ (Busy(h) => loc[h].op \in Ops)
        /\ pc \in [Handler -> Steps] /\ loc \in [Handler -> Locals]
    BY DEF IInv, TypeOK, GoInv, LocalInv, Busy
  <1>2. CASE UNCHANGED vars
    BY <1>1, <1>2 DEF vars
  <1>3. CASE Crash
    <2>1. pc'[h] = "idle" /\ loc'[h] = Idle
      BY <1>3 DEF Crash
    <2>2. Stage("idle", Idle.op.kind) = 0 /\ (Busy(h) => 0 < Stage(pc[h], loc[h].op.kind))
      BY <1>1, Stages DEF Busy, Steps
    <2> QED
      BY <2>1, <2>2 DEF Going, Less
  <1>4. ASSUME NEW g \in Handler, Onward(g)
        PROVE  /\ Going(pc'[h], loc'[h])
               /\ Busy(h) => \/ pc'[h] = pc[h] /\ loc'[h] = loc[h]
                             \/ Less(pc[h], loc[h], pc'[h], loc'[h])
    <2>1. PICK step \in Steps, new \in Locals :
            /\ pc' = [pc EXCEPT ![g] = step] /\ loc' = [loc EXCEPT ![g] = new]
            /\ Going(step, new)
            /\ Busy(g) => Less(pc[g], loc[g], step, new)
      BY <1>4 DEF Onward, Goto
    <2>2. CASE h = g
      BY <1>1, <2>1, <2>2
    <2>3. CASE h # g
      BY <1>1, <2>1, <2>3
    <2> QED
      BY <2>2, <2>3
  <1> QED
    BY <1>2, <1>3, <1>4, OnwardOrCrash

\* What is still to be read is never lost sight of.
LEMMA GoInvariance == Spec => [](IInv /\ GoInv)
  <1>1. Init => GoInv
    BY DEF Init, GoInv, Going
  <1>2. IInv /\ GoInv /\ [Next]_vars => GoInv'
    BY StepOnward DEF GoInv
  <1> QED
    BY <1>1, <1>2, Invariance, PTL DEF Spec

\* However handlers interleave, fail and crash, a request in flight is where
\* it was or has less to do, and there are at most 7 stages and a table less
\* at each step of the reading one (the handlers of service.go and v39.go,
\* none of which retries a commit or goes back to read again).
THEOREM RunOut == Spec => StatementsRunOut
  <1>1. IInv /\ GoInv /\ [Next]_vars =>
          [\A h \in Handler : Busy(h) =>
             \/ pc'[h] = pc[h] /\ loc'[h] = loc[h]
             \/ Less(pc[h], loc[h], pc'[h], loc'[h])]_vars
    BY StepOnward
  <1> QED
    BY <1>1, GoInvariance, PTL DEF Spec, StatementsRunOut

\* A request in flight always has a statement it may execute: handlers never
\* wait for one another, and the orders in which Snapshot, VerifySection and
\* newEvent read the tables and the chain never block themselves.
THEOREM NeverBlocked == Spec => []NeverStuck
  <1>1. IInv /\ GoInv => NeverStuck
    <2> SUFFICES ASSUME IInv, GoInv, NEW h \in Handler, Busy(h)
                 PROVE  MayGoOn(h)
      BY DEF NeverStuck
    <2>1. Going(pc[h], loc[h]) /\ loc[h].unread \subseteq Table \cup {"audit_events"}
      BY DEF GoInv, IInv, TypeOK, Locals, Unread
    <2>2. loc[h].op.kind \in Writers \cup Readers
          /\ (pc[h] = "commit" => loc[h].op.kind \in Writers \cup {"PIN"})
      BY <2>1 DEF Going, Busy
    <2>3. ASSUME pc[h] = "read"
          PROVE  \/ "audit_events" \in loc[h].unread /\ MayReadAudit(h)
                 \/ MayReadTable(h) /\ \E t \in Table : t \in loc[h].unread
      <3>1. loc[h].unread # {}
        BY <2>1, <2>3 DEF Going
      <3>2. CASE loc[h].op.kind \in {"SNAPSHOT", "PIN"}
        BY <2>1, <3>1, <3>2 DEF MayReadAudit, MayReadTable
      <3>3. CASE loc[h].op.kind \notin {"SNAPSHOT", "PIN"}
        BY <2>1, <3>1, <3>3 DEF MayReadAudit, MayReadTable
      <3> QED
        BY <3>2, <3>3
    <2> QED
      BY <2>2, <2>3 DEF MayGoOn
  <1> QED
    BY <1>1, GoInvariance, PTL

-----------------------------------------------------------------------------
(* What a client may rely on *)

\* What the log tells of a campaign's whole history: an idempotency key is
\* used once, a request that named a revision was applied to exactly that one,
\* and the archive, when there is one, is the last request and seals.
Promised ==
  \A i \in 2..Len(campaign.content) :
    LET op == campaign.content[i] IN
    /\ op.ifMatch \in {0, i - 1}
    /\ op.key # NoKey => \A j \in 1..(i - 1) : campaign.content[j].key # op.key
    /\ op.kind = "ARCHIVE" <=>
         (i = Len(campaign.content) /\ campaign.state = "ARCHIVED")

\* The abstract log keeps the promise, and is sealed only by its last request.
LEMMA LogPromise == Log!LogSpec => []Promised
  <1> DEFINE PInv == /\ campaign.content \in Seq(Ops)
                     /\ Len(campaign.content) >= 1
                     /\ (campaign.state = "ARCHIVED") \in BOOLEAN
                     /\ Len(campaign.content) = 1 => campaign.state # "ARCHIVED"
                     /\ Promised
  <1>1. Log!LogInit => PInv
    <2> SUFFICES ASSUME Log!LogInit PROVE PInv
      OBVIOUS
    <2>1. PICK op \in Ops : campaign.content = <<op>>
      BY DEF Log!LogInit
    <2>2. campaign.content \in Seq(Ops) /\ Len(campaign.content) = 1
      BY <2>1
    <2>3. Promised
      BY <2>2 DEF Promised
    <2> QED
      BY <2>2, <2>3 DEF Log!LogInit
  <1>2. PInv /\ [Log!LogNext]_(Log!logVars) => PInv'
    <2> SUFFICES ASSUME PInv, [Log!LogNext]_(Log!logVars) PROVE PInv'
      OBVIOUS
    <2>1. CASE UNCHANGED Log!logVars
      <3>1. campaign'.content = campaign.content
            /\ (campaign'.state = "ARCHIVED") = (campaign.state = "ARCHIVED")
        BY <2>1 DEF Log!logVars
      <3> QED
        BY <3>1 DEF Promised
    <2>2. ASSUME NEW op \in Ops, Log!Apply(op) PROVE PInv'
      <3> DEFINE log == campaign.content
                 n == Len(log)
      <3>1. /\ campaign.state # "ARCHIVED"
            /\ op.key # NoKey => \A i \in 1..n : log[i].key # op.key
            /\ op.ifMatch # 0 => op.ifMatch = n
            /\ campaign'.content = Append(log, op)
            /\ (campaign'.state = "ARCHIVED") = (op.kind = "ARCHIVE")
        BY <2>2 DEF Log!Apply, Log!FreshKey, Log!ExpectedRevision
      <3>2. /\ Append(log, op) \in Seq(Ops) /\ Len(Append(log, op)) = n + 1
            /\ Append(log, op)[n + 1] = op /\ n \in Nat /\ n >= 1
            /\ \A i \in 1..n : Append(log, op)[i] = log[i]
        OBVIOUS
      <3> DEFINE longer == Append(log, op)
      <3> HIDE DEF longer
      <3>3. longer = Append(log, op)
        BY DEF longer
      <3>4. ASSUME NEW i \in 2..(n + 1)
            PROVE  /\ longer[i].ifMatch \in {0, i - 1}
                   /\ longer[i].key # NoKey =>
                        \A j \in 1..(i - 1) : longer[j].key # longer[i].key
                   /\ longer[i].kind = "ARCHIVE" <=>
                        (i = n + 1 /\ campaign'.state = "ARCHIVED")
        <4>1. CASE i = n + 1
          BY <3>1, <3>2, <3>3, <4>1
        <4>2. CASE i \in 2..n
          <5>1. /\ log[i].ifMatch \in {0, i - 1}
                /\ log[i].key # NoKey => \A j \in 1..(i - 1) : log[j].key # log[i].key
                /\ log[i].kind # "ARCHIVE"
            BY <3>1, <4>2 DEF Promised
          <5>2. longer[i] = log[i] /\ \A j \in 1..(i - 1) : longer[j] = log[j]
            BY <3>2, <3>3, <4>2
          <5> QED
            BY <3>2, <4>2, <5>1, <5>2
        <4> QED
          BY <3>2, <4>1, <4>2
      <3>5. campaign'.content = longer /\ Len(longer) = n + 1 /\ longer \in Seq(Ops)
        BY <3>1, <3>2, <3>3
      <3>6. Promised'
        BY <3>4, <3>5 DEF Promised
      <3> QED
        BY <3>1, <3>2, <3>5, <3>6
    <2> QED
      BY <2>1, <2>2 DEF Log!LogNext
  <1>3. PInv => Promised
    OBVIOUS
  <1> QED
    BY <1>1, <1>2, <1>3, PTL DEF Log!LogSpec

\* Whatever is in flight and whenever the process crashes, the stored history
\* of a campaign uses no idempotency key twice, honours every If-Match and
\* ends with the archive (replay, check and Commit in service.go and store.go).
THEOREM Promise == Spec => []Promised
  BY Refinement, LogPromise, PTL DEF ImplementsLog
=============================================================================
