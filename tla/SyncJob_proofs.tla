---------------------------- MODULE SyncJob_proofs ----------------------------
(***************************************************************************)
(* Proofs about SyncJob, for every number of slots, figures, runs and      *)
(* queue replacements.                                                     *)
(***************************************************************************)
EXTENDS SyncJob, SequenceTheorems, FiniteSetTheorems, TLAPS

-----------------------------------------------------------------------------
(***************************************************************************)
(* The operators of the document.                                          *)
(***************************************************************************)
LEMMA TallyType ==
  ASSUME NEW items \in Seq(Item), NEW status
  PROVE  Tally(items, status) \in Nat
<1>1. DOMAIN items = 1..Len(items) /\ Len(items) \in Nat
  OBVIOUS
<1>2. IsFiniteSet(1..Len(items))
  BY <1>1, FS_Interval
<1>3. IsFiniteSet({i \in DOMAIN items : items[i].status = status})
  BY <1>1, <1>2, FS_Subset
<1> QED BY <1>3, FS_CardinalityType DEF Tally

LEMMA StatsOfType ==
  ASSUME NEW items \in Seq(Item)
  PROVE  StatsOf(items) \in Stats
BY TallyType DEF StatsOf, Stats

LEMMA SetStatusType ==
  ASSUME NEW items \in Seq(Item), NEW i \in DOMAIN items, NEW status \in Statuses
  PROVE  /\ [items EXCEPT ![i].status = status] \in Seq(Item)
         /\ Len([items EXCEPT ![i].status = status]) = Len(items)
<1>1. items[i] \in Item /\ i \in 1..Len(items)
  OBVIOUS
<1>2. [items[i] EXCEPT !.status = status] \in Item
  BY <1>1 DEF Item
<1> QED BY <1>1, <1>2, ExceptSeq

LEMMA FindItemType ==
  ASSUME NEW items, NEW mfc
  PROVE  \/ FindItem(items, mfc) = 0
         \/ /\ FindItem(items, mfc) \in DOMAIN items
            /\ items[FindItem(items, mfc)].mfc = mfc
BY DEF FindItem

LEMMA NewDocType ==
  ASSUME NEW run \in Nat
  PROVE  NewDoc(run) \in Doc
<1>1. <<>> \in Seq(Item)
  OBVIOUS
<1>2. StatsOf(<<>>) \in Stats
  BY <1>1, StatsOfType
<1> QED BY <1>1, <1>2 DEF NewDoc, Doc, ActivePhases

LEMMA NoJobType == NoJob \in Doc
<1>1. NewDoc(0) \in Doc
  BY NewDocType
<1> QED BY <1>1 DEF NoJob, Doc, TerminalPhases

LEMMA RecalculateStatsType ==
  ASSUME NEW doc \in Doc
  PROVE  RecalculateStats(doc) \in Doc
<1>1. StatsOf(doc.items) \in Stats
  BY StatsOfType DEF Doc
<1> QED BY <1>1 DEF RecalculateStats, Doc, TerminalPhases

LEMMA UpdateItemStatusType ==
  ASSUME NEW doc \in Doc, NEW mfc, NEW status \in Statuses
  PROVE  UpdateItemStatus(doc, mfc, status) \in Doc
<1> DEFINE i == FindItem(doc.items, mfc)
<1>1. doc.items \in Seq(Item)
  BY DEF Doc
<1>2. CASE i = 0
  BY <1>2, RecalculateStatsType DEF UpdateItemStatus
<1>3. CASE i # 0
  <2>1. i \in DOMAIN doc.items
    BY <1>3, FindItemType
  <2>2. [doc.items EXCEPT ![i].status = status] \in Seq(Item)
    BY <1>1, <2>1, SetStatusType
  <2> HIDE DEF i
  <2>3. [doc EXCEPT !.items[i].status = status] \in Doc
    BY <2>2 DEF Doc
  <2> QED BY <1>3, <2>3, RecalculateStatsType DEF UpdateItemStatus, i
<1> QED BY <1>2, <1>3

LEMMA ChangePhaseType ==
  ASSUME NEW doc \in Doc, NEW phase \in ActivePhases,
         NEW queue \in Queues \cup {<<>>}
  PROVE  ChangePhase(doc, phase, queue) \in Doc
<1> DEFINE new == [i \in 1..Len(queue) |-> [mfc |-> queue[i], status |-> "pending"]]
           moved == [doc EXCEPT !.phase = phase]
<1>1. moved \in Doc
  BY DEF Doc
<1>2. CASE queue = <<>>
  BY <1>1, <1>2 DEF ChangePhase
<1>3. CASE queue # <<>>
  <2>1. queue \in Seq(MfcIds)
    BY <1>3, QueuesAssumption
  <2>2. \A i \in 1..Len(queue) : [mfc |-> queue[i], status |-> "pending"] \in Item
    BY <2>1 DEF Item, Statuses, OpenStatuses
  <2>3. new \in Seq(Item)
    BY <2>1, <2>2
  <2> HIDE DEF new
  <2>4. [moved EXCEPT !.items = new] \in Doc
    BY <1>1, <2>3 DEF Doc
  <2> QED BY <1>3, <2>4, RecalculateStatsType DEF ChangePhase, new
<1> QED BY <1>2, <1>3

LEMMA UpdateItemStatusFacts ==
  ASSUME NEW doc \in Doc, NEW mfc, NEW status \in Statuses,
         NEW i, i = FindItem(doc.items, mfc),
         NEW new, new = UpdateItemStatus(doc, mfc, status)
  PROVE  /\ i = 0 => new.items = doc.items
         /\ i # 0 => /\ i \in DOMAIN doc.items
                     /\ new.items = [doc.items EXCEPT ![i].status = status]
                     /\ new.items[i].status = status
         /\ new.stats = StatsOf(new.items)
         /\ new.phase = IF AllDone(new.items) THEN "completed" ELSE doc.phase
<1> DEFINE moved == IF i = 0 THEN doc ELSE [doc EXCEPT !.items[i].status = status]
<1>1. new = RecalculateStats(moved)
  BY DEF UpdateItemStatus
<1>2. i = 0 => moved = doc
  OBVIOUS
<1>3. i # 0 => /\ i \in DOMAIN doc.items
               /\ moved.items = [doc.items EXCEPT ![i].status = status]
               /\ moved.items[i].status = status
               /\ moved.phase = doc.phase
  BY FindItemType DEF Doc, Item
<1>4. moved \in Doc
  <2>1. CASE i = 0
    BY <2>1
  <2>2. CASE i # 0
    <3>1. [doc.items EXCEPT ![i].status = status] \in Seq(Item)
      BY <2>2, <1>3, SetStatusType DEF Doc
    <3> QED BY <2>2, <3>1 DEF Doc
  <2> QED BY <2>1, <2>2
<1> HIDE DEF moved
<1>5. /\ new.items = moved.items
      /\ new.stats = StatsOf(new.items)
      /\ new.phase = IF AllDone(new.items) THEN "completed" ELSE moved.phase
  BY <1>1, <1>4 DEF RecalculateStats, Doc
<1> QED BY <1>2, <1>3, <1>5

LEMMA ChangePhaseFacts ==
  ASSUME NEW doc \in Doc, NEW phase \in ActivePhases,
         NEW queue \in Queues \cup {<<>>},
         NEW new, new = ChangePhase(doc, phase, queue)
  PROVE  /\ new.phase = phase
         /\ \/ new.items = doc.items /\ new.stats = doc.stats
            \/ new.stats = StatsOf(new.items)
<1>1. CASE queue = <<>>
  BY <1>1 DEF ChangePhase, Doc
<1>2. CASE queue # <<>>
  <2> DEFINE items == [i \in 1..Len(queue) |-> [mfc |-> queue[i], status |-> "pending"]]
             moved == [[doc EXCEPT !.phase = phase] EXCEPT !.items = items]
  <2>1. Len(queue) \in Nat /\ Len(queue) >= 1
    BY <1>2, QueuesAssumption
  <2>2. 1 \in DOMAIN items /\ items[1].status = "pending"
    BY <2>1
  <2>3. ~AllDone(items)
    BY <2>2 DEF AllDone, FinishedStatuses
  <2>4. new = RecalculateStats(moved)
    BY <1>2 DEF ChangePhase
  <2> HIDE DEF items
  <2>5. moved.items = items /\ moved.phase = phase
    BY DEF Doc
  <2>6. new = [moved EXCEPT !.stats = StatsOf(items)]
    BY <2>3, <2>4, <2>5 DEF RecalculateStats
  <2> QED BY <2>5, <2>6 DEF Doc
<1> QED BY <1>1, <1>2

LEMMA IdleType == Idle \in Handler /\ Idle.entry = 0 /\ Idle.kind = "idle"
BY NoJobType DEF Idle, Handler, Kinds

-----------------------------------------------------------------------------
(***************************************************************************)
(* What a handler's copies look like, whatever happens to the stored       *)
(* document: an item handler changes one entry and recalculates, a phase   *)
(* handler keeps the queue or replaces it, the others leave items and      *)
(* stats alone.                                                            *)
(***************************************************************************)
CopyShape(hd) ==
  /\ hd.kind \in {"item", "cancel", "stale"} /\ hd.entry = 0 =>
       hd.doc.items = hd.base.items
  /\ hd.entry # 0 =>
       /\ hd.kind = "item"
       /\ hd.entry \in DOMAIN hd.base.items
       /\ hd.doc.items =
            [hd.base.items EXCEPT ![hd.entry].status = hd.doc.items[hd.entry].status]
  /\ hd.kind = "item" =>
       /\ hd.doc.stats = StatsOf(hd.doc.items)
       /\ hd.doc.phase = IF AllDone(hd.doc.items) THEN "completed" ELSE hd.base.phase
       /\ ReportStatuses \subseteq FinishedStatuses /\ AllDone(hd.base.items) =>
            AllDone(hd.doc.items)
  /\ hd.kind \in {"cancel", "stale"} =>
       /\ hd.doc.stats = hd.base.stats
       /\ hd.doc.phase \in {"cancelled", "failed"}
  /\ hd.kind = "phase" =>
       /\ \/ hd.doc.phase \in ActivePhases
          \/ hd.doc.phase = "completed" /\ hd.doc.items = <<>> /\ hd.base.items = <<>>
       /\ \/ hd.doc.items = hd.base.items /\ hd.doc.stats = hd.base.stats
          \/ hd.doc.stats = StatsOf(hd.doc.items)
  /\ hd.kind \in {"item", "phase"} /\ ~hd.dirty => hd.doc.phase = hd.base.phase

\* A handler begins in slot h: a copy of the stored document, or a POST /job.
Begins(h, hd) ==
  /\ hd \in Handler
  /\ hd.kind # "idle"
  /\ hd.entry \in {0} \cup DOMAIN hd.doc.items
  /\ CopyShape(hd)
  /\ hd.kind \in SaveKinds => job # NoJob /\ hd.base = job
  /\ hd.kind \in {"item", "phase"} => h \in WebhookSlots
  /\ hd.kind \notin {"item", "phase"} => h \in UserSlots \cup {Timer}
  /\ Start(h, hd)

LEMMA ItemBegins ==
  ASSUME TypeOK, NEW h \in WebhookSlots, NEW mfc \in MfcIds,
         NEW status \in ReportStatuses, LoadItemComplete(h, mfc, status)
  PROVE  \E hd : Begins(h, hd)
<1> DEFINE doc   == UpdateItemStatus(job, mfc, status)
           found == FindItem(job.items, mfc)
           entry == IF found # 0 /\ (status \in FinishedStatuses \/ doc.items # job.items)
                      THEN found ELSE 0
           hd == [kind |-> "item", base |-> job, doc |-> doc, entry |-> entry,
                  dirty |-> doc # job \/ entry # 0 \/ AllDone(doc.items)]
<1>1. status \in Statuses /\ job \in Doc
  BY ReportAssumption DEF TypeOK
<1>2. doc \in Doc
  BY <1>1, UpdateItemStatusType
<1>3. /\ found = 0 => doc.items = job.items
      /\ found # 0 => /\ found \in DOMAIN job.items
                      /\ doc.items = [job.items EXCEPT ![found].status = status]
                      /\ doc.items[found].status = status
      /\ doc.stats = StatsOf(doc.items)
      /\ doc.phase = IF AllDone(doc.items) THEN "completed" ELSE job.phase
  BY <1>1, UpdateItemStatusFacts
<1>4. Start(h, hd) /\ job # NoJob
  BY DEF LoadItemComplete
<1> HIDE DEF doc, found
<1>5. entry \in Nat /\ (entry # 0 => entry = found)
  BY <1>1, <1>3 DEF Doc
<1>6. DOMAIN doc.items = DOMAIN job.items
  BY <1>3
<1>7. hd \in Handler
  BY <1>1, <1>2, <1>5 DEF Handler, Kinds, SaveKinds
<1>8. status \in FinishedStatuses /\ AllDone(job.items) => AllDone(doc.items)
  BY <1>1, <1>3 DEF AllDone, Doc, Item
<1>9. CopyShape(hd)
  BY <1>3, <1>5, <1>8 DEF CopyShape
<1> QED BY <1>3, <1>4, <1>5, <1>6, <1>7, <1>9 DEF Begins, SaveKinds

LEMMA PhaseBegins ==
  ASSUME TypeOK, NEW h \in WebhookSlots, NEW phase \in ScraperPhases,
         NEW queue \in Queues \cup {<<>>}, NEW news \in BOOLEAN,
         LoadPhaseChange(h, phase, queue, news)
  PROVE  \E hd : Begins(h, hd)
<1> DEFINE doc == ChangePhase(job, phase, queue)
           hd == [kind |-> "phase", base |-> job, doc |-> doc, entry |-> 0,
                  dirty |-> doc # job \/ news]
<1>1. phase \in ActivePhases /\ job \in Doc
  BY ReportAssumption DEF TypeOK
<1>2. doc \in Doc
  BY <1>1, ChangePhaseType
<1>3. /\ doc.phase = phase
      /\ \/ doc.items = job.items /\ doc.stats = job.stats
         \/ doc.stats = StatsOf(doc.items)
  BY <1>1, ChangePhaseFacts
<1>4. Start(h, hd) /\ job # NoJob
  BY DEF LoadPhaseChange
<1> HIDE DEF doc
<1>5. hd \in Handler
  BY <1>1, <1>2 DEF Handler, Kinds, SaveKinds
<1>6. CopyShape(hd)
  BY <1>1, <1>3 DEF CopyShape
<1> QED BY <1>4, <1>5, <1>6 DEF Begins, SaveKinds

LEMMA ListsOnlyBegins ==
  ASSUME TypeOK, NEW h \in WebhookSlots, NEW news \in BOOLEAN,
         LoadListsOnlyCompletion(h, news)
  PROVE  \E hd : Begins(h, hd)
<1> DEFINE doc == [job EXCEPT !.phase = "completed"]
           hd == [kind |-> "phase", base |-> job, doc |-> doc, entry |-> 0,
                  dirty |-> doc # job \/ news]
<1>1. job \in Doc /\ doc \in Doc
  BY DEF TypeOK, Doc, TerminalPhases
<1>2. /\ doc.phase = "completed"
      /\ doc.items = <<>> /\ job.items = <<>>
      /\ doc.stats = job.stats
  BY <1>1 DEF LoadListsOnlyCompletion, Doc
<1>3. Start(h, hd) /\ job # NoJob
  BY DEF LoadListsOnlyCompletion
<1> HIDE DEF doc
<1>4. hd \in Handler
  BY <1>1 DEF Handler, Kinds, SaveKinds
<1>5. CopyShape(hd)
  BY <1>2 DEF CopyShape
<1> QED BY <1>3, <1>4, <1>5 DEF Begins, SaveKinds

LEMMA CloseBegins ==
  ASSUME TypeOK, NEW h \in UserSlots \cup {Timer}, NEW threshold,
         LoadCancel(h) \/ LoadStale(h, threshold)
  PROVE  \E hd : Begins(h, hd)
<1>1. job \in Doc
  BY DEF TypeOK
<1>2. ASSUME NEW kind \in {"cancel", "stale"}, NEW phase \in {"cancelled", "failed"},
             NEW hd,
             hd = [kind |-> kind, base |-> job,
                   doc |-> [job EXCEPT !.phase = phase, !.stamped = TRUE],
                   entry |-> 0, dirty |-> TRUE],
             Start(h, hd), job # NoJob
      PROVE  Begins(h, hd)
  <2>1. hd.doc \in Doc
    BY <1>1, <1>2 DEF Doc, TerminalPhases
  <2>2. /\ hd.doc.items = job.items /\ hd.doc.stats = job.stats
        /\ hd.doc.phase = phase
    BY <1>1, <1>2 DEF Doc
  <2>3. hd \in Handler
    BY <1>1, <1>2, <2>1 DEF Handler, Kinds, SaveKinds
  <2>4. CopyShape(hd)
    BY <1>2, <2>2 DEF CopyShape
  <2> QED BY <1>2, <2>3, <2>4 DEF Begins, SaveKinds
<1>3. CASE LoadCancel(h)
  BY <1>2, <1>3 DEF LoadCancel
<1>4. CASE LoadStale(h, threshold)
  BY <1>2, <1>4 DEF LoadStale
<1> QED BY <1>3, <1>4

LEMMA CreateBegins ==
  ASSUME TypeOK, NEW h \in UserSlots, LoadCreateJob(h)
  PROVE  \E hd : Begins(h, hd)
<1> DEFINE hd == [Idle EXCEPT !.kind = IF job = NoJob THEN "create" ELSE "delete"]
<1>1. /\ hd \in Handler
      /\ hd.kind \in {"create", "delete"}
      /\ hd.entry = 0
  BY IdleType DEF Handler, Kinds
<1>2. Start(h, hd)
  BY DEF LoadCreateJob
<1>3. CopyShape(hd)
  BY <1>1 DEF CopyShape
<1> HIDE DEF hd
<1> QED BY <1>1, <1>2, <1>3 DEF Begins, SaveKinds

LEMMA NextCases ==
  ASSUME TypeOK, Next
  PROVE  \/ \E h \in Slots : \/ \E hd : Begins(h, hd)
                             \/ SaveJob(h)
                             \/ DeleteFinishedJob(h)
                             \/ CreateJob(h)
                             \/ Abandon(h)
         \/ Tick
         \/ ExpireCompleted
<1>1. ASSUME NEW h \in WebhookSlots, Webhook(h)
      PROVE  \E hd : Begins(h, hd)
  BY <1>1, ItemBegins, PhaseBegins, ListsOnlyBegins DEF Webhook
<1>2. ASSUME NEW h \in UserSlots, UserRequest(h)
      PROVE  \E hd : Begins(h, hd)
  BY <1>2, CloseBegins, CreateBegins DEF UserRequest, LoadActiveJob
<1>3. CleanupStaleSessions => \E hd : Begins(Timer, hd)
  BY CloseBegins DEF CleanupStaleSessions
<1> QED BY <1>1, <1>2, <1>3 DEF Next, Continue, Slots

-----------------------------------------------------------------------------
(***************************************************************************)
(* Type correctness.                                                       *)
(***************************************************************************)
\* What one save does to items: it replaces the queue, sets the status of one
\* entry, or leaves the array alone.
LEMMA WrittenItemsCases ==
  ASSUME NEW hd
  PROVE  \/ Requeued(hd) /\ WrittenItems(hd) = hd.doc.items
         \/ /\ ~Requeued(hd)
            /\ hd.entry # 0
            /\ hd.doc.items[hd.entry] # hd.base.items[hd.entry]
            /\ WrittenItems(hd) =
                 [job.items EXCEPT ![hd.entry].status = hd.doc.items[hd.entry].status]
         \/ /\ ~Requeued(hd)
            /\ hd.entry = 0 \/ hd.doc.items[hd.entry] = hd.base.items[hd.entry]
            /\ WrittenItems(hd) = job.items
BY DEF WrittenItems

LEMMA WrittenItemsType ==
  ASSUME job \in Doc, NEW hd \in Handler,
         hd.entry \in {0} \cup DOMAIN hd.doc.items
  PROVE  WrittenItems(hd) \in Seq(Item)
<1>1. hd.doc \in Doc /\ hd.doc.items \in Seq(Item) /\ job.items \in Seq(Item)
  BY DEF Handler, Doc
<1>2. CASE /\ hd.entry # 0
           /\ WrittenItems(hd) =
                [job.items EXCEPT ![hd.entry].status = hd.doc.items[hd.entry].status]
  <2>1. hd.doc.items[hd.entry].status \in Statuses
    <3>1. hd.doc.items[hd.entry] \in Item
      BY <1>1, <1>2
    <3> QED BY <3>1 DEF Item
  <2>2. CASE hd.entry \in DOMAIN job.items
    BY <1>1, <1>2, <2>1, <2>2, SetStatusType
  <2>3. CASE hd.entry \notin DOMAIN job.items
    <3>1. WrittenItems(hd) = job.items
      BY <1>1, <1>2, <2>3
    <3> QED BY <1>1, <3>1
  <2> QED BY <2>2, <2>3
<1> QED BY <1>1, <1>2, WrittenItemsCases

LEMMA WrittenType ==
  ASSUME job \in Doc, NEW hd \in Handler,
         hd.entry \in {0} \cup DOMAIN hd.doc.items
  PROVE  Written(hd) \in Doc
<1>1. WrittenItems(hd) \in Seq(Item)
  BY WrittenItemsType
<1>2. hd.doc \in Doc
  BY DEF Handler
<1> DEFINE phase   == IF hd.doc.phase # hd.base.phase THEN hd.doc.phase ELSE job.phase
           stats   == IF hd.doc.stats # hd.base.stats THEN hd.doc.stats ELSE job.stats
           stamped == job.stamped \/ hd.doc.stamped
           version == IF Requeued(hd) THEN job.version + 1 ELSE job.version
           items   == WrittenItems(hd)
<1>3. /\ phase \in ActivePhases \cup TerminalPhases
      /\ stats \in Stats
      /\ version \in Nat
      /\ items \in Seq(Item)
  BY <1>1, <1>2 DEF Doc
<1>4. stamped \in BOOLEAN
  OBVIOUS
<1>5. Written(hd) = [job EXCEPT !.phase = phase, !.stats = stats, !.stamped = stamped,
                                !.items = items, !.version = version]
  BY Zenon DEF Written
<1> HIDE DEF phase, stats, stamped, version, items
<1> QED BY <1>3, <1>4, <1>5 DEF Doc

\* The shape of the stored document and of every handler.
THEOREM TypeCorrect == Spec => []TypeOK
<1>1. Init => TypeOK
  BY NoJobType, IdleType DEF Init, TypeOK
<1>2. TypeOK /\ [Next]_vars => TypeOK'
  <2> SUFFICES ASSUME TypeOK, [Next]_vars
               PROVE  TypeOK'
    OBVIOUS
  <2>1. ASSUME NEW h \in Slots, NEW hd, Begins(h, hd)
        PROVE  TypeOK'
    BY <2>1 DEF Begins, Start, TypeOK
  <2>2. ASSUME NEW h \in Slots, SaveJob(h)
        PROVE  TypeOK'
    <3>1. Written(handlers[h]) \in Doc
      BY WrittenType DEF TypeOK
    <3> QED BY <2>2, <3>1, IdleType DEF SaveJob, Finish, TypeOK
  <2>3. ASSUME NEW h \in Slots, DeleteFinishedJob(h)
        PROVE  TypeOK'
    <3>1. [handlers[h] EXCEPT !.kind = "create"] \in Handler
      BY DEF TypeOK, Handler, Kinds
    <3>2. handlers' = [handlers EXCEPT ![h] = [handlers[h] EXCEPT !.kind = "create"]]
      BY <2>3 DEF DeleteFinishedJob
    <3>3. handlers' \in [Slots -> Handler]
      BY <3>1, <3>2 DEF TypeOK
    <3>4. /\ [handlers[h] EXCEPT !.kind = "create"].entry = handlers[h].entry
          /\ [handlers[h] EXCEPT !.kind = "create"].doc = handlers[h].doc
      BY DEF TypeOK, Handler
    <3>5. \A g \in Slots : handlers'[g].entry = handlers[g].entry
                           /\ handlers'[g].doc = handlers[g].doc
      BY <3>2, <3>4 DEF TypeOK
    <3> QED BY <2>3, <3>3, <3>5, NoJobType DEF DeleteFinishedJob, TypeOK
  <2>4. ASSUME NEW h \in Slots, CreateJob(h)
        PROVE  TypeOK'
    <3>1. NewDoc(runs + 1) \in Doc
      BY NewDocType DEF TypeOK
    <3> QED BY <2>4, <3>1, IdleType DEF CreateJob, Finish, TypeOK
  <2>5. ASSUME NEW h \in Slots, Abandon(h)
        PROVE  TypeOK'
    BY <2>5, IdleType DEF Abandon, Finish, TypeOK
  <2>6. CASE Tick
    BY <2>6 DEF Tick, TypeOK
  <2>7. CASE ExpireCompleted
    BY <2>7, NoJobType DEF ExpireCompleted, TypeOK
  <2>8. CASE UNCHANGED vars
    BY <2>8 DEF vars, TypeOK
  <2> QED BY <2>1, <2>2, <2>3, <2>4, <2>5, <2>6, <2>7, <2>8, NextCases
<1> QED BY <1>1, <1>2, PTL DEF Spec

-----------------------------------------------------------------------------
(***************************************************************************)
(* The queue a handler found.  CopiesMatchTheirQueue is inductive together *)
(* with: the stored document is the last one created, a handler's copy is  *)
(* of a run created before, the copies have their shape, and item and      *)
(* phase handlers are webhooks.                                            *)
(***************************************************************************)
LastRunStored == job # NoJob => job.run = runs /\ runs >= 1

CopiesShaped ==
  \A h \in Slots :
    /\ CopyShape(handlers[h])
    /\ handlers[h].kind \in SaveKinds => handlers[h].base.run \in 1..runs
    /\ handlers[h].kind \in {"item", "phase"} => h \in WebhookSlots
    /\ handlers[h].kind \notin {"item", "phase", "idle"} => h \in UserSlots \cup {Timer}

QueueInv == LastRunStored /\ CopiesShaped /\ CopiesMatchTheirQueue

LEMMA NoJobRun == NoJob.run = 0
BY DEF NoJob, NewDoc

LEMMA IdleShape == CopyShape(Idle)
BY IdleType DEF CopyShape

LEMMA WrittenFields ==
  ASSUME job \in Doc, NEW hd
  PROVE  /\ Written(hd).run = job.run
         /\ Written(hd).version = IF Requeued(hd) THEN job.version + 1 ELSE job.version
         /\ Written(hd).items = WrittenItems(hd)
         /\ Written(hd).phase = IF hd.doc.phase # hd.base.phase THEN hd.doc.phase ELSE job.phase
         /\ Written(hd).stats = IF hd.doc.stats # hd.base.stats THEN hd.doc.stats ELSE job.stats
BY DEF Written, Doc

\* A save that does not replace the queue keeps its figures, and touches no
\* entry but its own.
LEMMA WrittenKeepsFigures ==
  ASSUME job \in Doc, NEW hd \in Handler, ~Requeued(hd)
  PROVE  /\ DOMAIN WrittenItems(hd) = DOMAIN job.items
         /\ WrittenItems(hd) \in Seq(Item) => Len(WrittenItems(hd)) = Len(job.items)
         /\ \A i \in DOMAIN job.items :
              /\ WrittenItems(hd)[i].mfc = job.items[i].mfc
              /\ WrittenItems(hd)[i] # job.items[i] =>
                   /\ hd.entry = i
                   /\ hd.entry # 0
                   /\ WrittenItems(hd)[i].status = hd.doc.items[i].status
<1>1. job.items \in Seq(Item)
  BY DEF Doc
<1>2. CASE WrittenItems(hd) = job.items
  BY <1>2
<1>3. CASE /\ hd.entry # 0
           /\ WrittenItems(hd) =
                [job.items EXCEPT ![hd.entry].status = hd.doc.items[hd.entry].status]
  <2>1. DOMAIN WrittenItems(hd) = DOMAIN job.items
    BY <1>3
  <2>2. ASSUME NEW i \in DOMAIN job.items
        PROVE  /\ WrittenItems(hd)[i].mfc = job.items[i].mfc
               /\ WrittenItems(hd)[i] # job.items[i] =>
                   /\ hd.entry = i
                   /\ WrittenItems(hd)[i].status = hd.doc.items[i].status
    <3>1. job.items[i] \in Item
      BY <1>1
    <3> QED BY <1>3, <3>1 DEF Item
  <2> QED BY <1>1, <1>3, <2>1, <2>2
<1> QED BY <1>2, <1>3, WrittenItemsCases

LEMMA QueueInvInit == Init => QueueInv
<1> SUFFICES ASSUME Init PROVE QueueInv
  OBVIOUS
<1>1. \A h \in Slots : handlers[h] = Idle
  BY DEF Init
<1>2. Idle.kind \notin SaveKinds \cup {"item", "phase"} /\ Idle.kind = "idle"
  BY IdleType DEF SaveKinds
<1> QED BY <1>1, <1>2, IdleShape
        DEF Init, QueueInv, LastRunStored, CopiesShaped, CopiesMatchTheirQueue

\* A copy stays in step with the stored document when that document is
\* written by a save.
LEMMA CopySurvivesSave ==
  ASSUME TypeOK, QueueInv, NEW h \in Slots, NEW g \in Slots,
         Matches(handlers[h]), job' = Written(handlers[h]),
         handlers[g].kind \in SaveKinds, handlers[g].base.run = job'.run
  PROVE  /\ handlers[g].base.version <= job'.version
         /\ handlers[g].base.version = job'.version =>
              /\ Len(handlers[g].base.items) = Len(job'.items)
              /\ \A i \in DOMAIN job'.items :
                   handlers[g].base.items[i].mfc = job'.items[i].mfc
<1> DEFINE hd == handlers[h]
           base == handlers[g].base
<1>1. /\ job \in Doc /\ hd \in Handler /\ base \in Doc
      /\ hd.entry \in {0} \cup DOMAIN hd.doc.items
  BY DEF TypeOK, Handler
<1>2. /\ job'.run = job.run
      /\ job'.version = IF Requeued(hd) THEN job.version + 1 ELSE job.version
      /\ job'.items = WrittenItems(hd)
  BY <1>1, WrittenFields
<1>3. job'.items \in Seq(Item)
  BY <1>1, <1>2, WrittenItemsType
<1>4. /\ base.version <= job.version
      /\ base.version = job.version =>
           /\ Len(base.items) = Len(job.items)
           /\ \A i \in DOMAIN job.items : base.items[i].mfc = job.items[i].mfc
  BY <1>2 DEF QueueInv, CopiesMatchTheirQueue
<1>5. base.version \in Nat /\ job.version \in Nat
  BY <1>1 DEF Doc
<1>6. CASE Requeued(hd)
  BY <1>2, <1>4, <1>5, <1>6
<1>7. CASE ~Requeued(hd)
  <2>1. /\ DOMAIN job'.items = DOMAIN job.items
        /\ Len(job'.items) = Len(job.items)
        /\ \A i \in DOMAIN job.items : job'.items[i].mfc = job.items[i].mfc
    BY <1>1, <1>2, <1>3, <1>7, WrittenKeepsFigures
  <2> QED BY <1>2, <1>4, <1>7, <2>1
<1> QED BY <1>6, <1>7

LEMMA QueueInvNext == TypeOK /\ QueueInv /\ [Next]_vars => QueueInv'
<1> SUFFICES ASSUME TypeOK, QueueInv, [Next]_vars
             PROVE  QueueInv'
  OBVIOUS
<1>0. /\ Idle.kind = "idle" /\ Idle.kind \notin SaveKinds \cup {"item", "phase"}
      /\ CopyShape(Idle)
  BY IdleType, IdleShape DEF SaveKinds
<1>1. ASSUME NEW h \in Slots, NEW hd, Begins(h, hd)
      PROVE  QueueInv'
  <2>1. UNCHANGED <<job, runs>> /\ handlers' = [handlers EXCEPT ![h] = hd]
    BY <1>1 DEF Begins, Start
  <2>2. \A g \in Slots : handlers'[g] = IF g = h THEN hd ELSE handlers[g]
    BY <2>1 DEF TypeOK
  <2>3. LastRunStored'
    BY <2>1 DEF QueueInv, LastRunStored
  <2>4. hd.kind \in SaveKinds => hd.base = job /\ hd.base.run \in 1..runs
    BY <1>1 DEF Begins, QueueInv, LastRunStored, TypeOK
  <2>5. CopiesShaped'
    BY <1>1, <2>1, <2>2, <2>4 DEF Begins, QueueInv, CopiesShaped
  <2>6. CopiesMatchTheirQueue'
    <3> SUFFICES ASSUME NEW g \in Slots,
                        handlers'[g].kind \in SaveKinds, handlers'[g].base.run = job.run
                 PROVE  /\ handlers'[g].base.version <= job.version
                        /\ handlers'[g].base.version = job.version =>
                             /\ Len(handlers'[g].base.items) = Len(job.items)
                             /\ \A i \in DOMAIN job.items :
                                  handlers'[g].base.items[i].mfc = job.items[i].mfc
      BY <2>1 DEF CopiesMatchTheirQueue
    <3>1. CASE g = h
      BY <2>2, <2>4, <3>1 DEF TypeOK, Doc
    <3>2. CASE g # h
      BY <2>2, <3>2 DEF QueueInv, CopiesMatchTheirQueue
    <3> QED BY <3>1, <3>2
  <2> QED BY <2>3, <2>5, <2>6 DEF QueueInv
<1>2. ASSUME NEW h \in Slots, SaveJob(h)
      PROVE  QueueInv'
  <2>1. \A g \in Slots : handlers'[g] = IF g = h THEN Idle ELSE handlers[g]
    BY <1>2 DEF SaveJob, Finish, TypeOK
  <2>2. runs' = runs
    BY <1>2 DEF SaveJob
  <2>3. CopiesShaped'
    BY <1>0, <2>1, <2>2 DEF QueueInv, CopiesShaped
  <2>4. CASE job' = job
    BY <1>0, <2>1, <2>2, <2>3, <2>4
       DEF QueueInv, LastRunStored, CopiesMatchTheirQueue
  <2>5. CASE Matches(handlers[h]) /\ job' = Written(handlers[h])
    <3>1. job'.run = job.run /\ job # NoJob
      BY <2>5, WrittenFields DEF TypeOK, Matches
    <3>2. LastRunStored'
      BY <2>2, <3>1 DEF QueueInv, LastRunStored
    <3>3. CopiesMatchTheirQueue'
      BY <1>0, <2>1, <2>5, CopySurvivesSave DEF CopiesMatchTheirQueue
    <3> QED BY <2>3, <3>2, <3>3 DEF QueueInv
  <2> QED BY <1>2, <2>4, <2>5 DEF SaveJob
<1>3. ASSUME NEW h \in Slots, DeleteFinishedJob(h)
      PROVE  QueueInv'
  <2>1. /\ job' = NoJob /\ runs' = runs
        /\ handlers[h].kind = "delete"
        /\ handlers' = [handlers EXCEPT ![h].kind = "create"]
    BY <1>3 DEF DeleteFinishedJob
  <2>2. /\ handlers'[h].kind = "create"
        /\ handlers'[h].entry = handlers[h].entry
        /\ \A g \in Slots \ {h} : handlers'[g] = handlers[g]
    BY <2>1 DEF TypeOK, Handler
  <2>3. handlers[h].entry = 0
    BY <2>1 DEF QueueInv, CopiesShaped, CopyShape
  <2>4. CopyShape(handlers'[h])
    BY <2>2, <2>3 DEF CopyShape
  <2>5. CopiesShaped'
    BY <2>1, <2>2, <2>4 DEF QueueInv, CopiesShaped, SaveKinds
  <2>6. CopiesMatchTheirQueue'
    BY <2>1, <2>5, NoJobRun DEF CopiesMatchTheirQueue, CopiesShaped
  <2> QED BY <2>1, <2>5, <2>6 DEF QueueInv, LastRunStored
<1>4. ASSUME NEW h \in Slots, CreateJob(h)
      PROVE  QueueInv'
  <2>1. \A g \in Slots : handlers'[g] = IF g = h THEN Idle ELSE handlers[g]
    BY <1>4 DEF CreateJob, Finish, TypeOK
  <2>2. CASE UNCHANGED <<job, runs>>
    BY <1>0, <2>1, <2>2 DEF QueueInv, LastRunStored, CopiesShaped, CopiesMatchTheirQueue
  <2>3. CASE job' = NewDoc(runs + 1) /\ runs' = runs + 1
    <3>1. job'.run = runs + 1 /\ runs \in Nat
      BY <2>3 DEF NewDoc, TypeOK
    <3>2. LastRunStored'
      BY <2>3, <3>1 DEF LastRunStored
    <3>3. CopiesShaped'
      BY <1>0, <2>1, <2>3, <3>1 DEF QueueInv, CopiesShaped
    <3>4. \A g \in Slots : handlers'[g].kind \in SaveKinds => handlers'[g].base.run # job'.run
      BY <1>0, <2>1, <3>1 DEF QueueInv, CopiesShaped
    <3> QED BY <3>2, <3>3, <3>4 DEF QueueInv, CopiesMatchTheirQueue
  <2> QED BY <1>4, <2>2, <2>3 DEF CreateJob
<1>5. ASSUME NEW h \in Slots, Abandon(h)
      PROVE  QueueInv'
  <2>1. \A g \in Slots : handlers'[g] = IF g = h THEN Idle ELSE handlers[g]
    BY <1>5 DEF Abandon, Finish, TypeOK
  <2> QED BY <1>0, <1>5, <2>1
          DEF Abandon, QueueInv, LastRunStored, CopiesShaped, CopiesMatchTheirQueue
<1>6. CASE Tick
  BY <1>6 DEF Tick, QueueInv, LastRunStored, CopiesShaped, CopiesMatchTheirQueue
<1>7. CASE ExpireCompleted
  <2>1. job' = NoJob /\ UNCHANGED <<runs, handlers>>
    BY <1>7 DEF ExpireCompleted
  <2>2. CopiesShaped'
    BY <2>1 DEF QueueInv, CopiesShaped
  <2>3. CopiesMatchTheirQueue'
    BY <2>1, <2>2, NoJobRun DEF CopiesMatchTheirQueue, CopiesShaped
  <2> QED BY <2>1, <2>2, <2>3 DEF QueueInv, LastRunStored
<1>8. CASE UNCHANGED vars
  BY <1>8 DEF vars, QueueInv, LastRunStored, CopiesShaped, CopiesMatchTheirQueue
<1> QED BY <1>1, <1>2, <1>3, <1>4, <1>5, <1>6, <1>7, <1>8, NextCases

LEMMA QueueInvariant == Spec => []QueueInv
BY QueueInvInit, QueueInvNext, TypeCorrect, PTL DEF Spec

\* While a copy carries the stored __v, the index it holds means the same
\* figure in the stored queue.
THEOREM CopiesMatch == Spec => []CopiesMatchTheirQueue
<1>1. QueueInv => CopiesMatchTheirQueue
  BY DEF QueueInv
<1> QED BY <1>1, QueueInvariant, PTL

-----------------------------------------------------------------------------
(***************************************************************************)
(* What a step may do to a stored document.                                *)
(***************************************************************************)
\* Within one run only a matching save changes the document.
LEMMA OnlySavesWrite ==
  ASSUME TypeOK, QueueInv, [Next]_vars, SameRun, job' # job
  PROVE  \E h \in Slots : /\ SaveJob(h)
                          /\ Saves(h)
                          /\ Matches(handlers[h])
                          /\ job' = Written(handlers[h])
<1>1. job.run \in 1..runs /\ runs \in Nat /\ job # NoJob /\ job'.run = job.run
  BY DEF SameRun, QueueInv, LastRunStored, TypeOK
<1>2. job' # NoJob
  BY <1>1, NoJobRun
<1>3. ASSUME NEW h \in Slots, SaveJob(h)
      PROVE  Saves(h) /\ Matches(handlers[h]) /\ job' = Written(handlers[h])
  BY <1>3 DEF SaveJob, Finish, Saves, TypeOK
<1>4. ASSUME NEW h \in Slots, NEW hd, Begins(h, hd)
      PROVE  FALSE
  BY <1>4 DEF Begins, Start
<1>5. ASSUME NEW h \in Slots, DeleteFinishedJob(h) \/ CreateJob(h) \/ Abandon(h)
      PROVE  FALSE
  BY <1>1, <1>2, <1>5 DEF DeleteFinishedJob, CreateJob, Abandon
<1>6. ~Tick /\ ~ExpireCompleted /\ ~UNCHANGED vars
  BY <1>2 DEF Tick, ExpireCompleted, vars
<1> QED BY <1>3, <1>4, <1>5, <1>6, NextCases

\* While the queue stands, an entry changes only by the save of the item
\* handler that holds its index, and keeps its figure.
LEMMA EntryWrites ==
  ASSUME TypeOK, QueueInv, [Next]_vars, SameQueue,
         NEW i \in DOMAIN job.items, job'.items[i] # job.items[i]
  PROVE  \E h \in Slots :
           /\ Saves(h)
           /\ handlers[h].kind = "item"
           /\ handlers[h].entry = i
           /\ handlers[h].base.version = job.version
           /\ handlers[h].base.items[i].mfc = job.items[i].mfc
           /\ job'.items[i].mfc = job.items[i].mfc
           /\ job'.items[i].status = handlers[h].doc.items[i].status
<1>1. PICK h \in Slots : /\ SaveJob(h) /\ Saves(h)
                         /\ Matches(handlers[h])
                         /\ job' = Written(handlers[h])
  BY OnlySavesWrite DEF SameQueue
<1> DEFINE hd == handlers[h]
<1>2. job \in Doc /\ hd \in Handler /\ job.version \in Nat
  BY DEF TypeOK, Doc
<1>3. ~Requeued(hd)
  BY <1>1, <1>2, WrittenFields DEF SameQueue
<1>4. job'.items = WrittenItems(hd)
  BY <1>1, <1>2, WrittenFields
<1>5. /\ hd.entry = i /\ hd.entry # 0
      /\ job'.items[i].mfc = job.items[i].mfc
      /\ job'.items[i].status = hd.doc.items[i].status
  BY <1>2, <1>3, <1>4, WrittenKeepsFigures
<1>6. hd.kind = "item"
  BY <1>5 DEF QueueInv, CopiesShaped, CopyShape
<1>7. hd.base.version = job.version /\ hd.base.run = job.run
  BY <1>1, <1>5 DEF Matches
<1>8. hd.base.items[i].mfc = job.items[i].mfc
  BY <1>6, <1>7 DEF QueueInv, CopiesMatchTheirQueue, SaveKinds
<1> QED BY <1>1, <1>5, <1>6, <1>7, <1>8

\* A report written by index lands on the figure it is about, in the queue it
\* was found in.
THEOREM ItemWritesHit == Spec => ItemWritesHitTheirQueue
<1>1. TypeOK /\ QueueInv /\ [Next]_vars =>
        [SameQueue => \A i \in DOMAIN job.items :
           job'.items[i] # job.items[i] =>
             \E h \in Slots :
               /\ Saves(h)
               /\ handlers[h].kind = "item"
               /\ handlers[h].entry = i
               /\ handlers[h].base.version = job.version
               /\ handlers[h].base.items[i].mfc = job.items[i].mfc
               /\ job'.items[i].mfc = job.items[i].mfc]_vars
  BY EntryWrites
<1> QED BY <1>1, TypeCorrect, QueueInvariant, PTL DEF Spec, ItemWritesHitTheirQueue

\* Concurrent reports do not reopen each other's entries.
THEOREM FinishedStays == Spec => FinishedStaysFinished
<1>1. FinishedStatuses \cap OpenStatuses = {}
  BY DEF FinishedStatuses, OpenStatuses
<1>2. TypeOK /\ QueueInv /\ [Next]_vars =>
        [SameQueue => \A i \in DOMAIN job.items :
           /\ job.items[i].status \in FinishedStatuses
           /\ job'.items[i].status \in OpenStatuses
           => \E h \in Slots :
                /\ Saves(h)
                /\ handlers[h].entry = i
                /\ handlers[h].doc.items[i].status \in OpenStatuses]_vars
  BY <1>1, EntryWrites
<1> QED BY <1>2, TypeCorrect, QueueInvariant, PTL DEF Spec, FinishedStaysFinished

\* Only a phase-change webhook makes a closed job active again.
THEOREM OnlyPhaseChange == Spec => OnlyPhaseChangeReopens
<1>1. ASSUME TypeOK, QueueInv, [Next]_vars, SameRun, ~IsActive(job), IsActive(job')
      PROVE  \E h \in WebhookSlots :
               /\ Saves(h)
               /\ handlers[h].kind = "phase"
               /\ IsActive(handlers[h].doc)
  <2>1. PICK h \in Slots : /\ Saves(h) /\ job' = Written(handlers[h])
    BY <1>1, OnlySavesWrite
  <2> DEFINE hd == handlers[h]
  <2>2. hd.doc.phase # hd.base.phase /\ job'.phase = hd.doc.phase
    BY <1>1, <2>1, WrittenFields DEF TypeOK, IsActive
  <2>3. IsActive(hd.doc)
    BY <1>1, <2>2 DEF IsActive
  <2>4. hd.kind \notin {"item", "cancel", "stale"}
    BY <1>1, <2>2, <2>3 DEF QueueInv, CopiesShaped, CopyShape, IsActive, ActivePhases
  <2>5. hd.kind = "phase"
    BY <2>1, <2>4 DEF Saves, SaveKinds
  <2>6. h \in WebhookSlots
    BY <1>1, <2>5 DEF QueueInv, CopiesShaped
  <2> QED BY <2>1, <2>3, <2>5, <2>6
<1>2. TypeOK /\ QueueInv /\ [Next]_vars =>
        [SameRun /\ ~IsActive(job) /\ IsActive(job') =>
           \E h \in WebhookSlots :
             /\ Saves(h)
             /\ handlers[h].kind = "phase"
             /\ IsActive(handlers[h].doc)]_vars
  BY <1>1
<1> QED BY <1>2, TypeCorrect, QueueInvariant, PTL DEF Spec, OnlyPhaseChangeReopens

-----------------------------------------------------------------------------
(***************************************************************************)
(* One webhook at a time.  The copy of the only webhook under way is then  *)
(* current: cancel and cleanup change the phase, never items, stats or     *)
(* __v.                                                                    *)
(***************************************************************************)
CopyIsCurrent ==
  \A h \in WebhookSlots :
    LET hd == handlers[h]
    IN  hd.kind \in {"item", "phase"} /\ hd.base.run = job.run =>
          /\ hd.base.version = job.version
          /\ hd.base.items = job.items
          /\ hd.base.stats = job.stats
          /\ job.phase \in {hd.base.phase, "cancelled", "failed"}

CopyCounts ==
  \A h \in WebhookSlots :
    handlers[h].kind \in {"item", "phase"} =>
      handlers[h].doc.stats = StatsOf(handlers[h].doc.items)

SerialInv == CopyIsCurrent /\ CopyCounts /\ StatsMatchItems

\* A save from a current copy stores the handler's items and stats.
LEMMA CurrentSave ==
  ASSUME TypeOK, NEW hd \in Handler, CopyShape(hd), hd.kind \in {"item", "phase"},
         hd.base.items = job.items, hd.base.stats = job.stats
  PROVE  Written(hd).items = hd.doc.items /\ Written(hd).stats = hd.doc.stats
<1>1. job \in Doc /\ hd.doc.items \in Seq(Item) /\ hd.base.items \in Seq(Item)
  BY DEF TypeOK, Handler, Doc
<1>2. Written(hd).stats = hd.doc.stats
  BY <1>1, WrittenFields
<1>3. WrittenItems(hd) = hd.doc.items
  <2>1. CASE hd.kind = "phase"
    <3>1. hd.entry = 0
      BY <2>1 DEF CopyShape
    <3>2. ~Requeued(hd) => hd.doc.items = hd.base.items
      BY <2>1 DEF Requeued
    <3> QED BY <3>1, <3>2, WrittenItemsCases
  <2>2. CASE hd.kind = "item" /\ hd.entry = 0
    BY <2>2, WrittenItemsCases DEF CopyShape, Requeued
  <2>3. CASE hd.kind = "item" /\ hd.entry # 0
    <3>1. /\ ~Requeued(hd)
          /\ hd.entry \in DOMAIN hd.base.items
          /\ hd.doc.items =
               [hd.base.items EXCEPT ![hd.entry].status = hd.doc.items[hd.entry].status]
      BY <2>3 DEF CopyShape, Requeued
    <3>2. hd.doc.items[hd.entry] = hd.base.items[hd.entry] => hd.doc.items = hd.base.items
      <4> DEFINE e == hd.entry
                 B == hd.base.items
                 D == hd.doc.items
      <4>1. DOMAIN D = DOMAIN B /\ \A i \in DOMAIN B : i # e => D[i] = B[i]
        BY <3>1
      <4>2. D[e] = B[e] => \A i \in DOMAIN B : D[i] = B[i]
        BY <4>1
      <4>3. D = [i \in DOMAIN D |-> D[i]] /\ B = [i \in DOMAIN B |-> B[i]]
        BY <1>1
      <4> HIDE DEF D, B, e
      <4>4. D[e] = B[e] => D = B
        BY <4>1, <4>2, <4>3
      <4> QED BY <4>4 DEF D, B, e
    <3>3. CASE hd.doc.items[hd.entry] = hd.base.items[hd.entry]
      <4>1. WrittenItems(hd) = job.items
        BY <2>3, <3>1, <3>3 DEF WrittenItems
      <4> QED BY <3>2, <3>3, <4>1
    <3>4. CASE hd.doc.items[hd.entry] # hd.base.items[hd.entry]
      <4>1. WrittenItems(hd) =
              [job.items EXCEPT ![hd.entry].status = hd.doc.items[hd.entry].status]
        BY <2>3, <3>1, <3>4 DEF WrittenItems
      <4>2. WrittenItems(hd) =
              [hd.base.items EXCEPT ![hd.entry].status = hd.doc.items[hd.entry].status]
        BY <4>1
      <4> QED BY <3>1, <4>2
    <3> QED BY <3>3, <3>4
  <2> QED BY <2>1, <2>2, <2>3
<1> QED BY <1>1, <1>2, <1>3, WrittenFields

\* A save of cancel or cleanup closes the job and touches nothing else.
LEMMA ClosingSave ==
  ASSUME TypeOK, NEW hd \in Handler, CopyShape(hd), hd.kind \in {"cancel", "stale"}
  PROVE  /\ Written(hd).run = job.run
         /\ Written(hd).version = job.version
         /\ Written(hd).items = job.items
         /\ Written(hd).stats = job.stats
         /\ Written(hd).phase \in {job.phase, "cancelled", "failed"}
<1>1. ~Requeued(hd) /\ hd.entry = 0
  BY DEF Requeued, CopyShape
<1>2. WrittenItems(hd) = job.items
  BY <1>1, WrittenItemsCases
<1>3. /\ hd.doc.stats = hd.base.stats
      /\ hd.doc.phase \in {"cancelled", "failed"}
  BY DEF CopyShape
<1> QED BY <1>1, <1>2, <1>3, WrittenFields DEF TypeOK

LEMMA SerialInvNext ==
  ASSUME NEW w, WebhookSlots = {w},
         TypeOK, QueueInv, SerialInv, [Next]_vars
  PROVE  SerialInv'
<1>0. Idle.kind = "idle" /\ w \in Slots
  BY IdleType DEF Slots
<1>a. handlers \in [Slots -> Handler] /\ job \in Doc
  BY DEF TypeOK
<1>1. ASSUME NEW h \in Slots, NEW hd, Begins(h, hd)
      PROVE  SerialInv'
  <2>1. job' = job /\ \A g \in Slots : handlers'[g] = IF g = h THEN hd ELSE handlers[g]
    BY <1>1, <1>a DEF Begins, Start
  <2>2. hd.kind \in {"item", "phase"} =>
          /\ hd.base = job
          /\ hd.doc.stats = StatsOf(hd.doc.items)
    BY <1>1 DEF Begins, CopyShape, SaveKinds, SerialInv, StatsMatchItems
  <2>3. CopyIsCurrent'
    BY <1>0, <2>1, <2>2 DEF SerialInv, CopyIsCurrent, Slots
  <2>4. CopyCounts'
    BY <1>0, <2>1, <2>2 DEF SerialInv, CopyCounts, Slots
  <2> QED BY <2>1, <2>3, <2>4 DEF SerialInv, StatsMatchItems
<1>2. ASSUME NEW h \in Slots, SaveJob(h)
      PROVE  SerialInv'
  <2> DEFINE hd == handlers[h]
  <2>1. \A g \in Slots : handlers'[g] = IF g = h THEN Idle ELSE handlers[g]
    BY <1>2, <1>a DEF SaveJob, Finish
  <2>2. CopyCounts'
    BY <1>0, <2>1 DEF SerialInv, CopyCounts, Slots
  <2>3. CASE job' = job
    BY <1>0, <2>1, <2>2, <2>3 DEF SerialInv, CopyIsCurrent, StatsMatchItems, Slots
  <2>4. CASE Matches(hd) /\ job' = Written(hd) /\ hd.kind \in {"item", "phase"}
    <3>1. h = w /\ CopyShape(hd) /\ hd \in Handler
      BY <2>4, <1>a DEF QueueInv, CopiesShaped
    <3>2. /\ hd.base.items = job.items /\ hd.base.stats = job.stats
          /\ hd.doc.stats = StatsOf(hd.doc.items)
      BY <2>4, <3>1 DEF Matches, SerialInv, CopyIsCurrent, CopyCounts
    <3>3. job'.items = hd.doc.items /\ job'.stats = hd.doc.stats
      BY <2>4, <3>1, <3>2, CurrentSave
    <3>4. CopyIsCurrent'
      BY <1>0, <2>1, <3>1 DEF CopyIsCurrent
    <3> QED BY <2>2, <3>2, <3>3, <3>4 DEF SerialInv, StatsMatchItems
  <2>5. CASE Matches(hd) /\ job' = Written(hd) /\ hd.kind \in {"cancel", "stale"}
    <3>1. CopyShape(hd) /\ hd \in Handler
      BY <1>a DEF QueueInv, CopiesShaped
    <3>2. /\ job'.run = job.run /\ job'.version = job.version
          /\ job'.items = job.items /\ job'.stats = job.stats
          /\ job'.phase \in {job.phase, "cancelled", "failed"}
      BY <2>5, <3>1, ClosingSave
    <3>3. CopyIsCurrent'
      BY <1>0, <2>1, <3>2 DEF SerialInv, CopyIsCurrent, Slots
    <3> QED BY <2>2, <3>2, <3>3 DEF SerialInv, StatsMatchItems
  <2> QED BY <1>2, <2>3, <2>4, <2>5 DEF SaveJob, SaveKinds
<1>3. ASSUME NEW h \in Slots, DeleteFinishedJob(h)
      PROVE  SerialInv'
  <2>1. /\ job' = NoJob
        /\ \A g \in Slots : /\ handlers'[g].kind \in {"item", "phase"} => g # h
                            /\ g # h => handlers'[g] = handlers[g]
    BY <1>3, <1>a DEF DeleteFinishedJob, Handler
  <2>2. CopyCounts'
    BY <1>0, <2>1 DEF SerialInv, CopyCounts
  <2>3. CopyIsCurrent'
    BY <1>0, <2>1, NoJobRun DEF CopyIsCurrent, QueueInv, CopiesShaped, SaveKinds
  <2>4. NoJob.stats = StatsOf(NoJob.items)
    BY DEF NoJob, NewDoc
  <2> QED BY <2>1, <2>2, <2>3, <2>4 DEF SerialInv, StatsMatchItems
<1>4. ASSUME NEW h \in Slots, CreateJob(h)
      PROVE  SerialInv'
  <2>1. \A g \in Slots : handlers'[g] = IF g = h THEN Idle ELSE handlers[g]
    BY <1>4, <1>a DEF CreateJob, Finish
  <2>2. CopyCounts'
    BY <1>0, <2>1 DEF SerialInv, CopyCounts, Slots
  <2>3. CASE job' = job
    BY <1>0, <2>1, <2>2, <2>3 DEF SerialInv, CopyIsCurrent, StatsMatchItems, Slots
  <2>4. CASE job' = NewDoc(runs + 1)
    <3>1. job'.run = runs + 1 /\ runs \in Nat /\ job'.stats = StatsOf(job'.items)
      BY <2>4 DEF NewDoc, TypeOK
    <3>2. CopyIsCurrent'
      BY <1>0, <2>1, <3>1 DEF CopyIsCurrent, QueueInv, CopiesShaped, SaveKinds
    <3> QED BY <2>2, <3>1, <3>2 DEF SerialInv, StatsMatchItems
  <2> QED BY <1>4, <2>3, <2>4 DEF CreateJob
<1>5. ASSUME NEW h \in Slots, Abandon(h)
      PROVE  SerialInv'
  <2>1. \A g \in Slots : handlers'[g] = IF g = h THEN Idle ELSE handlers[g]
    BY <1>5, <1>a DEF Abandon, Finish
  <2> QED BY <1>0, <1>5, <2>1
          DEF Abandon, SerialInv, CopyIsCurrent, CopyCounts, StatsMatchItems, Slots
<1>6. CASE Tick
  BY <1>6 DEF Tick, SerialInv, CopyIsCurrent, CopyCounts, StatsMatchItems
<1>7. CASE ExpireCompleted
  <2>1. job' = NoJob /\ handlers' = handlers
    BY <1>7 DEF ExpireCompleted
  <2>2. CopyIsCurrent'
    BY <1>0, <2>1, NoJobRun DEF CopyIsCurrent, QueueInv, CopiesShaped, SaveKinds
  <2>3. NoJob.stats = StatsOf(NoJob.items)
    BY DEF NoJob, NewDoc
  <2> QED BY <2>1, <2>2, <2>3 DEF SerialInv, CopyCounts, StatsMatchItems
<1>8. CASE UNCHANGED vars
  BY <1>8 DEF vars, SerialInv, CopyIsCurrent, CopyCounts, StatsMatchItems
<1> QED BY <1>1, <1>2, <1>3, <1>4, <1>5, <1>6, <1>7, <1>8, NextCases

LEMMA SerialInvariant ==
  ASSUME NEW w, WebhookSlots = {w}
  PROVE  Spec => []SerialInv
<1>1. Init => SerialInv
  <2>1. NoJob.stats = StatsOf(NoJob.items)
    BY DEF NoJob, NewDoc
  <2> QED BY <2>1, IdleType
          DEF Init, SerialInv, CopyIsCurrent, CopyCounts, StatsMatchItems, Slots
<1>2. TypeOK /\ QueueInv /\ SerialInv /\ [Next]_vars => SerialInv'
  BY SerialInvNext
<1> QED BY <1>1, <1>2, TypeCorrect, QueueInvariant, PTL DEF Spec

\* With one webhook at a time the stored counters are those of the stored
\* queue, whatever cancels, cleanups and new runs interleave.
THEOREM SerialStats ==
  ASSUME NEW w, WebhookSlots = {w}
  PROVE  Spec => []StatsMatchItems
<1>1. SerialInv => StatsMatchItems
  BY DEF SerialInv
<1> QED BY <1>1, SerialInvariant, PTL

\* With one webhook at a time the report that finishes the last open entry
\* leaves the job closed.
THEOREM SerialLastReport ==
  ASSUME NEW w, WebhookSlots = {w}
  PROVE  Spec => LastReportClosesJob
<1>1. ASSUME TypeOK, QueueInv, SerialInv, [Next]_vars, SameQueue,
             ~AllDone(job.items), AllDone(job'.items)
      PROVE  ~IsActive(job')
  <2>1. PICK h \in Slots : /\ SaveJob(h) /\ Saves(h)
                           /\ Matches(handlers[h])
                           /\ job' = Written(handlers[h])
    BY <1>1, OnlySavesWrite DEF SameQueue
  <2> DEFINE hd == handlers[h]
  <2>2. job \in Doc /\ hd \in Handler /\ CopyShape(hd) /\ job.version \in Nat
    BY <1>1 DEF TypeOK, QueueInv, CopiesShaped, Doc
  <2>3. hd.kind \notin {"cancel", "stale"}
    BY <1>1, <2>1, <2>2, ClosingSave
  <2>4. hd.kind \in {"item", "phase"} /\ h = w
    BY <1>1, <2>1, <2>3 DEF Saves, SaveKinds, QueueInv, CopiesShaped
  <2>5. /\ hd.base.items = job.items /\ hd.base.stats = job.stats
        /\ job.phase \in {hd.base.phase, "cancelled", "failed"}
    BY <1>1, <2>1, <2>4 DEF Matches, SerialInv, CopyIsCurrent
  <2>6. job'.items = hd.doc.items
    BY <1>1, <2>1, <2>2, <2>4, <2>5, CurrentSave
  <2>7. ~Requeued(hd)
    BY <1>1, <2>1, <2>2, WrittenFields DEF SameQueue
  <2>8. hd.kind = "item"
    BY <1>1, <2>4, <2>5, <2>6, <2>7 DEF Requeued
  <2>9. hd.doc.phase = "completed"
    BY <1>1, <2>2, <2>6, <2>8 DEF CopyShape
  <2>10. job'.phase \in {"completed", "cancelled", "failed"}
    BY <2>1, <2>2, <2>5, <2>9, WrittenFields
  <2> QED BY <2>10 DEF IsActive, ActivePhases
<1>2. TypeOK /\ QueueInv /\ SerialInv /\ [Next]_vars =>
        [SameQueue /\ ~AllDone(job.items) /\ AllDone(job'.items)
           => ~IsActive(job')]_vars
  BY <1>1
<1> QED BY <1>2, TypeCorrect, QueueInvariant, SerialInvariant, PTL
        DEF Spec, LastReportClosesJob

\* With one webhook at a time, and final statuses in its reports, a completed
\* job has no open entry: neither a late report nor a new queue leaves one
\* behind a job that stays completed.
THEOREM SerialCompleted ==
  ASSUME NEW w, WebhookSlots = {w}, ReportStatuses \subseteq FinishedStatuses
  PROVE  Spec => []CompletedMeansAllDone
<1>1. Init => CompletedMeansAllDone
  BY DEF Init, NoJob, NewDoc, CompletedMeansAllDone
<1>2. ASSUME TypeOK, QueueInv, SerialInv, CompletedMeansAllDone, [Next]_vars
      PROVE  CompletedMeansAllDone'
  <2>1. CASE job' = job
    BY <1>2, <2>1 DEF CompletedMeansAllDone, AllDone
  <2>2. CASE job' \in {NoJob, NewDoc(runs + 1)}
    BY <2>2 DEF NoJob, NewDoc, CompletedMeansAllDone
  <2>3. ASSUME NEW h \in Slots, SaveJob(h), job' # job
        PROVE  CompletedMeansAllDone'
    <3> DEFINE hd == handlers[h]
    <3>1. /\ Matches(hd) /\ job' = Written(hd) /\ hd.kind \in SaveKinds
          /\ CopyShape(hd) /\ hd \in Handler /\ job \in Doc
          /\ hd.kind \in {"item", "phase"} => h \in WebhookSlots
      BY <1>2, <2>3 DEF SaveJob, QueueInv, CopiesShaped, TypeOK
    <3>2. CASE hd.kind \in {"cancel", "stale"}
      <4>1. job'.items = job.items /\ job'.phase \in {job.phase, "cancelled", "failed"}
        BY <1>2, <3>1, <3>2, ClosingSave
      <4> QED BY <1>2, <4>1 DEF CompletedMeansAllDone, AllDone
    <3>3. ASSUME hd.kind \in {"item", "phase"}
          PROVE  /\ hd.base.items = job.items /\ hd.base.stats = job.stats
                 /\ job.phase \in {hd.base.phase, "cancelled", "failed"}
                 /\ job'.items = hd.doc.items
                 /\ job'.phase = IF hd.doc.phase # hd.base.phase THEN hd.doc.phase
                                                                 ELSE job.phase
      <4>1. /\ hd.base.items = job.items /\ hd.base.stats = job.stats
            /\ job.phase \in {hd.base.phase, "cancelled", "failed"}
        BY <1>2, <3>1, <3>3 DEF SerialInv, CopyIsCurrent, Matches
      <4>2. job'.items = hd.doc.items
        BY <1>2, <3>1, <3>3, <4>1, CurrentSave
      <4>3. job'.phase = IF hd.doc.phase # hd.base.phase THEN hd.doc.phase ELSE job.phase
        BY <3>1, WrittenFields
      <4> QED BY <4>1, <4>2, <4>3
    <3>4. CASE hd.kind = "item"
      <4>1. /\ hd.doc.phase = IF AllDone(hd.doc.items) THEN "completed" ELSE hd.base.phase
            /\ AllDone(hd.base.items) => AllDone(hd.doc.items)
        BY <3>1, <3>4 DEF CopyShape
      <4>2. job'.phase = "completed" => AllDone(hd.doc.items)
        BY <1>2, <3>3, <3>4, <4>1 DEF CompletedMeansAllDone
      <4> QED BY <3>3, <3>4, <4>2 DEF CompletedMeansAllDone, AllDone
    <3>5. CASE hd.kind = "phase"
      <4>1. CASE hd.doc.phase \in ActivePhases
        BY <3>3, <3>5, <4>1 DEF CompletedMeansAllDone, ActivePhases
      <4>2. CASE hd.doc.items = <<>>
        BY <3>3, <3>5, <4>2 DEF CompletedMeansAllDone, AllDone
      <4> QED BY <3>1, <3>5, <4>1, <4>2 DEF CopyShape
    <3> QED BY <3>1, <3>2, <3>4, <3>5 DEF SaveKinds
  <2>4. ASSUME NEW h \in Slots, NEW hd, Begins(h, hd)
        PROVE  job' = job
    BY <2>4 DEF Begins, Start
  <2>5. ASSUME NEW h \in Slots, DeleteFinishedJob(h) \/ CreateJob(h) \/ Abandon(h)
        PROVE  job' \in {job, NoJob, NewDoc(runs + 1)}
    BY <2>5 DEF DeleteFinishedJob, CreateJob, Abandon
  <2>6. Tick \/ ExpireCompleted \/ UNCHANGED vars => job' \in {job, NoJob}
    BY DEF Tick, ExpireCompleted, vars
  <2> QED BY <1>2, <2>1, <2>2, <2>3, <2>4, <2>5, <2>6, NextCases
<1> QED BY <1>1, <1>2, TypeCorrect, QueueInvariant, SerialInvariant, PTL DEF Spec

-----------------------------------------------------------------------------
(***************************************************************************)
(* The implementation of SyncSession.  Loads change nothing that is seen;  *)
(* a save is the request's one moment.  What it writes is told by its      *)
(* copies (CopyExplained): an item handler's is the loaded queue with one  *)
(* report, a phase handler's the loaded queue or the announced one.  The   *)
(* version (CopiesMatchTheirQueue) then carries the report over to the     *)
(* stored queue, and with one webhook at a time the loaded queue is the    *)
(* stored one (CopyIsCurrent).                                             *)
(***************************************************************************)
Reports(hd, mfc, status) ==
  /\ hd.doc.items = Session!Reported(hd.base.items, mfc, status)
  /\ hd.entry # 0 =>
       /\ hd.entry \in DOMAIN hd.base.items
       /\ hd.base.items[hd.entry].mfc = mfc
       /\ \A k \in 1 .. hd.entry - 1 : hd.base.items[k].mfc # mfc
       /\ hd.doc.items[hd.entry].status = status

Announces(hd, phase, queue) ==
  /\ hd.doc.phase = phase
  /\ hd.doc.items = IF queue = <<>> THEN hd.base.items ELSE Session!Pending(queue)

CopyExplained(hd) ==
  /\ hd.kind = "item" =>
       \E mfc \in MfcIds, status \in ReportStatuses : Reports(hd, mfc, status)
  /\ hd.kind = "phase" =>
       \/ \E phase \in ScraperPhases, queue \in Queues \cup {<<>>} : Announces(hd, phase, queue)
       \/ hd.doc.phase = "completed" /\ hd.doc.items = <<>> /\ hd.base.items = <<>>

CopiesExplained == \A h \in Slots : CopyExplained(handlers[h])

WithStatus(items, i, status) == [items EXCEPT ![i].status = status]

\* A report changes the first entry of its figure.
LEMMA FirstReported ==
  ASSUME NEW items \in Seq(Item), NEW mfc \in MfcIds, NEW status \in Statuses,
         NEW i \in DOMAIN items, items[i].mfc = mfc,
         \A k \in 1 .. i - 1 : items[k].mfc # mfc
  PROVE  Session!Reported(items, mfc, status) = WithStatus(items, i, status)
<1> DEFINE First(k) == items[k].mfc = mfc /\ \A l \in 1 .. k - 1 : items[l].mfc # mfc
<1>1. DOMAIN items = 1 .. Len(items) /\ Len(items) \in Nat
  OBVIOUS
<1>2. \A k \in DOMAIN items : First(k) <=> k = i
  <2>1. ASSUME NEW k \in DOMAIN items, First(k), k # i PROVE FALSE
    <3>1. k < i \/ i < k
      BY <1>1, <2>1
    <3>2. k < i => k \in 1 .. i - 1
      BY <1>1, <2>1
    <3>3. i < k => i \in 1 .. k - 1
      BY <1>1, <2>1
    <3> QED BY <2>1, <3>1, <3>2, <3>3
  <2> QED BY <2>1
<1>3. Session!Reported(items, mfc, status) =
        [k \in DOMAIN items |-> IF First(k) THEN [items[k] EXCEPT !.status = status]
                                            ELSE items[k]]
  BY DEF Session!Reported
<1> HIDE DEF First
<1>4. Session!Reported(items, mfc, status) =
        [k \in DOMAIN items |-> IF k = i THEN [items[k] EXCEPT !.status = status]
                                        ELSE items[k]]
  BY <1>2, <1>3
<1>5. @ = [items EXCEPT ![i].status = status]
  OBVIOUS
<1> QED BY <1>4, <1>5 DEF WithStatus

\* The entry that is found is that one.
LEMMA FoundIsFirst ==
  ASSUME NEW items \in Seq(Item), NEW mfc \in MfcIds, NEW status \in Statuses,
         NEW i, i = FindItem(items, mfc)
  PROVE  /\ i # 0 =>
              /\ i \in DOMAIN items /\ items[i].mfc = mfc
              /\ \A k \in 1 .. i - 1 : items[k].mfc # mfc
              /\ Session!Reported(items, mfc, status) = WithStatus(items, i, status)
         /\ i = 0 => Session!Reported(items, mfc, status) = items
<1> DEFINE first == {k \in DOMAIN items : /\ items[k].mfc = mfc
                                          /\ \A l \in 1 .. k - 1 : items[l].mfc # mfc}
<1>1. CASE first = {}
  <2>1. i = 0
    BY <1>1 DEF FindItem
  <2>2. Session!Reported(items, mfc, status) = [k \in DOMAIN items |-> items[k]]
    BY <1>1 DEF Session!Reported
  <2>3. items = [k \in DOMAIN items |-> items[k]]
    OBVIOUS
  <2> QED BY <2>1, <2>2, <2>3
<1>2. CASE first # {}
  <2>1. i \in first
    BY <1>2 DEF FindItem
  <2>2. i # 0
    BY <2>1
  <2>3. Session!Reported(items, mfc, status) = WithStatus(items, i, status)
    BY <2>1, FirstReported
  <2> QED BY <2>1, <2>2, <2>3
<1> QED BY <1>1, <1>2

LEMMA PendingItems ==
  ASSUME NEW doc \in Doc, NEW phase \in ActivePhases, NEW queue \in Queues \cup {<<>>},
         NEW new, new = ChangePhase(doc, phase, queue)
  PROVE  new.items = IF queue = <<>> THEN doc.items ELSE Session!Pending(queue)
<1>1. CASE queue = <<>>
  BY <1>1 DEF ChangePhase, Doc
<1>2. CASE queue # <<>>
  <2> DEFINE items == [i \in 1..Len(queue) |-> [mfc |-> queue[i], status |-> "pending"]]
             moved == [[doc EXCEPT !.phase = phase] EXCEPT !.items = items]
  <2>1. new = RecalculateStats(moved)
    BY <1>2 DEF ChangePhase
  <2>2. items = Session!Pending(queue)
    BY DEF Session!Pending
  <2> HIDE DEF items
  <2>3. moved.items = items
    BY DEF Doc
  <2>4. RecalculateStats(moved).items = moved.items
    BY DEF RecalculateStats, Doc
  <2> QED BY <1>2, <2>1, <2>2, <2>3, <2>4
<1> QED BY <1>1, <1>2

LEMMA ExplainedStart ==
  ASSUME TypeOK, CopiesExplained, NEW h \in Slots, NEW hd, CopyExplained(hd), Start(h, hd)
  PROVE  CopiesExplained'
<1>1. \A g \in Slots : handlers'[g] = IF g = h THEN hd ELSE handlers[g]
  BY DEF Start, TypeOK
<1>2. \A g \in Slots : CopyExplained(handlers'[g])
  BY <1>1 DEF CopiesExplained
<1> QED BY <1>2 DEF CopiesExplained, CopyExplained, Reports, Announces

LEMMA ExplainedNext == TypeOK /\ CopiesExplained /\ [Next]_vars => CopiesExplained'
<1> SUFFICES ASSUME TypeOK, CopiesExplained, [Next]_vars
             PROVE  CopiesExplained'
  OBVIOUS
<1>0. job \in Doc /\ job.items \in Seq(Item)
  BY DEF TypeOK, Doc
<1>1. ASSUME NEW h \in WebhookSlots, NEW mfc \in MfcIds, NEW status \in ReportStatuses,
             LoadItemComplete(h, mfc, status)
      PROVE  CopiesExplained'
  <2> DEFINE doc   == UpdateItemStatus(job, mfc, status)
             found == FindItem(job.items, mfc)
             entry == IF found # 0 /\ (status \in FinishedStatuses \/ doc.items # job.items)
                        THEN found ELSE 0
             hd == [kind |-> "item", base |-> job, doc |-> doc, entry |-> entry,
                    dirty |-> doc # job \/ entry # 0 \/ AllDone(doc.items)]
  <2>1. status \in Statuses
    BY ReportAssumption
  <2>2. /\ found = 0 => doc.items = job.items
        /\ found # 0 => /\ doc.items = [job.items EXCEPT ![found].status = status]
                        /\ doc.items[found].status = status
    BY <1>0, <2>1, UpdateItemStatusFacts
  <2>3. /\ found # 0 =>
             /\ found \in DOMAIN job.items /\ job.items[found].mfc = mfc
             /\ \A k \in 1 .. found - 1 : job.items[k].mfc # mfc
             /\ Session!Reported(job.items, mfc, status) =
                  WithStatus(job.items, found, status)
        /\ found = 0 => Session!Reported(job.items, mfc, status) = job.items
    <3>1. found = FindItem(job.items, mfc)
      OBVIOUS
    <3> HIDE DEF found, doc
    <3> QED BY <1>0, <2>1, <3>1, FoundIsFirst
  <2>4. Start(h, hd)
    BY <1>1 DEF LoadItemComplete
  <2> HIDE DEF doc, found
  <2>5. Reports(hd, mfc, status)
    BY <2>2, <2>3 DEF Reports, WithStatus
  <2>6. hd.kind = "item"
    OBVIOUS
  <2> HIDE DEF hd
  <2>7. CopyExplained(hd)
    BY <2>5, <2>6 DEF CopyExplained
  <2> QED BY <2>4, <2>7, ExplainedStart DEF Slots
<1>2. ASSUME NEW h \in WebhookSlots, NEW phase \in ScraperPhases,
             NEW queue \in Queues \cup {<<>>}, NEW news \in BOOLEAN,
             LoadPhaseChange(h, phase, queue, news)
      PROVE  CopiesExplained'
  <2> DEFINE doc == ChangePhase(job, phase, queue)
             hd == [kind |-> "phase", base |-> job, doc |-> doc, entry |-> 0,
                    dirty |-> doc # job \/ news]
  <2>1. phase \in ActivePhases
    BY ReportAssumption
  <2>2. doc.phase = phase
    BY <1>0, <2>1, ChangePhaseFacts
  <2>3. doc.items = IF queue = <<>> THEN job.items ELSE Session!Pending(queue)
    BY <1>0, <2>1, PendingItems
  <2>4. Start(h, hd)
    BY <1>2 DEF LoadPhaseChange
  <2> HIDE DEF doc
  <2>5. Announces(hd, phase, queue) /\ hd.kind = "phase"
    BY <2>2, <2>3 DEF Announces
  <2> HIDE DEF hd
  <2>6. CopyExplained(hd)
    BY <2>5 DEF CopyExplained
  <2> QED BY <2>4, <2>6, ExplainedStart DEF Slots
<1>3. ASSUME NEW h \in WebhookSlots, NEW news \in BOOLEAN, LoadListsOnlyCompletion(h, news)
      PROVE  CopiesExplained'
  <2> DEFINE doc == [job EXCEPT !.phase = "completed"]
             hd == [kind |-> "phase", base |-> job, doc |-> doc, entry |-> 0,
                    dirty |-> doc # job \/ news]
  <2>1. doc.phase = "completed" /\ doc.items = <<>> /\ job.items = <<>>
    BY <1>0, <1>3 DEF LoadListsOnlyCompletion, Doc
  <2>2. Start(h, hd)
    BY <1>3 DEF LoadListsOnlyCompletion
  <2> HIDE DEF doc
  <2>3. CopyExplained(hd)
    BY <2>1 DEF CopyExplained
  <2> QED BY <2>2, <2>3, ExplainedStart DEF Slots
<1>4. ASSUME NEW h \in Slots, NEW hd, hd.kind \notin {"item", "phase"}, Start(h, hd)
      PROVE  CopiesExplained'
  BY <1>4, ExplainedStart DEF CopyExplained
<1>5. ASSUME NEW h \in Slots, LoadCancel(h) \/ (\E threshold \in {1, 2} : LoadStale(h, threshold))
      PROVE  CopiesExplained'
  BY <1>4, <1>5 DEF LoadCancel, LoadStale
<1>6. ASSUME NEW h \in Slots, LoadCreateJob(h)
      PROVE  CopiesExplained'
  <2> DEFINE hd == [Idle EXCEPT !.kind = IF job = NoJob THEN "create" ELSE "delete"]
  <2>1. hd.kind \in {"create", "delete"}
    BY IdleType DEF Handler
  <2>2. Start(h, hd)
    BY <1>6 DEF LoadCreateJob
  <2> HIDE DEF hd
  <2> QED BY <1>4, <2>1, <2>2
<1>7. ASSUME NEW h \in Slots, \/ Finish(h)
                              \/ handlers' = [handlers EXCEPT ![h].kind = "create"]
      PROVE  CopiesExplained'
  <2>1. /\ \A g \in Slots \ {h} : handlers'[g] = handlers[g]
        /\ handlers'[h].kind \in {"idle", "create"}
    BY <1>7, IdleType DEF Finish, TypeOK, Handler
  <2> QED BY <2>1 DEF CopiesExplained, CopyExplained, Reports, Announces
<1>8. CASE UNCHANGED handlers
  BY <1>8 DEF CopiesExplained, CopyExplained, Reports, Announces
<1>9. ASSUME NEW h \in WebhookSlots, Webhook(h) PROVE CopiesExplained'
  BY <1>1, <1>2, <1>3, <1>9 DEF Webhook
<1>10. ASSUME NEW h \in UserSlots, UserRequest(h) PROVE CopiesExplained'
  BY <1>5, <1>6, <1>10 DEF UserRequest, LoadActiveJob, Slots
<1>11. CASE CleanupStaleSessions
  BY <1>5, <1>11 DEF CleanupStaleSessions, Slots
<1>12. ASSUME NEW h \in Slots, Continue(h) PROVE CopiesExplained'
  BY <1>7, <1>12 DEF Continue, SaveJob, DeleteFinishedJob, CreateJob, Abandon
<1>13. CASE Tick \/ ExpireCompleted \/ UNCHANGED vars
  BY <1>8, <1>13 DEF Tick, ExpireCompleted, vars
<1> QED BY <1>9, <1>10, <1>11, <1>12, <1>13 DEF Next

LEMMA ExplainedAlways == Spec => []CopiesExplained
<1>1. Init => CopiesExplained
  BY IdleType DEF Init, CopiesExplained, CopyExplained
<1> QED BY <1>1, ExplainedNext, TypeCorrect, PTL DEF Spec

-----------------------------------------------------------------------------
(***************************************************************************)
(* Expiry.  A handler's copy is stamped if the document was, or if it      *)
(* closes the job other than by a lists-only completion; within a run a    *)
(* stamp is never taken back.                                              *)
(***************************************************************************)
StampShape(hd) ==
  /\ hd.kind = "item" => (hd.doc.stamped <=> hd.base.stamped \/ AllDone(hd.doc.items))
  /\ hd.kind = "phase" => (hd.doc.stamped <=> hd.base.stamped)
  /\ hd.kind \in {"cancel", "stale"} => hd.doc.stamped /\ IsActive(hd.base)

StampOf(hd) ==
  hd.kind \in SaveKinds /\ job # NoJob /\ hd.base.run = job.run /\ hd.base.stamped => job.stamped

StampInv == \A h \in Slots : StampShape(handlers[h]) /\ StampOf(handlers[h])

LEMMA RecalculatedStamp ==
  ASSUME NEW doc \in Doc
  PROVE  /\ RecalculateStats(doc).items = doc.items
         /\ RecalculateStats(doc).stamped <=> doc.stamped \/ AllDone(doc.items)
<1>1. CASE AllDone(doc.items)
  BY <1>1 DEF RecalculateStats, Doc
<1>2. CASE ~AllDone(doc.items)
  BY <1>2 DEF RecalculateStats, Doc
<1> QED BY <1>1, <1>2

LEMMA UpdatedStamp ==
  ASSUME NEW doc \in Doc, NEW mfc \in MfcIds, NEW status \in Statuses,
         NEW new, new = UpdateItemStatus(doc, mfc, status)
  PROVE  new.stamped <=> doc.stamped \/ AllDone(new.items)
<1> DEFINE i == FindItem(doc.items, mfc)
           moved == IF i = 0 THEN doc ELSE [doc EXCEPT !.items[i].status = status]
<1>1. new = RecalculateStats(moved)
  BY DEF UpdateItemStatus
<1>2. moved \in Doc /\ (moved.stamped <=> doc.stamped)
  <2>1. CASE i = 0
    BY <2>1
  <2>2. CASE i # 0
    <3>1. [doc.items EXCEPT ![i].status = status] \in Seq(Item)
      BY <2>2, FindItemType, SetStatusType DEF Doc
    <3> QED BY <2>2, <3>1 DEF Doc
  <2> QED BY <2>1, <2>2
<1> HIDE DEF moved
<1> QED BY <1>1, <1>2, RecalculatedStamp

LEMMA AnnouncedStamp ==
  ASSUME NEW doc \in Doc, NEW phase \in ActivePhases, NEW queue \in Queues \cup {<<>>},
         NEW new, new = ChangePhase(doc, phase, queue)
  PROVE  new.stamped <=> doc.stamped
<1>1. CASE queue = <<>>
  BY <1>1 DEF ChangePhase, Doc
<1>2. CASE queue # <<>>
  <2> DEFINE items == [i \in 1..Len(queue) |-> [mfc |-> queue[i], status |-> "pending"]]
             moved == [[doc EXCEPT !.phase = phase] EXCEPT !.items = items]
  <2>1. queue \in Seq(MfcIds) /\ Len(queue) \in Nat /\ Len(queue) >= 1
    BY <1>2, QueuesAssumption
  <2>2. 1 \in DOMAIN items /\ items[1].status = "pending"
    BY <2>1
  <2>3. ~AllDone(items)
    BY <2>2 DEF AllDone, FinishedStatuses
  <2>4. new = RecalculateStats(moved)
    BY <1>2 DEF ChangePhase
  <2> HIDE DEF items
  <2>5. new = [moved EXCEPT !.stats = StatsOf(items)]
    BY <2>3, <2>4 DEF RecalculateStats, Doc
  <2> QED BY <2>5 DEF Doc
<1> QED BY <1>1, <1>2

LEMMA StampStart ==
  ASSUME TypeOK, StampInv, NEW h \in Slots, NEW hd, StampShape(hd), Start(h, hd),
         hd.kind \in SaveKinds => hd.base = job
  PROVE  StampInv'
<1>1. job' = job /\ \A g \in Slots : handlers'[g] = IF g = h THEN hd ELSE handlers[g]
  BY DEF Start, TypeOK
<1>2. StampOf(hd)
  BY DEF StampOf
<1>3. \A g \in Slots : StampShape(handlers'[g])
  BY <1>1 DEF StampInv
<1>4. ASSUME NEW g \in Slots PROVE StampOf(handlers[g])'
  BY <1>1, <1>2 DEF StampInv, StampOf
<1> QED BY <1>3, <1>4 DEF StampInv, StampShape

\* A step that begins nothing: copies stay or go, and the job keeps its stamp.
LEMMA StampStep ==
  ASSUME TypeOK, QueueInv, StampInv,
         \A h \in Slots : handlers'[h] = handlers[h] \/ handlers'[h].kind \in {"idle", "create"},
         \/ job' # NoJob /\ job # NoJob /\ job'.run = job.run /\ (job.stamped => job'.stamped)
         \/ job' = job
         \/ job' = NoJob
         \/ job'.run = runs + 1
  PROVE  StampInv'
<1> SUFFICES ASSUME NEW h \in Slots
             PROVE  StampShape(handlers[h])' /\ StampOf(handlers[h])'
  BY DEF StampInv, StampShape, StampOf
<1>1. CASE handlers'[h].kind \in {"idle", "create"}
  BY <1>1 DEF StampShape, StampOf, SaveKinds
<1>2. CASE handlers'[h] = handlers[h]
  <2>1. StampShape(handlers[h])'
    BY <1>2 DEF StampInv, StampShape
  <2>2. handlers[h].kind \in SaveKinds => handlers[h].base.run \in 1 .. runs /\ runs \in Nat
    BY DEF QueueInv, CopiesShaped, TypeOK
  <2>3. StampOf(handlers[h])'
    BY <1>2, <2>2 DEF StampInv, StampOf
  <2> QED BY <2>1, <2>3
<1> QED BY <1>1, <1>2

LEMMA WrittenStamp ==
  ASSUME job \in Doc, NEW hd
  PROVE  Written(hd).stamped <=> job.stamped \/ hd.doc.stamped
BY DEF Written, Doc

LEMMA StampNext ==
  ASSUME TypeOK, QueueInv, StampInv, [Next]_vars
  PROVE  StampInv'
<1>0. job \in Doc
  BY DEF TypeOK
<1>1. ASSUME NEW h \in WebhookSlots, NEW mfc \in MfcIds, NEW status \in ReportStatuses,
             LoadItemComplete(h, mfc, status)
      PROVE  StampInv'
  <2> DEFINE doc   == UpdateItemStatus(job, mfc, status)
             found == FindItem(job.items, mfc)
             entry == IF found # 0 /\ (status \in FinishedStatuses \/ doc.items # job.items)
                        THEN found ELSE 0
             hd == [kind |-> "item", base |-> job, doc |-> doc, entry |-> entry,
                    dirty |-> doc # job \/ entry # 0 \/ AllDone(doc.items)]
  <2>1. doc.stamped <=> job.stamped \/ AllDone(doc.items)
    BY <1>0, UpdatedStamp, ReportAssumption
  <2>2. Start(h, hd)
    BY <1>1 DEF LoadItemComplete
  <2> HIDE DEF doc, found
  <2>3. StampShape(hd) /\ hd.base = job
    BY <2>1 DEF StampShape
  <2> HIDE DEF hd
  <2> QED BY <2>2, <2>3, StampStart DEF Slots
<1>2. ASSUME NEW h \in WebhookSlots, NEW phase \in ScraperPhases,
             NEW queue \in Queues \cup {<<>>}, NEW news \in BOOLEAN,
             LoadPhaseChange(h, phase, queue, news)
      PROVE  StampInv'
  <2> DEFINE doc == ChangePhase(job, phase, queue)
             hd == [kind |-> "phase", base |-> job, doc |-> doc, entry |-> 0,
                    dirty |-> doc # job \/ news]
  <2>1. doc.stamped <=> job.stamped
    BY <1>0, AnnouncedStamp, ReportAssumption
  <2>2. Start(h, hd)
    BY <1>2 DEF LoadPhaseChange
  <2> HIDE DEF doc
  <2>3. StampShape(hd) /\ hd.base = job
    BY <2>1 DEF StampShape
  <2> HIDE DEF hd
  <2> QED BY <2>2, <2>3, StampStart DEF Slots
<1>3. ASSUME NEW h \in WebhookSlots, NEW news \in BOOLEAN, LoadListsOnlyCompletion(h, news)
      PROVE  StampInv'
  <2> DEFINE doc == [job EXCEPT !.phase = "completed"]
             hd == [kind |-> "phase", base |-> job, doc |-> doc, entry |-> 0,
                    dirty |-> doc # job \/ news]
  <2>1. doc.stamped <=> job.stamped
    BY <1>0 DEF Doc
  <2>2. Start(h, hd)
    BY <1>3 DEF LoadListsOnlyCompletion
  <2> HIDE DEF doc
  <2>3. StampShape(hd) /\ hd.base = job
    BY <2>1 DEF StampShape
  <2> HIDE DEF hd
  <2> QED BY <2>2, <2>3, StampStart DEF Slots
<1>4. ASSUME NEW h \in Slots, NEW kind \in {"cancel", "stale"}, NEW phase, IsActive(job),
             Start(h, [kind |-> kind, base |-> job,
                       doc |-> [job EXCEPT !.phase = phase, !.stamped = TRUE],
                       entry |-> 0, dirty |-> TRUE])
      PROVE  StampInv'
  <2> DEFINE doc == [job EXCEPT !.phase = phase, !.stamped = TRUE]
             hd == [kind |-> kind, base |-> job, doc |-> doc, entry |-> 0, dirty |-> TRUE]
  <2>1. doc.stamped
    BY <1>0 DEF Doc
  <2> HIDE DEF doc
  <2>2. StampShape(hd) /\ hd.base = job /\ Start(h, hd)
    BY <1>4, <2>1 DEF StampShape, doc
  <2> HIDE DEF hd
  <2> QED BY <2>2, StampStart
<1>5. ASSUME NEW h \in Slots, LoadCancel(h) \/ (\E threshold \in {1, 2} : LoadStale(h, threshold))
      PROVE  StampInv'
  BY <1>4, <1>5 DEF LoadCancel, LoadStale
<1>6. ASSUME NEW h \in Slots, LoadCreateJob(h)
      PROVE  StampInv'
  <2> DEFINE hd == [Idle EXCEPT !.kind = IF job = NoJob THEN "create" ELSE "delete"]
  <2>1. hd.kind \in {"create", "delete"}
    BY IdleType DEF Handler
  <2>2. Start(h, hd)
    BY <1>6 DEF LoadCreateJob
  <2> HIDE DEF hd
  <2> QED BY <2>1, <2>2, StampStart DEF StampShape, SaveKinds
<1>7. ASSUME NEW h \in Slots, \/ Finish(h)
                              \/ handlers' = [handlers EXCEPT ![h].kind = "create"]
                              \/ handlers' = handlers
      PROVE  \A g \in Slots : handlers'[g] = handlers[g] \/ handlers'[g].kind \in {"idle", "create"}
  BY <1>7, IdleType DEF Finish, TypeOK, Handler
<1>8. ASSUME NEW h \in Slots, SaveJob(h)
      PROVE  StampInv'
  <2>1. \/ job' = job
        \/ job' = Written(handlers[h]) /\ job # NoJob
    BY <1>8 DEF SaveJob, Matches
  <2>2. CASE job' = Written(handlers[h]) /\ job # NoJob
    <3>1. job'.run = job.run /\ (job.stamped => job'.stamped)
      BY <1>0, <2>2, WrittenFields, WrittenStamp
    <3>2. job' # NoJob
      BY <2>2, <3>1, NoJobRun DEF QueueInv, LastRunStored, TypeOK
    <3> QED BY <1>7, <1>8, <2>2, <3>1, <3>2, StampStep DEF SaveJob
  <2> QED BY <1>7, <1>8, <2>1, <2>2, StampStep DEF SaveJob
<1>9. ASSUME NEW h \in Slots, DeleteFinishedJob(h) \/ CreateJob(h) \/ Abandon(h)
      PROVE  StampInv'
  <2>1. job' \in {job, NoJob} \/ job'.run = runs + 1
    BY <1>9 DEF DeleteFinishedJob, CreateJob, Abandon, NewDoc
  <2> QED BY <1>7, <1>9, <2>1, StampStep DEF DeleteFinishedJob, CreateJob, Abandon
<1>10. CASE Tick \/ ExpireCompleted \/ UNCHANGED vars
  <2>1. job' \in {job, NoJob} /\ handlers' = handlers
    BY <1>10 DEF Tick, ExpireCompleted, vars
  <2> QED BY <2>1, StampStep
<1>11. ASSUME NEW h \in WebhookSlots, Webhook(h) PROVE StampInv'
  BY <1>1, <1>2, <1>3, <1>11 DEF Webhook
<1>12. ASSUME NEW h \in UserSlots, UserRequest(h) PROVE StampInv'
  BY <1>5, <1>6, <1>12 DEF UserRequest, LoadActiveJob, Slots
<1>13. CASE CleanupStaleSessions
  BY <1>5, <1>13 DEF CleanupStaleSessions, Slots
<1>14. ASSUME NEW h \in Slots, Continue(h) PROVE StampInv'
  BY <1>8, <1>9, <1>14 DEF Continue
<1> QED BY <1>10, <1>11, <1>12, <1>13, <1>14 DEF Next

LEMMA StampsAlways == Spec => []StampInv
<1>1. Init => StampInv
  BY IdleType DEF Init, StampInv, StampShape, StampOf, SaveKinds
<1>2. TypeOK /\ QueueInv /\ StampInv /\ [Next]_vars => StampInv'
  BY StampNext
<1> QED BY <1>1, <1>2, TypeCorrect, QueueInvariant, PTL DEF Spec

-----------------------------------------------------------------------------
CurrentWhenAlone == (\A g, h \in WebhookSlots : g = h) => CopyIsCurrent

LEMMA CurrentAlways == Spec => []CurrentWhenAlone
<1>1. CASE \E w : WebhookSlots = {w}
  <2>1. PICK w : WebhookSlots = {w}
    BY <1>1
  <2>2. Spec => []SerialInv
    BY <2>1, SerialInvariant
  <2>3. SerialInv => CurrentWhenAlone
    BY DEF SerialInv, CurrentWhenAlone
  <2> QED BY <2>2, <2>3, PTL
<1>2. CASE ~ \E w : WebhookSlots = {w}
  <2>1. CurrentWhenAlone
    <3>1. WebhookSlots # {} => \E g, h \in WebhookSlots : g # h
      BY <1>2
    <3> QED BY <3>1 DEF CurrentWhenAlone, CopyIsCurrent
  <2> QED BY <2>1, PTL
<1> QED BY <1>1, <1>2

\* A stored document is a session; what becomes of it is told by its phase and
\* its items.
LEMMA SeenSession ==
  ASSUME TypeOK, QueueInv, job # NoJob, job'.run = job.run, runs' = runs
  PROVE  Session!Become(job'.phase, job'.items, job'.stamped)
<1>1. job.run # 0
  BY DEF QueueInv, LastRunStored, TypeOK
<1> DEFINE seen == [run |-> job.run, phase |-> job.phase, queue |-> job.items,
                    expires |-> job.stamped]
           after == [seen EXCEPT !.phase = job'.phase, !.queue = job'.items,
                                 !.expires = job'.stamped]
<1>2. seen # Session!NoSession
  BY <1>1 DEF Session!NoSession
<1>3. /\ DOMAIN after = {"run", "phase", "queue", "expires"}
      /\ after = [i \in DOMAIN after |-> after[i]]
  OBVIOUS
<1>4. /\ after.run = job.run /\ after.phase = job'.phase /\ after.queue = job'.items
      /\ after.expires = job'.stamped
  OBVIOUS
<1> HIDE DEF after
<1>5. after = [run |-> job'.run, phase |-> job'.phase, queue |-> job'.items,
               expires |-> job'.stamped]
  BY <1>3, <1>4
<1> QED BY <1>2, <1>5 DEF after, Session!Become

\* What a save does to the expiry: it is told by what the handler does.
LEMMA SavedStamp ==
  ASSUME TypeOK, StampInv, NEW h \in Slots, handlers[h].kind \in SaveKinds,
         Matches(handlers[h]), job' = Written(handlers[h])
  PROVE  /\ handlers[h].kind = "item" =>
              /\ AllDone(handlers[h].doc.items) => job'.stamped = TRUE
              /\ ~AllDone(handlers[h].doc.items) => job'.stamped = job.stamped
         /\ handlers[h].kind = "phase" => job'.stamped = job.stamped
         /\ handlers[h].kind \in {"cancel", "stale"} =>
              job'.stamped = TRUE /\ IsActive(handlers[h].base)
<1> DEFINE hd == handlers[h]
<1>1. /\ job \in Doc /\ hd \in Handler /\ hd.entry \in {0} \cup DOMAIN hd.doc.items
      /\ job # NoJob /\ job.run = hd.base.run
  BY DEF TypeOK, Matches
<1>2. job.stamped \in BOOLEAN /\ job'.stamped \in BOOLEAN
  BY <1>1, WrittenType DEF Doc
<1>3. job'.stamped <=> job.stamped \/ hd.doc.stamped
  BY <1>1, WrittenStamp
<1>4. StampShape(hd) /\ (hd.base.stamped => job.stamped)
  BY <1>1 DEF StampInv, StampOf
<1>5. hd.kind = "item" => (job'.stamped <=> job.stamped \/ AllDone(hd.doc.items))
  BY <1>3, <1>4 DEF StampShape
<1>6. hd.kind = "phase" => (job'.stamped <=> job.stamped)
  BY <1>3, <1>4 DEF StampShape
<1>7. hd.kind \in {"cancel", "stale"} => job'.stamped /\ IsActive(hd.base)
  BY <1>3, <1>4 DEF StampShape
<1> QED BY <1>2, <1>5, <1>6, <1>7

\* The save of a report.
LEMMA SavedReport ==
  ASSUME TypeOK, QueueInv, StampInv, CopiesExplained, CurrentWhenAlone,
         NEW h \in Slots, handlers[h].kind = "item", Matches(handlers[h]),
         job' = Written(handlers[h]), runs' = runs
  PROVE  Session!SessionNext
<1> DEFINE hd == handlers[h]
<1>0. /\ hd \in Handler /\ CopyShape(hd) /\ job # NoJob /\ h \in WebhookSlots
      /\ job \in Doc /\ job.items \in Seq(Item)
      /\ hd.base.items \in Seq(Item) /\ hd.doc.items \in Seq(Item)
      /\ job.run = hd.base.run
  BY DEF TypeOK, QueueInv, CopiesShaped, Handler, Doc, Matches
<1>1. PICK mfc \in MfcIds, status \in ReportStatuses : Reports(hd, mfc, status)
  BY DEF CopiesExplained, CopyExplained
<1>2. Session!Become(job'.phase, job'.items, job'.stamped)
  <2>1. job'.run = job.run
    BY <1>0, WrittenFields
  <2> QED BY <1>0, <2>1, SeenSession
<1>s. /\ job.stamped \in BOOLEAN
      /\ AllDone(hd.doc.items) => job'.stamped = TRUE
      /\ ~AllDone(hd.doc.items) => job'.stamped = job.stamped
  BY <1>0, SavedStamp DEF SaveKinds, Doc
<1>3. /\ job'.phase = IF hd.doc.phase # hd.base.phase THEN hd.doc.phase ELSE job.phase
      /\ job'.items = WrittenItems(hd)
      /\ hd.doc.phase = IF AllDone(hd.doc.items) THEN "completed" ELSE hd.base.phase
  BY <1>0, WrittenFields DEF CopyShape
<1>4. CASE \A g, k \in WebhookSlots : g = k
  <2>1. /\ hd.base.items = job.items /\ hd.base.stats = job.stats
        /\ job.phase \in {hd.base.phase, "cancelled", "failed"}
    BY <1>0, <1>4 DEF CurrentWhenAlone, CopyIsCurrent
  <2>2. job'.items = hd.doc.items
    BY <1>0, <2>1, CurrentSave
  <2>3. job'.items = Session!Reported(job.items, mfc, status)
    BY <1>1, <2>1, <2>2 DEF Reports
  <2>4. Session!Finished(job'.items) <=> AllDone(hd.doc.items)
    BY <2>2 DEF Session!Finished, AllDone, FinishedStatuses
  <2>5. Session!Finished(job'.items) =>
          /\ job'.phase = "completed" \/ (job'.phase = job.phase /\ job.phase \in Session!Over)
          /\ job'.stamped = TRUE
    BY <1>3, <1>s, <2>1, <2>4 DEF Session!Over
  <2>6. ~Session!Finished(job'.items) => job'.phase = job.phase /\ job'.stamped = job.stamped
    BY <1>3, <1>s, <2>1, <2>4
  <2>7. CASE Session!Finished(job'.items)
    <3>1. Session!Become(job'.phase, job'.items, TRUE)
      BY <1>2, <2>5, <2>7
    <3>2. (job.stamped \/ Session!Finished(job'.items)) = TRUE
      BY <2>7
    <3>3. Session!Report(mfc, status)
      BY <2>3, <2>5, <2>7, <3>1, <3>2 DEF Session!Report
    <3> QED BY <3>3 DEF Session!SessionNext
  <2>8. CASE ~Session!Finished(job'.items)
    <3>1. Session!Become(job.phase, job'.items, job.stamped)
      BY <1>2, <2>6, <2>8
    <3>2. (job.stamped \/ Session!Finished(job'.items)) = job.stamped
      BY <1>s, <2>8
    <3>3. Session!Report(mfc, status)
      BY <2>3, <2>8, <3>1, <3>2 DEF Session!Report
    <3> QED BY <3>3 DEF Session!SessionNext
  <2> QED BY <2>7, <2>8
<1>5. CASE ~ \A g, k \in WebhookSlots : g = k
  <2>1. job'.phase \in {job.phase, "completed"}
    BY <1>3
  <2>2. job'.items \in {job.items, Session!Reported(job.items, mfc, status)}
    <3>1. ~Requeued(hd)
      BY DEF Requeued
    <3>2. CASE hd.entry = 0
      BY <1>3, <3>1, <3>2, WrittenItemsCases
    <3>3. CASE hd.entry # 0
      <4>1. job.version = hd.base.version
        BY <3>3 DEF Matches
      <4>2. /\ Len(hd.base.items) = Len(job.items)
            /\ \A i \in DOMAIN job.items : hd.base.items[i].mfc = job.items[i].mfc
        BY <1>0, <4>1 DEF QueueInv, CopiesMatchTheirQueue, SaveKinds
      <4>3. DOMAIN hd.base.items = DOMAIN job.items
        BY <1>0, <4>2
      <4>4. /\ hd.entry \in DOMAIN job.items
            /\ job.items[hd.entry].mfc = mfc
            /\ hd.doc.items[hd.entry].status = status
        BY <1>1, <3>3, <4>2, <4>3 DEF Reports
      <4>5. \A k \in 1 .. hd.entry - 1 : job.items[k].mfc # mfc
        <5>1. \A k \in 1 .. hd.entry - 1 : k \in DOMAIN job.items
          BY <1>0, <4>4
        <5> QED BY <1>1, <3>3, <4>2, <5>1 DEF Reports
      <4>6. Session!Reported(job.items, mfc, status) = WithStatus(job.items, hd.entry, status)
        <5>1. status \in Statuses
          BY ReportAssumption
        <5> QED BY <1>0, <4>4, <4>5, <5>1, FirstReported
      <4>7. WrittenItems(hd) \in {job.items, WithStatus(job.items, hd.entry, status)}
        BY <3>1, <4>4, WrittenItemsCases DEF WithStatus
      <4> QED BY <1>3, <4>6, <4>7
    <3> QED BY <3>2, <3>3
  <2>3. job'.stamped \in {job.stamped, TRUE} /\ (job'.phase # job.phase => job'.stamped)
    BY <1>3, <1>s
  <2>4. Session!Overlap(mfc, status)
    BY <1>2, <1>5, <2>1, <2>2, <2>3 DEF Session!Overlap
  <2> QED BY <1>1, <2>4 DEF Session!SessionNext
<1> QED BY <1>4, <1>5

\* The save of a phase change.
LEMMA SavedPhase ==
  ASSUME TypeOK, QueueInv, StampInv, CopiesExplained, CurrentWhenAlone,
         NEW h \in Slots, handlers[h].kind = "phase", Matches(handlers[h]),
         job' = Written(handlers[h]), runs' = runs
  PROVE  Session!SessionNext \/ UNCHANGED Session!sessionVars
<1> DEFINE hd == handlers[h]
<1>0. /\ hd \in Handler /\ CopyShape(hd) /\ job # NoJob /\ h \in WebhookSlots
      /\ job \in Doc /\ job.run = hd.base.run
  BY DEF TypeOK, QueueInv, CopiesShaped, Matches
<1>1. job'.run = job.run
  BY <1>0, WrittenFields
<1>2. Session!Become(job'.phase, job'.items, job.stamped) /\ job'.stamped = job.stamped
  <2>1. job'.stamped = job.stamped
    BY SavedStamp DEF SaveKinds
  <2> QED BY <1>0, <1>1, <2>1, SeenSession
<1>3. job'.phase = IF hd.doc.phase # hd.base.phase THEN hd.doc.phase ELSE job.phase
  BY <1>0, WrittenFields
<1>4. job'.items = IF hd.doc.items # hd.base.items THEN hd.doc.items ELSE job.items
  BY <1>0, WrittenFields, WrittenItemsCases DEF Requeued, CopyShape
<1>5. (\A g, k \in WebhookSlots : g = k) =>
        /\ hd.base.items = job.items
        /\ job.phase \in {hd.base.phase, "cancelled", "failed"}
  BY <1>0 DEF CurrentWhenAlone, CopyIsCurrent
<1>6. ASSUME NEW phase \in ScraperPhases, NEW queue \in Queues \cup {<<>>},
             Announces(hd, phase, queue)
      PROVE  Session!SessionNext
  <2> DEFINE news == IF hd.doc.items # hd.base.items THEN queue ELSE <<>>
  <2>1. news \in Queues \cup {<<>>}
    OBVIOUS
  <2>2. job'.items = IF news = <<>> THEN job.items ELSE Session!Pending(news)
    BY <1>4, <1>6 DEF Announces
  <2>3. \/ job'.phase = phase
        \/ /\ (\A g, k \in WebhookSlots : g = k) => job.phase # "completed"
           /\ job'.phase = job.phase
    BY <1>3, <1>5, <1>6, ReportAssumption DEF Announces, ActivePhases
  <2> HIDE DEF news
  <2>4. Session!Announce(phase, news)
    BY <1>2, <2>2, <2>3 DEF Session!Announce
  <2> QED BY <2>1, <2>4 DEF Session!SessionNext
<1>7. CASE hd.doc.phase = "completed" /\ hd.doc.items = <<>> /\ hd.base.items = <<>>
  <2>1. job'.items = job.items
    BY <1>4, <1>7
  <2>2. CASE job'.phase = job.phase
    BY <1>1, <1>2, <2>1, <2>2 DEF Session!sessionVars
  <2>3. CASE job'.phase # job.phase
    <3>1. job'.phase = "completed"
      BY <1>3, <1>7, <2>3
    <3>2. Session!EndWithoutQueue
      BY <1>2, <1>5, <1>7, <2>1, <3>1 DEF Session!EndWithoutQueue
    <3> QED BY <3>2 DEF Session!SessionNext
  <2> QED BY <2>2, <2>3
<1> QED BY <1>6, <1>7 DEF CopiesExplained, CopyExplained

LEMMA SessionStep ==
  ASSUME TypeOK, QueueInv, StampInv, CopiesExplained, CurrentWhenAlone, [Next]_vars
  PROVE  [Session!SessionNext]_Session!sessionVars
<1>1. CASE job' = job /\ runs' = runs
  BY <1>1 DEF Session!sessionVars
<1>2. CASE job' = NoJob /\ runs' = runs
  <2>1. Session!Remove
    BY <1>2 DEF Session!Remove, Session!NoSession, NoJob, NewDoc
  <2> QED BY <2>1 DEF Session!SessionNext
<1>3. CASE job = NoJob /\ job' = NewDoc(runs + 1) /\ runs' = runs + 1
  <2>1. Session!Create
    BY <1>3 DEF Session!Create, Session!NoSession, NoJob, NewDoc
  <2> QED BY <2>1 DEF Session!SessionNext
<1>4. ASSUME NEW h \in Slots, SaveJob(h)
      PROVE  [Session!SessionNext]_Session!sessionVars
  <2> DEFINE hd == handlers[h]
  <2>0. runs' = runs /\ hd.kind \in SaveKinds /\ job \in Doc /\ hd \in Handler /\ CopyShape(hd)
    BY <1>4 DEF SaveJob, TypeOK, QueueInv, CopiesShaped
  <2>1. CASE job' = job
    BY <1>1, <2>0, <2>1
  <2>2. CASE job' # job
    <3>1. Matches(hd) /\ job' = Written(hd) /\ job # NoJob
      BY <1>4, <2>2 DEF SaveJob, Matches
    <3>2. CASE hd.kind = "item"
      BY <2>0, <3>1, <3>2, SavedReport
    <3>3. CASE hd.kind = "phase"
      BY <2>0, <3>1, <3>3, SavedPhase
    <3>4. CASE hd.kind \in {"cancel", "stale"}
      <4>1. job'.run = job.run /\ job'.items = job.items
        BY <2>0, <3>1, <3>4, ClosingSave
      <4>2. job'.stamped = TRUE /\ IsActive(hd.base)
        BY <2>0, <3>1, <3>4, SavedStamp
      <4>3. job'.phase \in {"cancelled", "failed"}
        BY <2>0, <3>1, <3>4, <4>2, WrittenFields DEF CopyShape, IsActive, ActivePhases
      <4>4. Session!Become(job'.phase, job.items, TRUE)
        BY <2>0, <3>1, <4>1, <4>2, SeenSession
      <4>5. Session!Close
        BY <4>3, <4>4 DEF Session!Close
      <4> QED BY <4>5 DEF Session!SessionNext
    <3> QED BY <2>0, <3>2, <3>3, <3>4 DEF SaveKinds
  <2> QED BY <2>1, <2>2
<1>5. ASSUME NEW h \in Slots, NEW hd, Begins(h, hd)
      PROVE  job' = job /\ runs' = runs
  BY <1>5 DEF Begins, Start
<1>6. ASSUME NEW h \in Slots, DeleteFinishedJob(h) \/ CreateJob(h) \/ Abandon(h)
      PROVE  \/ job' \in {job, NoJob} /\ runs' = runs
             \/ job = NoJob /\ job' = NewDoc(runs + 1) /\ runs' = runs + 1
  BY <1>6 DEF DeleteFinishedJob, CreateJob, Abandon
<1>7. Tick \/ ExpireCompleted \/ UNCHANGED vars => job' \in {job, NoJob} /\ runs' = runs
  BY DEF Tick, ExpireCompleted, vars
<1> QED BY <1>1, <1>2, <1>3, <1>4, <1>5, <1>6, <1>7, NextCases

\* The handlers, with their stale copies, partial writes and version checks,
\* implement a session on which every request acts at one moment.
THEOREM ImplementsSession == Spec => SessionSpec
<1>1. Init => Session!SessionInit
  BY DEF Init, Session!SessionInit, Session!NoSession, NoJob, NewDoc
<1>2. TypeOK /\ QueueInv /\ StampInv /\ CopiesExplained /\ CurrentWhenAlone /\ [Next]_vars
        => [Session!SessionNext]_Session!sessionVars
  BY SessionStep
<1> QED BY <1>1, <1>2, TypeCorrect, QueueInvariant, StampsAlways, ExplainedAlways,
           CurrentAlways, PTL
        DEF Spec, SessionSpec, Session!SessionSpec
=============================================================================
