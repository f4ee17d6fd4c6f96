------------------------------- MODULE SyncJob -------------------------------
(***************************************************************************)
(* The life of one MFC sync session: the SyncJob document in MongoDB, and  *)
(* the request handlers that read it, change their own copy and write it   *)
(* back.  src/src/models/SyncJob.ts holds the document and its methods,    *)
(* src/src/routes/syncRoutes.ts the handlers: the scraper's item-complete  *)
(* and phase-change webhooks, the user's create, cancel and active-job     *)
(* requests, and the periodic cleanup.                                     *)
(*                                                                         *)
(* Node runs a handler without interruption between two awaits, so each    *)
(* handler is two steps (or three): a load (findOne and the synchronous    *)
(* code after it) and a save.  Steps of other handlers happen in between.  *)
(* sessionId is unique, so sessions do not share documents and one session *)
(* is modelled.                                                            *)
(***************************************************************************)
EXTENDS Integers, Sequences, FiniteSets

CONSTANTS
  MfcIds,          (* Figures a queue may name.                             *)
  Queues,          (* The non-empty lists of figures a phase-change webhook *)
                   (* may carry, each a sequence over MfcIds.               *)
  ReportStatuses,  (* Statuses an item-complete webhook may carry.          *)
  ScraperPhases,   (* Non-terminal phases a phase-change webhook may carry. *)
  WebhookSlots,    (* Webhooks served at the same time; a singleton when    *)
                   (* the scraper awaits each answer before it calls again. *)
  UserSlots,       (* The user's requests served at the same time.          *)
  Timer,           (* The slot of the periodic cleanup.                     *)
  MaxRuns,         (* Bound: documents created under this sessionId.        *)
  MaxVersion,      (* Bound: queue replacements of one document.            *)
  MaxInFlight      (* Bound: handlers under way at the same time.           *)

ActivePhases == {"validating", "exporting", "parsing",
                 "fetching_activity_order", "fetching_lists",
                 "queueing", "enriching"}
TerminalPhases == {"completed", "failed", "cancelled"}
FinishedStatuses == {"completed", "failed", "skipped"}
OpenStatuses == {"pending", "processing"}
Statuses == FinishedStatuses \cup OpenStatuses

Slots == WebhookSlots \cup UserSlots \cup {Timer}

ASSUME QueuesAssumption == Queues \subseteq Seq(MfcIds) \ {<<>>}
ASSUME ReportAssumption ==
  ReportStatuses \subseteq Statuses /\ ScraperPhases \subseteq ActivePhases
ASSUME SlotsAssumption ==
  /\ WebhookSlots \cap UserSlots = {}
  /\ Timer \notin WebhookSlots \cup UserSlots
ASSUME BoundsAssumption == {MaxRuns, MaxVersion, MaxInFlight} \subseteq Nat

VARIABLES
  job,       (* The stored document; NoJob when there is none.              *)
  age,       (* How long ago updatedAt was: 0 less than 10 minutes ago,     *)
             (* 1 more than 10, 2 more than 15.                             *)
  runs,      (* Documents created so far; the last one is job.run.          *)
  handlers   (* The handler in each slot.                                   *)

vars == <<job, age, runs, handlers>>

-----------------------------------------------------------------------------
(***************************************************************************)
(* The document and the methods of its schema.                             *)
(***************************************************************************)
Item == [mfc : MfcIds, status : Statuses]

Tally(items, status) == Cardinality({i \in DOMAIN items : items[i].status = status})

StatsOf(items) ==
  [total      |-> Len(items),
   pending    |-> Tally(items, "pending"),
   processing |-> Tally(items, "processing"),
   completed  |-> Tally(items, "completed"),
   failed     |-> Tally(items, "failed"),
   skipped    |-> Tally(items, "skipped")]

AllDone(items) == \A i \in DOMAIN items : items[i].status \in FinishedStatuses

Stats == [total : Nat, pending : Nat, processing : Nat,
          completed : Nat, failed : Nat, skipped : Nat]

\* run stands for _id, version for __v; stamped says that completedAt is set.
Doc == [run : Nat, version : Nat, phase : ActivePhases \cup TerminalPhases,
        items : Seq(Item), stats : Stats, stamped : BOOLEAN]

NewDoc(run) ==
  [run |-> run, version |-> 0, phase |-> "validating",
   items |-> <<>>, stats |-> StatsOf(<<>>), stamped |-> FALSE]

NoJob == [NewDoc(0) EXCEPT !.phase = "failed"]

IsActive(doc) == doc.phase \in ActivePhases

\* Faulty: decides by the counters from before the recalculation.
FaultyRecalculateEarly(doc) ==
  LET new == [doc EXCEPT !.stats = StatsOf(doc.items)]
  IN  IF doc.stats.pending + doc.stats.processing = 0
        THEN [new EXCEPT !.phase = "completed", !.stamped = TRUE]
        ELSE new

\* Faulty: a failed item keeps the job open.
FaultyRecalculateStrict(doc) ==
  LET new == [doc EXCEPT !.stats = StatsOf(doc.items)]
  IN  IF new.stats.completed + new.stats.skipped = new.stats.total
        THEN [new EXCEPT !.phase = "completed", !.stamped = TRUE]
        ELSE new

\* Faulty: a completion by the last report sets no completedAt.
FaultyRecalculateUnstamped(doc) ==
  LET new == [doc EXCEPT !.stats = StatsOf(doc.items)]
  IN  IF AllDone(doc.items) THEN [new EXCEPT !.phase = "completed"] ELSE new

\* Assigning stats.pending = 0 and stats.processing = 0 is AllDone.
RecalculateStats(doc) ==
  IF AllDone(doc.items)
    THEN [doc EXCEPT !.stats = StatsOf(doc.items),
                     !.phase = "completed", !.stamped = TRUE]
    ELSE [doc EXCEPT !.stats = StatsOf(doc.items)]

\* this.items.find: the first entry of the figure, 0 when there is none.
FindItem(items, mfc) ==
  LET first == {i \in DOMAIN items :
                  /\ items[i].mfc = mfc
                  /\ \A k \in 1..(i - 1) : items[k].mfc # mfc}
  IN  IF first = {} THEN 0 ELSE CHOOSE i \in first : TRUE

UpdateItemStatus(doc, mfc, status) ==
  LET i == FindItem(doc.items, mfc)
  IN  RecalculateStats(IF i = 0 THEN doc
                       ELSE [doc EXCEPT !.items[i].status = status])

-----------------------------------------------------------------------------
(***************************************************************************)
(* A handler keeps base, the document as it was loaded, and doc, the same  *)
(* document after the handler's assignments.  entry is the index of the    *)
(* items entry it assigns to (0: none); dirty says that save() has         *)
(* something to write.                                                     *)
(***************************************************************************)
SaveKinds == {"item", "phase", "cancel", "stale"}
Kinds == SaveKinds \cup {"idle", "delete", "create"}

Handler == [kind : Kinds, base : Doc, doc : Doc, entry : Nat, dirty : BOOLEAN]

Idle == [kind |-> "idle", base |-> NoJob, doc |-> NoJob, entry |-> 0, dirty |-> FALSE]

Start(h, handler) ==
  /\ handlers[h] = Idle
  /\ Cardinality({g \in Slots : handlers[g] # Idle}) < MaxInFlight
  /\ handlers' = [handlers EXCEPT ![h] = handler]
  /\ UNCHANGED <<job, age, runs>>

\* The handler answers its request and is gone.
Finish(h) == handlers' = [handlers EXCEPT ![h] = Idle]

(***************************************************************************)
(* POST /webhook/item-complete up to the save in updateItemStatus.  The    *)
(* completedAt of a finished entry is a new Date, so the entry is written  *)
(* even when its status stays.                                             *)
(***************************************************************************)
LoadItemComplete(h, mfc, status) ==
  LET doc   == UpdateItemStatus(job, mfc, status)
      found == FindItem(job.items, mfc)
      entry == IF found # 0 /\ (status \in FinishedStatuses \/ doc.items # job.items)
                 THEN found ELSE 0
  IN  /\ job # NoJob
      /\ Start(h, [kind |-> "item", base |-> job, doc |-> doc, entry |-> entry,
                   dirty |-> doc # job \/ entry # 0 \/ AllDone(doc.items)])

\* Faulty: the new queue without recalculateStats.
FaultyChangePhaseNoStats(doc, phase, queue) ==
  LET moved == [doc EXCEPT !.phase = phase]
  IN  IF queue = <<>> THEN moved
      ELSE [moved EXCEPT !.items =
              [i \in 1..Len(queue) |-> [mfc |-> queue[i], status |-> "pending"]]]

\* Faulty: the new entries carry the name of the phase.
FaultyChangePhaseStatus(doc, phase, queue) ==
  LET moved == [doc EXCEPT !.phase = phase]
  IN  IF queue = <<>> THEN moved
      ELSE [moved EXCEPT !.items =
              [i \in 1..Len(queue) |-> [mfc |-> queue[i], status |-> phase]]]

(***************************************************************************)
(* POST /webhook/phase-change with a non-terminal phase.  Without items    *)
(* the queue stays; with items it is replaced and everything is pending.   *)
(* news: the webhook carries a message other than the stored one.          *)
(***************************************************************************)
ChangePhase(doc, phase, queue) ==
  LET moved == [doc EXCEPT !.phase = phase]
  IN  IF queue = <<>> THEN moved
      ELSE RecalculateStats(
             [moved EXCEPT !.items =
                [i \in 1..Len(queue) |-> [mfc |-> queue[i], status |-> "pending"]]])

LoadPhaseChange(h, phase, queue, news) ==
  LET doc == ChangePhase(job, phase, queue)
  IN  /\ job # NoJob
      /\ job.version < MaxVersion \/ queue = <<>>
      /\ Start(h, [kind |-> "phase", base |-> job, doc |-> doc, entry |-> 0,
                   dirty |-> doc # job \/ news])

\* The same webhook with 'completed' for a job without items: accepted, and
\* completedAt stays as it is.  Other terminal phases change nothing.
LoadListsOnlyCompletion(h, news) ==
  LET doc == [job EXCEPT !.phase = "completed"]
  IN  /\ job # NoJob
      /\ job.items = <<>>
      /\ Start(h, [kind |-> "phase", base |-> job, doc |-> doc, entry |-> 0,
                   dirty |-> doc # job \/ news])

-----------------------------------------------------------------------------
(***************************************************************************)
(* The user's requests and the cleanup.                                    *)
(***************************************************************************)
\* DELETE /job/:sessionId: the scraper is notified (a failure is swallowed)
\* between the load and the assignments, which read nothing again.
LoadCancel(h) ==
  /\ job # NoJob
  /\ IsActive(job)
  /\ Start(h, [kind |-> "cancel", base |-> job,
               doc |-> [job EXCEPT !.phase = "cancelled", !.stamped = TRUE],
               entry |-> 0, dirty |-> TRUE])

\* failStaleJob, called with a job that was active and old enough when read:
\* by GET /active-job after 10 minutes, by the cleanup after 15.
LoadStale(h, threshold) ==
  /\ job # NoJob
  /\ IsActive(job)
  /\ age >= threshold
  /\ Start(h, [kind |-> "stale", base |-> job,
               doc |-> [job EXCEPT !.phase = "failed", !.stamped = TRUE],
               entry |-> 0, dirty |-> TRUE])

LoadActiveJob(h) == LoadStale(h, 1)

\* Faulty: the cleanup looks for jobs in the enriching phase only.
FaultyCleanupEnriching == job.phase = "enriching" /\ LoadStale(Timer, 2)

CleanupStaleSessions == LoadStale(Timer, 2)

\* POST /job.  An active job is returned as it is: nothing changes.
LoadCreateJob(h) ==
  /\ job = NoJob \/ ~IsActive(job)
  /\ Start(h, [Idle EXCEPT !.kind = IF job = NoJob THEN "create" ELSE "delete"])

\* deleteOne({ sessionId }): whatever document has this sessionId by now.
DeleteFinishedJob(h) ==
  /\ handlers[h].kind = "delete"
  /\ job' = NoJob
  /\ age' = 0
  /\ handlers' = [handlers EXCEPT ![h].kind = "create"]
  /\ UNCHANGED runs

\* SyncJob.create; the unique index on sessionId rejects a second document.
CreateJob(h) ==
  /\ handlers[h].kind = "create"
  /\ job = NoJob => runs < MaxRuns
  /\ IF job = NoJob
       THEN /\ job' = NewDoc(runs + 1)
            /\ runs' = runs + 1
            /\ age' = 0
       ELSE UNCHANGED <<job, runs, age>>
  /\ Finish(h)

-----------------------------------------------------------------------------
(***************************************************************************)
(* job.save().  Mongoose sends one updateOne: its filter is the _id, and   *)
(* also __v when an items entry or the whole array is written; it sets     *)
(* only the paths that differ from what was loaded, increments __v when    *)
(* the array is replaced, and refreshes updatedAt.  When no document       *)
(* matches nothing is written and the handler answers 500.                 *)
(***************************************************************************)
Requeued(hd) == /\ hd.kind = "phase"
                /\ hd.doc.items # hd.base.items

\* Faulty: an entry is written by index without looking at __v.
FaultyMatchesAnyVersion(hd) == /\ job # NoJob
                               /\ job.run = hd.base.run

Matches(hd) == /\ job # NoJob
               /\ job.run = hd.base.run
               /\ hd.entry # 0 \/ Requeued(hd) => job.version = hd.base.version

\* Faulty: the whole array of the handler's copy is written.
FaultyWrittenArray(hd) ==
  IF Requeued(hd) \/ hd.entry # 0 THEN hd.doc.items ELSE job.items

WrittenItems(hd) ==
  LET i == hd.entry
  IN  CASE Requeued(hd) -> hd.doc.items
        [] ~Requeued(hd) /\ i # 0 /\ hd.doc.items[i] # hd.base.items[i] ->
             [job.items EXCEPT ![i].status = hd.doc.items[i].status]
        [] OTHER -> job.items

\* Faulty: replacing the queue leaves __v alone.
FaultyWrittenVersion(hd) ==
  [job EXCEPT
     !.phase   = IF hd.doc.phase # hd.base.phase THEN hd.doc.phase ELSE @,
     !.stats   = IF hd.doc.stats # hd.base.stats THEN hd.doc.stats ELSE @,
     !.stamped = @ \/ hd.doc.stamped,
     !.items   = WrittenItems(hd)]

\* Faulty: the phase of the handler's copy is written, changed or not.
FaultyWrittenPhase(hd) ==
  [job EXCEPT !.phase   = hd.doc.phase,
              !.stats   = hd.doc.stats,
              !.stamped = @ \/ hd.doc.stamped,
              !.items   = WrittenItems(hd),
              !.version = IF Requeued(hd) THEN @ + 1 ELSE @]

Written(hd) ==
  [job EXCEPT
     !.phase   = IF hd.doc.phase # hd.base.phase THEN hd.doc.phase ELSE @,
     !.stats   = IF hd.doc.stats # hd.base.stats THEN hd.doc.stats ELSE @,
     !.stamped = @ \/ hd.doc.stamped,
     !.items   = WrittenItems(hd),
     !.version = IF Requeued(hd) THEN @ + 1 ELSE @]

SaveJob(h) ==
  LET hd == handlers[h]
  IN  /\ hd.kind \in SaveKinds
      /\ IF hd.dirty /\ Matches(hd)
           THEN job' = Written(hd) /\ age' = 0
           ELSE UNCHANGED <<job, age>>
      /\ Finish(h)
      /\ UNCHANGED runs

-----------------------------------------------------------------------------
(***************************************************************************)
(* The environment.                                                        *)
(***************************************************************************)
\* The database call fails or the process dies: the handler writes nothing.
Abandon(h) ==
  /\ handlers[h] # Idle
  /\ Finish(h)
  /\ UNCHANGED <<job, age, runs>>

\* Time passes: updatedAt falls behind the next threshold.
Tick ==
  /\ job # NoJob
  /\ age < 2
  /\ age' = age + 1
  /\ UNCHANGED <<job, runs, handlers>>

\* The TTL index removes a document seven days after its completedAt.
ExpireCompleted ==
  /\ job # NoJob
  /\ job.stamped
  /\ job' = NoJob
  /\ age' = 0
  /\ UNCHANGED <<runs, handlers>>

-----------------------------------------------------------------------------
Init ==
  /\ job = NoJob
  /\ age = 0
  /\ runs = 0
  /\ handlers = [h \in Slots |-> Idle]

Webhook(h) ==
  \/ \E mfc \in MfcIds, status \in ReportStatuses : LoadItemComplete(h, mfc, status)
  \/ \E phase \in ScraperPhases, queue \in Queues \cup {<<>>}, news \in BOOLEAN :
       LoadPhaseChange(h, phase, queue, news)
  \/ \E news \in BOOLEAN : LoadListsOnlyCompletion(h, news)

UserRequest(h) ==
  \/ LoadCancel(h)
  \/ LoadActiveJob(h)
  \/ LoadCreateJob(h)

Continue(h) ==
  \/ SaveJob(h)
  \/ DeleteFinishedJob(h)
  \/ CreateJob(h)
  \/ Abandon(h)

Next ==
  \/ \E h \in WebhookSlots : Webhook(h)
  \/ \E h \in UserSlots : UserRequest(h)
  \/ CleanupStaleSessions
  \/ \E h \in Slots : Continue(h)
  \/ Tick
  \/ ExpireCompleted

Spec == Init /\ [][Next]_vars

(***************************************************************************)
(* Time passes and the cleanup interval fires every five minutes.  Each    *)
(* firing may fail, but the database does not fail them all: a save that   *)
(* is tried again and again is done in the end.                            *)
(***************************************************************************)
Fairness == /\ WF_vars(Tick)
            /\ WF_vars(CleanupStaleSessions)
            /\ SF_vars(SaveJob(Timer))

FairSpec == Spec /\ Fairness

-----------------------------------------------------------------------------
(***************************************************************************)
(* What holds however the handlers interleave.                             *)
(***************************************************************************)
\* The stored document and every handler's copies keep their shape; an entry
\* a handler assigns to exists in the copy it was found in.
TypeOK ==
  /\ job \in Doc
  /\ age \in 0..2
  /\ runs \in Nat
  /\ handlers \in [Slots -> Handler]
  /\ \A h \in Slots : handlers[h].entry \in {0} \cup DOMAIN handlers[h].doc.items

\* A copy of the current run is no newer than the stored document, and while
\* their versions agree it lists the same figures in the same order: __v tells
\* a handler whether the index it found still means the same figure.
CopiesMatchTheirQueue ==
  \A h \in Slots :
    LET base == handlers[h].base
    IN  handlers[h].kind \in SaveKinds /\ base.run = job.run =>
          /\ base.version <= job.version
          /\ base.version = job.version =>
               /\ Len(base.items) = Len(job.items)
               /\ \A i \in DOMAIN job.items : base.items[i].mfc = job.items[i].mfc

SameRun == job # NoJob /\ job'.run = job.run
SameQueue == SameRun /\ job'.version = job.version
Saves(h) == handlers[h].kind \in SaveKinds /\ handlers'[h] = Idle

\* While a queue stands, an entry's status changes only through a report that
\* found this very entry in this very queue: the save of item-complete names
\* the entry by index, and must not land in a queue that phase-change put in
\* its place, nor in the document of a later run.
ItemWritesHitTheirQueue ==
  [][ SameQueue => \A i \in DOMAIN job.items :
        job'.items[i] # job.items[i] =>
          \E h \in Slots :
            /\ Saves(h)
            /\ handlers[h].kind = "item"
            /\ handlers[h].entry = i
            /\ handlers[h].base.version = job.version
            /\ handlers[h].base.items[i].mfc = job.items[i].mfc
            /\ job'.items[i].mfc = job.items[i].mfc ]_vars

\* Two reports served at the same time do not undo each other: a finished
\* entry stays finished while its queue stands, unless the scraper itself
\* reports that entry as pending or processing again.
FinishedStaysFinished ==
  [][ SameQueue => \A i \in DOMAIN job.items :
        /\ job.items[i].status \in FinishedStatuses
        /\ job'.items[i].status \in OpenStatuses
        => \E h \in Slots :
             /\ Saves(h)
             /\ handlers[h].entry = i
             /\ handlers[h].doc.items[i].status \in OpenStatuses ]_vars

\* A completed, failed or cancelled job becomes active again only through a
\* phase-change webhook: a late item-complete whose copy still says
\* 'enriching' records its item and leaves the phase alone.
OnlyPhaseChangeReopens ==
  [][ SameRun /\ ~IsActive(job) /\ IsActive(job') =>
        \E h \in WebhookSlots :
          /\ Saves(h)
          /\ handlers[h].kind = "phase"
          /\ IsActive(handlers[h].doc) ]_vars

(***************************************************************************)
(* What holds when the scraper waits for the answer to one webhook before  *)
(* it sends the next (one webhook slot), the user and the cleanup still    *)
(* interleaving with it.                                                   *)
(***************************************************************************)
\* The stored counters are the counters of the stored queue: "Recalculate
\* job statistics based on current item statuses".
StatsMatchItems == job.stats = StatsOf(job.items)

\* A completed job has no pending or processing item.
CompletedMeansAllDone == job.phase = "completed" => AllDone(job.items)

\* The save that finishes the last open entry of a queue leaves the job
\* closed: completed, or cancelled or failed by someone else.
LastReportClosesJob ==
  [][ SameQueue /\ ~AllDone(job.items) /\ AllDone(job'.items)
        => ~IsActive(job') ]_vars

\* The session as its callers see it.
Session == INSTANCE SyncSession WITH
  Alone   <- \A g, h \in WebhookSlots : g = h,
  session <- [run |-> job.run, phase |-> job.phase, queue |-> job.items,
              expires |-> job.stamped],
  born    <- runs

\* However handlers interleave, their loads and saves come to one document on
\* which each acts at one moment: an entry changes as a report says, a queue
\* is replaced as a whole, nothing of an earlier document comes back, and only
\* a job that had nothing but lists ends without the completedAt that makes it
\* expire.  Only reports that overlap may be lost or miscount what is left.
SessionSpec == Session!SessionSpec

(***************************************************************************)
(* Liveness.                                                               *)
(***************************************************************************)
ScraperQuiet == \A h \in WebhookSlots : handlers[h] = Idle => handlers'[h] = Idle

\* "Prevents zombie jobs from accumulating": once the scraper calls no more,
\* an active job is closed or gone in the end, whatever the user does and
\* even if cleanups fail now and then.
ZombiesCleared ==
  (<>[][ScraperQuiet]_vars) => (IsActive(job) ~> ~IsActive(job))
=============================================================================
