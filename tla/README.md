# fc-backend in TLA+

This directory holds a verification development of fc-backend, the Express and
MongoDB server behind the figure collection: TLA+ modules of its parts, TLC
configurations that check them on small instances, and proofs that TLAPS checks
for every instance. Paths below are relative to the root of the repository,
which contains the directory `src/src`; line numbers are in `PROJECT.json`.

| module | what it is |
| --- | --- |
| `SyncJob` | a sync session: its stored document and the handlers that change it |
| `SyncSession` | the abstract promise: one document, changed by requests that each act at one moment |
| `MCSyncJob`, `SyncJob_*.cfg` | small instances of it |
| `SyncJob_proofs` | its theorems |
| `SyncStream` | SyncJob composed with the viewers of a session and what they are told |
| `MCSyncStream`, `SyncStream_*.cfg` | small instances of it |
| `SyncStream_proofs` | its theorems |
| `EntitlementGraph` | the clock and the authorization graph outside the repository |
| `EntitlementGate` | the abstract promise: what an answer about a subject may rest on |
| `EntitlementGrants` | the entitlement module: cache, shared Checks, failures, assertions |
| `MCEntitlementGrants`, `EntitlementGrants_*.cfg` | small instances of it |
| `EntitlementGrants_proofs` | its theorems, the implementation of the gate among them |
| `FigureStore` | a user's figures: requests, item reports, and the search index that follows |
| `MCFigureStore`, `FigureStore_*.cfg` | small instances of it |
| `FigureStore_proofs` | its theorems |
| `FigureQueries` | a client that reads statistics and pages while figures are written |
| `MCFigureQueries`, `FigureQueries.cfg` | a small instance of it |
| `FigureQueries_proofs` | its theorems |
| `MfcLists` | a user's lists: members, the stored count, edits and syncs |
| `ListShelf` | what it implements: each change at one moment |
| `MCMfcLists`, `MfcLists.cfg` | a small instance of it |
| `MfcLists_proofs` | its theorems |
| `AuthSessions` | accounts, refresh tokens and mailed links |
| `MCAuthSessions`, `AuthSessions.cfg` | a small instance of it |
| `AuthSessions_proofs` | its theorems |
| `TwoFactor` | the second factors of an account and the logins that use them |
| `MCTwoFactor`, `TwoFactor.cfg` | a small instance of it |
| `TwoFactor_proofs` | its theorems |

Definitions whose names begin with `Faulty` are not part of any specification.
Each is a definition of the module with a plausible mistake in it; with that
mistake in place of the correct definition TLC finds the property violated that
`PROJECT.json` names beside it.

## Inventory

The server is one Node process. A handler runs without interruption between
two awaits, so two requests interleave exactly at their awaits; what they share
is MongoDB and a few Maps in memory. The scraper is a service of its own that is
called through HTTP and calls back by signed webhooks.

| part | state | operations | what is hard | what makes it correct | status |
| --- | --- | --- | --- | --- | --- |
| Sync jobs (`routes/syncRoutes.ts`, `models/SyncJob.ts`) | one document per session: phase, queue, counters | create, item-complete, phase-change, cancel, active-job, cleanup | load and save of handlers interleave; Mongoose writes only what changed | reports reach the queue they are about; counters agree with items; the last report closes the job; abandoned jobs are closed | modelled, proved |
| Live stream (same file) | `sseConnections` | open, close, broadcast, end all | disconnects and cancellation while requests are under way | who is connected is told; nothing is written to an ended response | modelled, proved |
| Entitlement grants (`services/entitlements/grants.ts`) | `cache`, `inflight` | grantsForSubject | joined Checks, two lifetimes, failures, eviction | an answer rests on a recent word of the graph; a failure is forgotten quickly; nobody waits forever; the cache stays small | modelled, proved |
| Entitlement assertions (`assertion.ts`) | the key loaded at boot | mint | lifetime on top of the cache's | a revoked grant ends within a bound | the lifetime is modelled |
| Scraped data (`services/applyScrapedData.ts`) | figures, catalog, index | upsert | two reports of one figure, an index write nobody awaits | duplicates are bounded; the index follows | figures modelled, proved; catalog not |
| Figures (`controllers/figureController.ts`) | figures | create, update, delete, pages, filters | check and insert are two steps; an update writes back a copy; pages shift under the reader | an edit changes what it names; what is deleted stays so; pages add up | modelled, proved |
| Search index (`services/searchIndexService.ts`) | one entry per figure | upsert, delete | fire and forget, any order, may fail | entry matches figure once all is quiet | modelled, proved |
| Lists (`controllers/listController.ts`) | members, itemCount | create, update, add, remove, sync | find, then one or two writes | a count that is wrong has a reason; every change is made at one moment and none is undone | modelled, proved |
| Sessions (`controllers/authController.ts`) | refresh tokens | login, refresh, logout, logout-all, reset | rotation is find, delete, save | after logout-all only what was being stored survives | modelled, proved |
| One-time links (`controllers/emailVerificationController.ts`) | verification and reset links | ask, verify, resend, reset | read, compare, then mark as used | few links open at a time; verification lasts | modelled, proved |
| Two-factor (`controllers/twoFactorController.ts`) | secret, passkeys, backup codes, sessions, challenges | enrol, verify, disable, log in | copies saved over each other; sessions read and marked in two steps | a code logs in once; the flag is true to the factors | modelled, proved |
| Users and administration (`userController.ts`, `adminController.ts`) | the user document | edit | saves of stale copies | no stale save undoes a verification | the edit is modelled |
| Statistics (`statsController.ts`) | none | aggregate | one answer is many queries | the numbers match the pages when nothing is written | modelled with the pages, proved |
| Startup and shutdown (`index.ts`, `config/db.ts`) | connection, listener | retry, shutdown | the retry is not awaited | | not modelled |
| Search, lookups, reference data, system configuration | single documents | reads and single writes | little | | not modelled: no interaction between requests |
| Price comparison, scraper proxy, media manager client | none | forward a request | | | not modelled: stateless |
| Request checks | none | pure | | | the bodies that pass them are inputs of `FigureStore` |
| E-mail, templates, logging, parsing | none | pure | | | not modelled |

How the parts interact: the scraper's item-complete webhook changes the sync job,
stores the figure (`applyScrapedData`), which starts an index write that nobody
awaits, and broadcasts to the viewers. phase-change replaces the queue. The user
creates, cancels and recovers jobs; an interval closes stale ones. The compare
route asks the entitlement module for a signed header. Login, refresh and
password reset meet in the refresh tokens, and logins, resets and profile edits
in the saves of one user document. The browser reads what the figure routes
write, page by page. `PROJECT.json` lists, under
`hazards`, each thing in this code that is hard to test, at its line.

## Plan

1. `SyncJob`, `SyncSession`: done.
2. `EntitlementGraph`, `EntitlementGate`, `EntitlementGrants`: done.
3. `SyncStream`, which composes the viewers with `SyncJob`: done.
4. `FigureStore`: the figures of a user, the upsert of a scraped figure, manual
   create, update and delete, and the index writes in any order: done.
5. `MfcLists`: members and the stored count, and its abstraction `ListShelf`: done.
6. `AuthSessions`: refresh with rotation, logout everywhere, password reset and
   the mailed links: done.
7. `TwoFactor`: enrolment, removal and use of second factors: done.
8. `FigureQueries`: statistics and pages over figures that change: done.
9. Not begun: the catalog entries and reference data behind the scraped figures,
   the cleanup's loop over several sessions, and startup.

## SyncJob

One session is modelled. `sessionId` is unique, so sessions share no document
(the cleanup's loop over several jobs is the exception, see below).

`job` is the stored document: `run` stands for `_id`, `version` for Mongoose's
`__v`, `stamped` for a completedAt that is set; `NoJob` when there is none. `age`
is how far `updatedAt` lies behind, in the two thresholds of the code. `handlers`
holds, for each request slot, what its handler keeps between load and save: the
document as loaded (`base`), the document after its assignments (`doc`), the index
of the entry it assigns to, and whether there is anything to write.

| action | code |
| --- | --- |
| `LoadItemComplete` | item-complete up to the save: `updateItemStatus`, `recalculateStats` |
| `LoadPhaseChange`, `LoadListsOnlyCompletion` | phase-change, non-terminal and lists-only |
| `LoadCancel` | DELETE /job; telling the scraper reads and writes nothing here |
| `LoadActiveJob`, `CleanupStaleSessions` | failStaleJob, after 10 and after 15 minutes |
| `LoadCreateJob`, `DeleteFinishedJob`, `CreateJob` | POST /job, three steps |
| `SaveJob` | `save()`: filter by `_id`, and by `__v` if an entry or the array is written; sets only what differs from the load; raises `__v` when the array is replaced |
| `Abandon` | a database call fails, or the process dies: nothing is written |
| `Tick`, `ExpireCompleted` | time, and the TTL index on completedAt |

`Requeued`, `Matches`, `WrittenItems` and `Written` describe Mongoose, which is not
part of the repository; they are modelled from what the handlers rely on. Left
out: messages, names, timestamps other than their age, retryCount and error texts,
signatures, rate limits and the lists-sync webhook, which reads the job only.
Requests for an unknown session and an unchanged terminal phase change nothing
and have no action.

`SyncSession` says what a session is to its callers: its run, phase and queue,
whether it expires, and how many there have been. A request is one step. `SyncJob` implements it with
`session` read off the stored document (`Session`, `SessionSpec`): a load is a
stutter, a save is the request. `Alone` is whether at most one webhook is served
at a time. Then a report changes the first entry of its figure and, as the last
one, completes the session, unless that is over by a cancellation or the cleanup;
a phase change does not take back a close that came between. When webhooks
overlap less is promised: `Overlap` lets a report be lost (its save found another
queue), or complete the session or not whatever is left, and a phase change may
keep a phase that a report has set. That a report changes the entry of its figure
or nothing, that a queue is replaced as a whole, and that nothing of a deleted
document returns, is promised in both cases. So is the expiry: a document that a
report, a cancellation or the cleanup ends has a completedAt for the TTL index to
find, and keeps it; `EndWithoutQueue`, the lists-only completion, is the one end
that gives it none.

### Runs

`SyncJob_concurrent`: two webhooks, a user request and the cleanup, two documents
of the session, two figures, two queue replacements, two handlers at once. Two
handlers are what the hazards take: each is one handler loaded before and saved
after another. Two replacements let an index point into a shorter and into a
different queue; two documents let a late save meet its successor. It shows that

- `CopiesMatchTheirQueue`: an equal `__v` means an equal queue;
- `ItemWritesHitTheirQueue`: an entry is changed only by a report that found that
  entry in that queue, although it is written by position;
- `SessionSpec`: the handlers implement `SyncSession` (above), so two reports do not
  undo each other, no write mixes two queues, and every end but a lists-only one
  makes the document expire;
- `OnlyPhaseChangeReopens`: a closed job becomes active only by a phase change.

The webhook slots are interchangeable, hence the symmetry; no liveness property
is checked in this run.

`SyncJob_serial`: one webhook at a time, which is the case when the scraper waits
for an answer before it calls again; a user request and the cleanup interleave
with it, three handlers at once. It shows `StatsMatchItems`,
`CompletedMeansAllDone`, `SessionSpec`, now with every report counted and the last
one closing the job, and `ZombiesCleared`: once the
scraper calls no more, an active job is closed or gone in the end. The fairness
is that time passes, that the interval fires (weak), and that a save the interval
tries again and again succeeds at some point (strong): the code retries every five
minutes and its database is not assumed to refuse every time. Other saves and all
requests have no fairness. The antecedent `<>[][ScraperQuiet]_vars` is part of the
property, since a scraper that keeps calling may keep a job alive for good.

`SyncJob_lost_completion` finds that the code does not do what a comment says; the
finding quotes it: two item-complete webhooks for the last two figures each count
the other one as pending, and the job stays open with everything done, until the
cleanup marks it failed.

The model shows three more things that a reader of the comments would not expect;
no property speaks of them, since the code does not attempt more. A phase change
loaded before a cancellation and saved after it makes the job active again
(`OnlyPhaseChangeReopens` states that nothing else does). Of two POST /job after a
finished job the second deletes the new job of the first. The lists-only
completion sets no completedAt, so the document never expires (`SyncSession` states
that it is the only end of which this is so).

### Proofs

For every set of figures, queues, slots and bounds, from the assumptions of the
module alone: `TypeCorrect`, `CopiesMatch`, `ItemWritesHit`, `FinishedStays`,
`OnlyPhaseChange`. `CopiesMatchTheirQueue` is not inductive: it needs
to know that a copy's run was created before (so a new document is never mistaken
for an old one) and what shape each kind of handler gives its copies. `QueueInv`
adds `LastRunStored` and `CopiesShaped` (with `CopyShape`); the three action
properties follow from it, because within one run only a save that matches
changes the document (`OnlySavesWrite`).

`SerialStats`, `SerialLastReport` and `SerialCompleted` assume
`WebhookSlots = {w}`. `SerialInv` adds that the copy of the only webhook under way
is current (`CopyIsCurrent`: cancel and cleanup change the phase and nothing else)
and that its counters count its items. `SerialCompleted`, which states
`CompletedMeansAllDone`, also assumes that reports carry final statuses, as its
run does: the scraper may report a finished figure as open again, and the job then
stays completed.

`ImplementsSession` is the refinement, for any number of webhooks at once.
`CopiesExplained` is its own invariant: the copy of an item handler is the queue it
loaded with one report in it, at the first entry of the figure; the copy of a phase
handler is the queue it loaded or the announced one. A save that matches has the
version of the stored queue, which by `CopiesMatchTheirQueue` has the same figures
in the same places, so the first entry of the figure in the copy is the first in
the stored queue and the write is the report (`SavedReport`). With one webhook at a
time the loaded queue is the stored one (`CopyIsCurrent`), and then the completion
is the session's own. `SavedPhase` is the same for phase changes; every other step
is a close, a removal, a creation or a stutter (`SessionStep`). What becomes of
completedAt needs an invariant too: `StampInv` says which copies carry one, and
that the document has it if a copy of its run had it when loaded; so a save never
takes it back (`SavedStamp`), and a cancellation or cleanup, whose copy was
active, always writes its phase and the completedAt together.

`ZombiesCleared` is liveness, out of the prover's reach.

## SyncStream

The module extends `SyncJob`: each of its steps is a step of `SyncJob`, and of the
part that is new, or of one of them alone. `sseConnections` is the set of the
session (or `NoSet`), `streams` the state of each stream request, `news` what the
handler in each slot has saved and not told yet.

| action | code |
| --- | --- |
| `OpenStream`, `Register` | GET /stream up to its findOne, and after it |
| `ClientLeaves`, `Close` | the disconnect, and the 'close' listener that runs after it or after `end()` |
| `Save` | `SaveJob`, and the handler goes on to its broadcast; a save that found no document answers 500 and tells nobody |
| `Broadcast` | item-complete and phase-change: whether the scraped figure was stored or not |
| `BroadcastCancel` | DELETE /job: tells, ends every response, deletes the set, in one step |

`ClientLeaves` is outside the repository. That a listener attached after 'close'
was emitted never runs, and that `write` and `end` on a closed response change
nothing, is how Node's http module behaves. Left out: what an event says beyond
being final, and the heartbeat, which writes to one response and changes neither
the set nor the job. A restart of the process loses the set, the streams and the
handlers together; it leaves the document as `Abandon` in every slot does and has
no action of its own.

`SyncStream_viewers` has two viewers, the number at which one can leave or be
ended while another stays or arrives, one webhook at a time, one user request and
the cleanup, one document of one figure. It checks

- `OpenStreamsAreRegistered` and `NoDeadStreams`: arrivals, departures and a
  cancellation in any order leave exactly the living responses in the set;
- `FinalNewsIsTrue`: a completion is told only of a document that is closed, though
  it was saved before;
- `EndIsHeard`: a viewer connected at a saved end is told. Fairness: Node runs
  the continuation of a settled await and emits 'close' for a closed connection;
  the saves and requests themselves have none.

A viewer who subscribes while the last change is saved and told misses it, and
viewers of a job that the cleanup fails are told nothing; the code gives no
promise there, and the hazards say so.

A client that leaves during the findOne is registered afterwards and stays in the
set: its 'close' listener was attached too late, and the heartbeat, to which a
comment leaves the cleaning up, removes nothing.

Proved, for any number of viewers and slots: `StreamsTypeCorrect`,
`StreamsRegistered` and `OnlyLiveStreams`, each inductive with the shape of the
streams; `StreamImplementsJob`, that the composition is a behaviour of SyncJob, so
that its theorems carry over; and, for one webhook at a time,
`CompletionNewsTrue`. The last needs `NewsInv`: untold news of a completion
belongs to the webhook slot, names a run created before, and its document is
closed if it is still stored. `EndIsHeard` is liveness and stays with TLC.

## Entitlements

`EntitlementGraph` has the clock and the set of subjects that hold the grant, with
the last moment each subject held it and the last moment it did not, so that the
age of an answer can be spoken of. `EntitlementGate` is the promise: an answer
"yes" to a question put at time `at` rests on a moment later than `at - Staleness`
at which the graph said yes; an answer "no" on such a moment, or on a Check that
failed later than `at - FaultMemory`.

`EntitlementGrants` is the code. `cache` and `inflight` are its two Maps; `older` in
an entry keeps the insertion order of the Map. `requests` holds what each caller
waits for or was told; `at` is `nowMs`, which is read once and used after the await.

| action | code |
| --- | --- |
| `RejectSubject`, `AnswerFromCache`, `Coalesce`, `StartCheck` | grantsForSubject up to its await, by its early returns |
| `Decide` | OpenFGA evaluates the Check (external) |
| `ReceiveVerdict`, `FailCheck` | the response or its absence, `cacheSet`, the finally and the wake-up of all who joined |
| `Leave` | the request is answered |
| `Grant`, `Revoke`, `Tick` | the world |

`CacheSet` with `Kept` and `Newer` is the eviction. The subjects are well formed or
not; anything but an explicit yes (a refusal, an error status, another shape, a
timeout) is `FailCheck` or the verdict `refuse`. The process is taken to be
configured with an OpenFGA address and store; without them no Check is made and
every answer is no. The environment variables are the constants. `iat` and `exp`
are in whole seconds in the code; the model has one unit of time. Key loading and
encoding are left out: `SigningKey` says whether a key was loaded.

`EntitlementGrants_timing`: two callers (one starts a Check, the other joins it or
meets the cache), a well-formed and an ill-formed subject, a cache lifetime of 3, an
error lifetime and a timeout of 1, time up to 6, so that an entry of either kind
can expire and be renewed; the graph changes at any time. It checks

- `GateSpec`: the module implements the gate with `Staleness` the larger of the
  cache lifetime and one more than the timeout, `FaultMemory` the error lifetime;
- `RevokeTakesEffect`: a header still accepted belongs to a subject that held the
  grant less than that staleness and one assertion lifetime ago;
- `NobodyIsForgotten` and `EveryoneIsAnswered`. The fairness is that a Check ends
  with its response, with an error or by the client's timeout (axios's).

`EntitlementGrants_eviction`: three subjects and a cache of two, the least at which
something must go while something else stays; two callers, so that Checks end in
another order than they began. It checks `CacheBounded` and `OldestGoFirst`. The graph
stands still, since eviction does not look at verdicts. The subjects are
interchangeable and the callers are, and no temporal property needs more than
the step.

Proved for every number of subjects and callers and all durations, from the
assumptions that the lifetimes are positive and that `Never` lies before anything
an answer could rest on: `TypeCorrect`, `NobodyForgotten`, `RevocationEffective`,
`ImplementsGate`, `BoundedCache` and `OldestGoesFirst`. The inductive invariant `GroundInv` says, of
every place an answer may come from, what it rests on: `MarksCurrent` (the marks of
the graph are up to date), `ChecksGrounded` (a Check under way is younger than its
timeout and its verdict was the graph's word since it was put), `EntriesGrounded`
(an entry rests on a word, or on a failure, younger than its remaining life
allows), `WaitersJoined` (who waits asked no earlier than the Check was put) and
`YesGrounded` (an answer given keeps its ground). `BoundedCache` needs that the
Map's order is total (`Ordered`): then among the entries kept each has a different
number of newer ones, and at most `CacheMax - 1` have fewer than that many.
`OldestGoesFirst` needs the same order, and that a subject that is asked about has no
entry that was live when it was asked (`NothingLiveAsked`): the newest entry that is
dropped although it lives has `CacheMax - 1` newer ones, and all of these are kept.
`EveryoneIsAnswered` is only model-checked.

## FigureStore

One user's figures. Ids are taken one after the other; `figures` has the document
of each, or `Unborn`, or `Deleted`. `index` is SearchIndex, `writes` the index
writes of a figure that were started and have not come through, oldest first.
`requests` holds what a handler keeps between its steps: the body, and for an
update the copy it read before the scrape. `disordered` is a history variable: the
figures whose newest index write failed or was overtaken.

The fields of a figure are written in five ways, and one field stands for each
(the module's header names them). What matters is which of them a body names,
which a scrape may fill in, which are written back from the copy, also when the
copy has none (`mfcId` null, `mfcLink` '', empty lists), and which the index holds.
Fields that mix the ways (`imageUrl`, `jan`, `releases`, ratings, notes) are left out.

| action | code |
| --- | --- |
| `CreateFigure`, `InsertFigure` | POST /figures up to the check for a name, and after the scrape |
| `ReadFigure`, `UpdateFigure` | PUT /figures/:id up to the scrape, and `findByIdAndUpdate` after it |
| `FindFigureToDelete`, `DeleteFigure` | DELETE /figures/:id |
| `ReportKnownItem`, `ReportNewItem`, `InsertReported` | applyScrapedData's `findOneAndUpdate` with upsert, whose search and insert are two steps where no unique index stands behind them |
| `SettleWrite` | an index write reaches the database in any order, or fails and is logged |
| `Abandon` | the scrape throws, no name was found, the database fails, the process dies |

`Store` is the write of a figure together with the start of its index write.
What figureUpdate and figureCreate of the validation let through is `Body` and
`NewBody`.

`FigureStore_edits`: two requests of the user and one report at a time, two
figures, four requests in all: enough for an update that overlaps a report, a
delete and another update, with index writes of all of them under way. It checks

- `IndexFollows`: of every write the index hears, and the newest write under way
  says what the figure is; where it failed or was overtaken, the next write mends it;
- `DeletedStaysDeleted`: no update, report or index write revives a figure;
- `EditsOnlyWhatItNames`: an update sends all fields, yet a field that its body does
  not name changes only where another write changed that field meanwhile, and then
  back to what the request had read. An item or tags set meanwhile may be cleared
  that way; an origin is not, nor is a name written that nobody named;
- `IndexSettles`: when requests end, the index comes to agree for good. Fairness: a
  database call comes back or fails. Requests arrive without fairness.

`FigureStore_sync`: two requests and two reports of one item at a time, four ids.
`DuplicatesAreBounded`: there is no unique index, but a duplicate takes requests
that overlap, so there are never more than slots, whatever is deleted in between.
It speaks of users that do not rename or relink, since an edit checks nothing.

Proved, for all constants: `FiguresTypeCorrect`, `FiguresIndexed`,
`FiguresStayDeleted`, `EditsAreLocal`, `DuplicatesBounded`. `IndexFollows` is inductive with the shapes of
documents and writes: the last write appended is the text of the document stored
with it, and taking any other out of the sequence leaves the last one.
`DuplicatesAreBounded` is not: a report that has found no figure of its item still
has to insert one. `DuplicateInv` counts these too: the figures of an item and the
reports about to insert one are together no more than the slots. A report joins
them only when there is no figure, and then the reports alone are no more than the
slots; an insert moves one from the reports to the figures; and nothing else adds a
figure to an item, since an update saves a copy that has the figure's own item
(`ItemInv`). The proof takes the slots to be finite. `IndexSettles` is only
model-checked.

## FigureQueries

The reader's side. A client asks for the statistics and then, page after page, for
the figures of a status, with chosen values and credits: each request is several
queries, and `figures` is written in between. `walk` is where the client is and how
often it has seen each figure, `since` what matched when it began, `stats` what it
was told; `marks` records what the writes did to the figures that match.

| action | code |
| --- | --- |
| `ReadStatuses`, `ReadTotal`, `ReadGroups`, `ReadCredits` | the aggregations of getFigureStats in their order |
| `CountPage` | countDocuments and the refusal of a page beyond the last, in getFigures and filterFigures |
| `FindPage` | find with sort, skip and limit |
| `InsertFigure`, `UpdateFigure`, `DeleteFigure` | the writes of `FigureStore`, of which only the fields that are queried matter |

`value` stands for scale, origin, category and classification, `credits` for
distributors, sculptors and illustrators. Left out: the filters of manufacturer,
which look at two fields, and of tags, and the case of letters. Equal keys come in
any order, another with every query, which is what MongoDB promises of a sort
without a tie-breaker. Two differences between the routes do not matter here: an
unknown status is refused by getFigures and ignored by filterFigures, and a comment
speaks of commas where only '|' separates values.

`FigureQueries`: three figures, pages of two, five documents (each status, a missing
status, a missing and an empty value, a name that a role has twice) and five
queries, two writes. Figures are interchangeable. `WalksAreExplained`: a quiet walk
sees each matching figure once, and as many as the statistics said; a figure that
was there all the time is missed only because another left or moved, or came
between the count and the find of the last page; one is seen twice only because
another came or moved; and all of this only while no two keys are equal.

Proved, for every finite collection, every query and every page size: `WalkTyped`
and `WalksExplained`. The invariant, `WalkInv`, speaks of the place of a figure: how
many of what matches come before it by key. Without ties the sort puts each figure
where its place says (`SortedPlaces`: an injection between finite sets of the same
size is a bijection), so a page shows the places it stands for (`ShownByPlace`).
While nothing leaves or moves, places only rise: a figure not seen yet lies on a
page to come (`NotMissed`). While nothing comes or moves they only fall: a figure
seen lies on a page passed (`NotTwice`). The client stops where the count told it
to, and the count covers all that matches unless something came after it
(`Counted`). And without writes each statistic that was read is what it would be if
read now (`Quiet`); that a role which `$unwind` repeats never makes the count
smaller than the figures is `UnwoundCount`.

## MfcLists

`lists` has the document of each list id, with an `id` of its own (a list that is
deleted and synced again is another document) and Mongoose's version; `requests`
what a handler found. `overtaken` and `inexact` are history variables that name the
reasons for a wrong count.

| action | code |
| --- | --- |
| `CreateList` | POST /lists; (userId, mfcId) is unique |
| `Find` | the find every other handler begins with |
| `MoveItems`, `SaveCount` | POST and DELETE items: `$addToSet` or `$pullAll`, then `save()` of the count |
| `SavePut` | PUT: `Object.assign` and `save()`, versioned when members change |
| `DeleteList` | DELETE |
| `StartSync`, `SyncNext`, `EndSync` | POST /lists/sync and the lists-sync webhook, list by list |
| `Abandon` | the document or its version is gone, or the database fails |

`save()` sends what differs from the copy and never inserts. PUT is not validated,
so a body may name members and a count: `SavePut` models what happens then.

`ListShelf` is what the handlers promise of everything but the count: a request is
a question (`Create` is answered at once, `Ask` and `AskSync` are not) and an answer
that happens at one moment. `Act` applies it to what the list is by then, and only
if that is still the list that was found; of two updates that replace the members
they both found the second is `Refused`; `GiveUp` leaves it undone. `ShelfSpec` maps
the stored documents without their counts to `shelf` and, to `asked`, every request
but those whose only remaining write is the count. So no save of a stale copy puts
an old name or old members back, and nothing is written to what took the place of a
deleted list. `SavePut` needs what Mongoose does for this: a field that the body
repeats as it was found is not sent at all.

`MfcLists`: two lists, two items, two names, two requests at a time and five in all;
the slots are symmetric. Two at a time are what every hazard takes: one changes the
members between the two writes of the other. Four are what the longest takes: a
list is created, found, deleted and created again under the first finder; the fifth
is slack. It checks `CountIsExplained` (a count differs from the members only for
one of four reasons, and while no request is between its two writes) and
`ShelfSpec`.

Both are proved, and `ListTypeOK`. `ListInv` adds to `CountIsExplained` what holds
while counts are about to be saved (`CountInv`): a request that is not overtaken
holds the members that are stored, and where nobody made the count wrong either the
count is exact or somebody is about to save it. `ImplementsShelf` needs one more
invariant, that the copy of a request is a copy of the document whose id it keeps
(`CopiesKeepIds`); then `MoveItems`, `SavePut` and `DeleteList` are each an `Act`,
`SyncNext` a `SyncOne`, and `SaveCount` a stutter. Two consequences are stated on
`MfcLists` itself, where they read without a mapping, and proved but not run:
`MembersLeaveOnlyIfTold` (`ListsLoseNoMember`) and `ListsDoNotComeBack`
(`ListsStayDeleted`).

## AuthSessions

`accounts` holds of each user a number for the password, whether the address is
verified (or the field is missing, in accounts older than it) and whether a login
has granted grace; `tokens` the refresh tokens; `links` the mailed verification and
reset links. A token carries what the properties speak of: the login it comes from,
the password that login gave, how often all tokens of the user had been deleted by
then (`birth`), whether a deletion came too early to see it (`late`), and whether two
refreshes made two of one (`forked`).

| action | code |
| --- | --- |
| `Register`, `Login`, `Greet`, `GreetingLink`, `StoreToken` | register and login, step by step |
| `Refresh`, `Rotate`, `StoreToken` | refresh with rotation: find, delete, save |
| `Logout`, `LogoutAll` | logout; logout-all |
| `Ask`, `DropLinks`, `MailLink` | resendVerification and forgotPassword |
| `UseLink`, `MarkLink`, `Verify` | verifyEmail |
| `UseLink`, `MarkLink`, `ReadAccount`, `SaveAccount`, `EndSessions` | resetPassword |
| `EditAccount`, `SaveAccount` | the saves of userController and adminController |
| `ExpireLink`, `Abandon` | the TTL index; a failure |

A login that waits for a second factor is served in one piece here; `TwoFactor` has
its steps. Without ROTATE_REFRESH_TOKENS a refresh writes nothing. A user is read
and saved by several controllers: `Saved` is what such a save does to the fields it
was not about, which is nothing, but for a default.

`AuthSessions`: one user, two requests at a time, five requests: a login, a refresh,
a reset of three steps and a logout everywhere can overlap in every order. Users
share no documents. It checks `OldSessionsEnd` (which sessions survive: those about
to be stored, and what refreshes make of them), `LinksAreBounded` (asking for links
never leaves more than one per slot open, and no link is accepted more often than
that) and `VerifiedStays`. The two exceptions that `OldSessionsEnd` names are real:
a refresh that deleted its old token before a reset stores the new one after it, and
two refreshes that found one token both store a successor.

Proved: `AuthTypeCorrect`, `SessionsEnd`, `VerificationStays`, `LinksBounded`. `SessionInv` strengthens
`OldSessionsEnd`: what holds of stored tokens holds of those about to be stored
(`SoundInv`), a completed reset set a password no newer than the account's, and two
tokens of one login, stored or about to be, are forked unless one is about to
replace the other (`ForkInv`). `LinksBounded` is proved for every
finite set of slots from `LinkInv`: ids are unique, also those of links that
are still to be stored (`KeyInv`); the unused links of a user and the requests that
mail one next are no more than the slots, since each of these has deleted the unused
ones a step before (`RoomInv`); logins that greet an old account have not, but none
begins after the first is done, and they add as many again (`GraceInv`); and the
times a link was accepted and the requests about to mark it are no more than the
slots, since these found it unused (`MarkInv`).

## TwoFactor

`account` is what the user document says of second factors; `sessions` and
`challenges` are what login hands out; `requests` what a handler keeps between load
and save; `accepted` is a history variable: every login and registration that was
accepted.

| action | code |
| --- | --- |
| `ReadAccount` | a handler loads the user |
| `SaveSetup`, `SaveVerified`, `SaveCodes`, `SaveDisabled` | setupTOTP, verifyTOTPSetup, regenerateBackupCodes, disableTOTP |
| `SaveProfile` | a save of another controller |
| `AskSecondFactor`, `OpenSession` | login of an account whose flag is on |
| `FindSession`, `MarkSession`, `CheckTOTP`, `CheckBackup`, `SpendCode`, `Accept` | verify2FA |
| `NewChallenge`, `FindChallenge` | both options routes; the challenge a client sends is found |
| `ReadToRegister`, `SavePasskey`, `DropChallenge` | webauthnRegisterVerify |
| `CheckPasskey`, `SaveCount`, `DropChallenge`, `Accept` | webauthnLoginVerify |
| `FindPasskey`, `DeletePasskey` | deleteWebAuthnCredential |
| `Expire`, `Abandon` | the TTL indexes; a version that has moved on, a wrong code, a failure |

What a save sends is Mongoose's, and the module depends on it: an array that was
assigned or spliced is written whole, to the version that was read, and raises it; a
push raises it only; a field of an element checks it only; anything else is written
whatever the version. A save also sends the default of a field that its copy did not
have (`totp.verified`, after disabling). Accounts older than these fields are left
out. Neither the type nor the user of a challenge is compared; `FindChallenge`
leaves both open.

`account.passkeys` is the list of passkeys in the order they were pushed. A passkey
is numbered after the challenge it answers, so that a registration that is sent twice
brings the same credential twice; nothing looks for it (`SavePasskey`), and both are
stored. Handlers find the first of an id (`IsFound`) and set or splice by its place.
Of the public key the module keeps whether it is stored: deleteWebAuthnCredential
writes back a list that was loaded without the keys, which are not selected by
default, so that deleting one passkey leaves the others listed and unable to log in
(`Remaining`). `user.totp` is a nested path and never falsy, so that the branch
that clears the flag with the last passkey is never taken; `DeletePasskey` has no
such branch.

`TwoFactor`: two requests at a time, sets of two codes, sign counts up to two, six
requests: each hazard is one save over a copy that another has made old, and six
are an enrolment, two logins that present one code, and a change beside them. It checks

- `LoginsAreSpent`: a backup code logs in once, and a session or challenge logs in
  or registers twice only by requests that were served side by side;
- `FactorsAreExplained`: a factor is a confirmed secret or a passkey with its key. The
  flag goes off beside a factor, a confirmation is taken back or a sign count goes
  down only by the save of a copy that is no longer the account. The flag stays on
  without a factor, and backup codes are all the owner has, only after such a save or
  one of three that `Unbacks` names: a new setup, which replaces a confirmed secret;
  the deletion of any passkey; and disabling TOTP beside passkeys that lost their
  keys. The last takes seven requests and is not met by this run; it rests on the
  proof.

Proved, for any number of slots, codes and requests: `TwoFactorTypeCorrect`,
`LoginsSpent`, `FactorsExplained`. Three strengthenings carry them. `FreshInv`: the
secret, codes or session that a request under way will make have a number that
nothing in the account, in a copy, in a session, a challenge or an accepted login
bears. `CopyInv`: a copy's version is not ahead of the account's, a copy of the
account's own version knows whether the secret is confirmed, and a sign count about
to be saved is not below its copy's. `SpentInv` and `SlotInv`: a code that was accepted, or is about to
be, is neither stored nor in a copy that could still be saved; a session or challenge
that was accepted is used up or deleted, and its slot has turned to another.

## What is not shown

Liveness (`ZombiesCleared`, `EveryoneIsAnswered`, `EndIsHeard`, `IndexSettles`) is
checked by TLC on the instances above and not proved: the prover has no rule for
fairness. Every invariant and every action property of a run is a theorem. What the external parts do (Mongoose, MongoDB, OpenFGA, Node's
http, the WebAuthn library) is modelled from how the code uses them.

Not modelled: the catalog entries and reference data behind scraped figures, which
are single upserts under unique keys; the cleanup's loop over several stale jobs,
which ends at the first failed save; startup and shutdown, which run once; search,
lookups, the scraper proxy and the price comparison, which keep no state; signing
keys, templates, logging and parsing, which decide none.
