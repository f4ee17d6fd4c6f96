----------------------------- MODULE FigureStore ------------------------------
(***************************************************************************)
(* One user's figures and the search index that is derived from them:      *)
(* createFigure, updateFigure and deleteFigure of figureController.ts, the *)
(* upsert of a scraped item (applyScrapedData.ts), and the index writes    *)
(* that each of them starts and does not wait for (searchIndexService.ts). *)
(*                                                                         *)
(* A request reads, perhaps waits for a scrape, and then writes.  Other    *)
(* requests and reports run in between.                                    *)
(*                                                                         *)
(* The fields of a figure are written in five ways, and one field stands   *)
(* for each:                                                               *)
(*   item    mfcId, mfcLink: named, or written back from the copy, also    *)
(*           when that has none: null and '' are sent                      *)
(*   name    name, manufacturer, scale: named or scraped, else left alone; *)
(*           '' clears it                                                  *)
(*   origin  origin, version, category, mfcTitle, ...: named, or written   *)
(*           back; '' leaves it alone, and so does a copy without it, for  *)
(*           a key that is undefined is not sent                           *)
(*   tags    tags, companyRoles, artistRoles: named, or written back, also *)
(*           when the copy has none; an empty list that is named is not    *)
(*           sent.  None is the empty list                                 *)
(*   status  collectionStatus, quantity, type: named, or written back;     *)
(*           never missing, and not held by the index                      *)
(* Fields that mix these are left out (imageUrl, jan, note, ratings, ...). *)
(***************************************************************************)
EXTENDS Naturals, Sequences, FiniteSets

CONSTANTS
  Figures,       (* The ids that figures get.                              *)
  Items,         (* Catalog items.                                         *)
  Names,
  Origins,
  Tags,          (* Lists of tags that are not empty.                       *)
  Statuses,
  Owned,         (* The status of a figure that is given none.             *)
  None,          (* A field, or an index entry, that is not there; ''.     *)
  Unnamed,       (* A field that a body does not name.                     *)
  Unborn,        (* An id no figure has had yet.                           *)
  Deleted,       (* The id of a figure that was deleted.                   *)
  NewBodies,     (* The bodies that POST /figures is sent,                 *)
  EditBodies,    (* PUT /figures/:id,                                      *)
  Reports,       (* and what the scraper finds of an item.                 *)
  UserSlots,     (* Requests of the user served at the same time.          *)
  WebhookSlots,  (* Item reports served at the same time.                  *)
  MaxRequests    (* Bound: requests and reports.                           *)

Field == {"item", "name", "origin", "tags", "status"}

Doc == [item : Items \cup {None}, name : Names \cup {None},
        origin : Origins \cup {None}, tags : Tags \cup {None}, status : Statuses]

\* What figureUpdate of validationMiddleware.ts lets through.
Body == [item : Items \cup {Unnamed}, name : Names \cup {None, Unnamed},
         origin : Origins \cup {None, Unnamed}, tags : Tags \cup {None, Unnamed},
         status : Statuses \cup {Unnamed}]

Given(value) == value \notin {None, Unnamed}

ASSUME ValueAssumption ==
  /\ Owned \in Statuses
  /\ None # Unnamed
  /\ {None, Unnamed} \cap (Items \cup Names \cup Origins \cup Tags \cup Statuses) = {}
  /\ Unborn # Deleted
  /\ {Unborn, Deleted} \cap Doc = {}

\* A figure without a link must be named.
NewBody == {body \in Body : Given(body.name) \/ Given(body.item)}

\* A report names item and status, and clears nothing but the tags.
ASSUME BodyAssumption ==
  /\ NewBodies \subseteq NewBody
  /\ EditBodies \subseteq Body
  /\ Reports \subseteq {body \in Body : /\ Given(body.item) /\ Given(body.status)
                                       /\ body.name # None /\ body.origin # None}

ASSUME SlotAssumption ==
  /\ UserSlots \cap WebhookSlots = {}
  /\ IsFiniteSet(UserSlots) /\ IsFiniteSet(WebhookSlots)
  /\ MaxRequests \in Nat

VARIABLES
  figures,     (* The document of each id.                                 *)
  index,       (* What SearchIndex says of each figure.                    *)
  writes,      (* The index writes of each figure that are under way.      *)
  disordered,  (* The figures whose newest index write was overtaken by an *)
               (* older one, or failed.                                    *)
  requests,    (* What each slot serves.                                   *)
  served       (* Requests and reports so far.                             *)

vars == <<figures, index, writes, disordered, requests, served>>

Slots == UserSlots \cup WebhookSlots

Live == {f \in Figures : figures[f] \notin {Unborn, Deleted}}

Idle == [op |-> "idle"]

\* What composeSearchText and buildSetPayload take from a figure.
Text(doc) == IF doc \in {Unborn, Deleted}
               THEN None
               ELSE [item |-> doc.item, name |-> doc.name, origin |-> doc.origin,
                     tags |-> doc.tags]

\* Faulty: the index is not told.
FaultyStore(f, doc) ==
  /\ figures' = [figures EXCEPT ![f] = doc]
  /\ disordered' = disordered \ {f}
  /\ UNCHANGED <<writes, index>>

\* A figure is written; its index write is started and not awaited.
Store(f, doc) ==
  /\ figures' = [figures EXCEPT ![f] = doc]
  /\ writes' = [writes EXCEPT ![f] = Append(@, Text(doc))]
  /\ disordered' = disordered \ {f}
  /\ UNCHANGED index

Begin(r, request) ==
  /\ requests[r] = Idle
  /\ served < MaxRequests
  /\ served' = served + 1
  /\ requests' = [requests EXCEPT ![r] = request]

End(r) == requests' = [requests EXCEPT ![r] = Idle]

Untouched == UNCHANGED <<figures, index, writes, disordered>>

-----------------------------------------------------------------------------
(***************************************************************************)
(* The user's requests.                                                    *)
(***************************************************************************)
\* The scraper and the fallback find a name, or none.  They may also throw.
ScrapedNames == Names \cup {None}

\* What the name is once a link was scraped: only a missing one is looked for.
NameAfterScrape(body) ==
  IF Given(body.item) /\ ~Given(body.name)
    THEN (ScrapedNames \ {None}) \cup {body.name}
    ELSE {body.name}

\* Faulty: no check.
FaultyCreateFigure(r, body) ==
  /\ Begin(r, [op |-> "create", body |-> body])
  /\ Untouched

\* A name that another figure has is refused; a link alone is not checked.
CreateFigure(r, body) ==
  /\ Given(body.name) => \A f \in Live : figures[f].name # body.name
  /\ Begin(r, [op |-> "create", body |-> body])
  /\ Untouched

OrNone(value) == IF Given(value) THEN value ELSE None

\* Faulty: a status that is not named has no default.
FaultyNewDoc(body, name) ==
  [item |-> OrNone(body.item), name |-> name, origin |-> OrNone(body.origin),
   tags |-> OrNone(body.tags), status |-> body.status]

NewDoc(body, name) ==
  [item |-> OrNone(body.item), name |-> name, origin |-> OrNone(body.origin),
   tags |-> OrNone(body.tags), status |-> IF body.status = Unnamed THEN Owned ELSE body.status]

\* Without a name, or with a status that is not valid, nothing is inserted: Abandon.
InsertFigure(r) ==
  /\ requests[r].op = "create"
  /\ LET body == requests[r].body IN
       \E name \in NameAfterScrape(body), f \in Figures :
         /\ Given(name) /\ figures[f] = Unborn
         /\ Store(f, NewDoc(body, name))
  /\ End(r)
  /\ UNCHANGED served

\* The figure is found, and the copy kept while the link is scraped.
ReadFigure(r, f, body) ==
  /\ f \in Live
  /\ Begin(r, [op |-> "update", figure |-> f, copy |-> figures[f], body |-> body])
  /\ Untouched

\* A key whose value is undefined is not part of the update.
Sent(value, now) == IF value = None THEN now ELSE value

\* Faulty: quantity is one unless it is named.
FaultyEdited(now, copy, body, name) ==
  [item |-> IF Given(body.item) THEN body.item ELSE copy.item,
   name |-> IF name = Unnamed THEN now.name ELSE name,
   origin |-> Sent(IF body.origin = Unnamed THEN copy.origin ELSE body.origin, now.origin),
   tags |-> IF body.tags = Unnamed THEN copy.tags ELSE Sent(body.tags, now.tags),
   status |-> IF body.status = Unnamed THEN Owned ELSE body.status]

\* The document after the update, from the one that is there by then.
Edited(now, copy, body, name) ==
  [item |-> IF Given(body.item) THEN body.item ELSE copy.item,
   name |-> IF name = Unnamed THEN now.name ELSE name,
   origin |-> Sent(IF body.origin = Unnamed THEN copy.origin ELSE body.origin, now.origin),
   tags |-> IF body.tags = Unnamed THEN copy.tags ELSE Sent(body.tags, now.tags),
   status |-> IF body.status = Unnamed THEN copy.status ELSE body.status]

\* Faulty: findByIdAndUpdate inserts what it does not find.
FaultyUpdateFigure(r) ==
  /\ requests[r].op = "update"
  /\ LET request == requests[r] f == request.figure IN
       \E name \in NameAfterScrape(request.body) :
         Store(f, Edited(IF f \in Live THEN figures[f] ELSE request.copy,
                         request.copy, request.body, name))
  /\ End(r)
  /\ UNCHANGED served

\* findByIdAndUpdate: a figure deleted since stays deleted, and the answer is 200.
UpdateFigure(r) ==
  /\ requests[r].op = "update"
  /\ LET request == requests[r] f == request.figure IN
       IF f \in Live
         THEN \E name \in NameAfterScrape(request.body) :
                Store(f, Edited(figures[f], request.copy, request.body, name))
         ELSE Untouched
  /\ End(r)
  /\ UNCHANGED served

FindFigureToDelete(r, f) ==
  /\ f \in Live
  /\ Begin(r, [op |-> "delete", figure |-> f])
  /\ Untouched

\* The index entry is deleted even if the figure was already gone.
DeleteFigure(r) ==
  /\ requests[r].op = "delete"
  /\ Store(requests[r].figure, Deleted)
  /\ End(r)
  /\ UNCHANGED served

\* 422 after a scrape without a name, a scrape that throws, a database error, a crash.
Abandon(r) ==
  /\ requests[r] # Idle
  /\ End(r)
  /\ Untouched /\ UNCHANGED served

-----------------------------------------------------------------------------
(***************************************************************************)
(* An item report: findOneAndUpdate with upsert.  Nothing makes            *)
(* (userId, mfcId) unique, so the search and the insert are two steps.     *)
(***************************************************************************)
Merged(now, report) ==
  [item |-> report.item,
   name |-> IF Given(report.name) THEN report.name ELSE now.name,
   origin |-> IF Given(report.origin) THEN report.origin ELSE now.origin,
   tags |-> IF report.tags = Unnamed THEN now.tags ELSE report.tags,
   status |-> report.status]

NoDoc == [item |-> None, name |-> None, origin |-> None, tags |-> None, status |-> Owned]

ReportKnownItem(r, report) ==
  /\ \E f \in Live : /\ figures[f].item = report.item
                     /\ Store(f, Merged(figures[f], report))
  /\ Begin(r, Idle)

ReportNewItem(r, report) ==
  /\ \A f \in Live : figures[f].item # report.item
  /\ Begin(r, [op |-> "upsert", body |-> report])
  /\ Untouched

\* The validators of the schema do not run: the figure may have no name.
InsertReported(r) ==
  /\ requests[r].op = "upsert"
  /\ \E f \in Figures : /\ figures[f] = Unborn
                        /\ Store(f, Merged(NoDoc, requests[r].body))
  /\ End(r)
  /\ UNCHANGED served

-----------------------------------------------------------------------------
(***************************************************************************)
(* The index writes.  Those of a figure run on connections of their own,   *)
(* in any order.                                                           *)
(***************************************************************************)
Without(seq, i) == SubSeq(seq, 1, i - 1) \o SubSeq(seq, i + 1, Len(seq))

ApplyWrite(f, i) ==
  /\ index' = [index EXCEPT ![f] = writes[f][i]]
  /\ writes' = [writes EXCEPT ![f] = Without(@, i)]
  /\ disordered' = IF 1 < i /\ i = Len(writes[f]) THEN disordered \cup {f} ELSE disordered
  /\ UNCHANGED <<figures, requests, served>>

\* Logged and never tried again.
FailWrite(f, i) ==
  /\ writes' = [writes EXCEPT ![f] = Without(@, i)]
  /\ disordered' = IF i = Len(writes[f]) THEN disordered \cup {f} ELSE disordered
  /\ UNCHANGED <<figures, index, requests, served>>

\* Faulty: whatever comes through first is taken for all of them.
FaultySettleWrite(f) ==
  \E i \in 1 .. Len(writes[f]) :
    /\ index' = [index EXCEPT ![f] = writes[f][i]]
    /\ writes' = [writes EXCEPT ![f] = <<>>]
    /\ UNCHANGED <<figures, requests, served, disordered>>

SettleWrite(f) == \E i \in 1 .. Len(writes[f]) : ApplyWrite(f, i) \/ FailWrite(f, i)

-----------------------------------------------------------------------------
Init ==
  /\ figures = [f \in Figures |-> Unborn]
  /\ index = [f \in Figures |-> None]
  /\ writes = [f \in Figures |-> <<>>]
  /\ disordered = {}
  /\ requests = [r \in Slots |-> Idle]
  /\ served = 0

Finish(r) == InsertFigure(r) \/ UpdateFigure(r) \/ DeleteFigure(r) \/ InsertReported(r)

UserRequest(r) ==
  \/ \E body \in NewBodies : CreateFigure(r, body)
  \/ \E f \in Figures, body \in EditBodies : ReadFigure(r, f, body)
  \/ \E f \in Figures : FindFigureToDelete(r, f)

Next ==
  \/ \E r \in UserSlots : UserRequest(r)
  \/ \E r \in WebhookSlots, report \in Reports :
       ReportKnownItem(r, report) \/ ReportNewItem(r, report)
  \/ \E r \in Slots : Finish(r) \/ Abandon(r)
  \/ \E f \in Figures : SettleWrite(f)

Spec == Init /\ [][Next]_vars

\* A database call comes back, or fails.
FairSpec ==
  /\ Spec
  /\ \A r \in Slots : WF_vars(Finish(r) \/ Abandon(r))
  /\ \A f \in Figures : WF_vars(SettleWrite(f))

-----------------------------------------------------------------------------
Request ==
  {Idle}
    \cup [op : {"create"}, body : NewBodies]
    \cup [op : {"update"}, figure : Figures, copy : Doc, body : EditBodies]
    \cup [op : {"delete"}, figure : Figures]
    \cup [op : {"upsert"}, body : Reports]

Entry == [item : Items \cup {None}, name : Names \cup {None},
          origin : Origins \cup {None}, tags : Tags \cup {None}] \cup {None}

\* Figures, index, writes and requests keep their shape.
FigureTypeOK ==
  /\ figures \in [Figures -> Doc \cup {Unborn, Deleted}]
  /\ index \in [Figures -> Entry]
  /\ writes \in [Figures -> Seq(Entry)]
  /\ disordered \subseteq Figures
  /\ requests \in [Slots -> Request]
  /\ served \in 0 .. MaxRequests

\* What the index will say of a figure once its writes are through in order.
Newest(f) == IF writes[f] = <<>> THEN index[f] ELSE writes[f][Len(writes[f])]

\* Every write of a figure is followed to the index, which ends up with what
\* the figure is, and without an entry if it is deleted, whatever requests,
\* reports and older index writes overlap; the exceptions are a newest write
\* that fails and one that an older write comes after, and the next write of
\* the figure mends both.
IndexFollows == \A f \in Figures \ disordered : Newest(f) = Text(figures[f])

\* An update, a report or an insert under way when a figure is deleted does not
\* bring it back: no write but the insert of a new id creates a document.
DeletedStaysDeleted ==
  [][ \A f \in Figures : figures[f] = Deleted => figures'[f] = Deleted ]_vars

\* The end of an update whose figure is still there.
Edits(r) ==
  requests[r].op = "update" /\ requests'[r] = Idle /\ requests[r].figure \in Live

ChangesOnlyNamed(request, f) ==
  /\ \A g \in Figures \ {f} : figures'[g] = figures[g]
  /\ \A field \in Field \ {"name"} :
       ~Given(request.body[field]) =>
         figures'[f][field] \in {figures[f][field], request.copy[field]}
  /\ request.body.name = Unnamed /\ request.body.item = Unnamed
       => figures'[f].name = figures[f].name
  /\ figures[f].origin # None => figures'[f].origin # None

\* updateFigure sends all fields.  Even so a field that its body does not name,
\* or names as empty, changes only where another write changed that field while
\* the request ran, and then back to what the request had read: an item or a
\* list of tags set meanwhile may be lost that way, an origin is never cleared,
\* and a name is written only when the body names it or a link to scrape it from.
EditsOnlyWhatItNames ==
  [][ \A r \in UserSlots :
        Edits(r) => ChangesOnlyNamed(requests[r], requests[r].figure) ]_vars

\* The user names no item and renames nothing.
NamesAreCreatedOnly ==
  /\ \A body \in NewBodies \cup EditBodies : body.item = Unnamed
  /\ \A body \in EditBodies : body.name = Unnamed

\* There are no unique indexes behind the two checks for a duplicate.  An item
\* reported to the webhook has no more figures than there are reports served at
\* a time, and a name the user gives no more than there are requests, however
\* many come one after the other and whatever is deleted in between.
DuplicatesAreBounded ==
  NamesAreCreatedOnly =>
    /\ \A item \in Items :
         Cardinality({f \in Live : figures[f].item = item}) <= Cardinality(WebhookSlots)
    /\ \A name \in Names :
         (\A report \in Reports : report.name # name) =>
            Cardinality({f \in Live : figures[f].name = name}) <= Cardinality(UserSlots)

\* When no more requests come, the index comes to say what the figures are
\* and stays so, but for those whose newest write failed or was overtaken.
IndexSettles ==
  <>[](\A f \in Figures \ disordered : index[f] = Text(figures[f]))
=============================================================================
