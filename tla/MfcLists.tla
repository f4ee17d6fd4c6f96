------------------------------- MODULE MfcLists -------------------------------
(***************************************************************************)
(* One user's lists of catalog items: the handlers of listController.ts    *)
(* and the lists-sync webhook of syncRoutes.ts over MfcList documents.     *)
(*                                                                         *)
(* Every handler that changes a list first finds it and then writes in one *)
(* or two more steps, and the number of members is stored besides the      *)
(* members.  Other requests run between the steps.                         *)
(*                                                                         *)
(* Of Mongoose: save() sends what differs from the copy that was read and  *)
(* never inserts; when that includes an array it asks for the version that *)
(* was read and increments it.  findOneAndUpdate and findByIdAndUpdate do  *)
(* not look at the version.  name stands for all plain fields.  An array   *)
(* is the set of its members: counts are lengths.                          *)
(***************************************************************************)
EXTENDS Naturals, Sequences, FiniteSets

CONSTANTS
  Lists,         (* The ids that lists have on MFC.                        *)
  Items,
  Names,
  NoList,        (* There is no document of this list.                     *)
  Unnamed,       (* A field that a body does not name.                     *)
  NewLists,      (* Bodies of POST /lists,                                 *)
  Puts,          (* of PUT /lists/:id,                                     *)
  Syncs,         (* of POST /lists/sync and of the webhook.                *)
  Slots,         (* Requests served at the same time.                      *)
  MaxRequests    (* Bound: requests.                                       *)

Doc == [id : Nat, version : Nat, name : Names, items : SUBSET Items, count : Nat]

Change == [name : Names \cup {Unnamed}, items : {Unnamed} \cup SUBSET Items,
           count : Nat \cup {Unnamed}]

Entries == [list : Lists, name : Names, items : {Unnamed} \cup SUBSET Items, count : Nat]

ASSUME ListAssumption ==
  /\ NoList \notin Doc
  /\ Unnamed \notin Names \cup Nat /\ \A items \in SUBSET Items : Unnamed # items
  /\ IsFiniteSet(Items)
  /\ MaxRequests \in Nat

\* A PUT is not validated: it may name members and count, as a client does
\* that sends back what it got.  A sync entry has a name, and a count of its own.
ASSUME BodyAssumption ==
  /\ NewLists \subseteq {body \in Change : body.name # Unnamed /\ body.count = Unnamed}
  /\ Puts \subseteq Change
  /\ Syncs \subseteq Seq(Entries)

VARIABLES
  lists,      (* The document of each list.                                *)
  requests,   (* What each slot serves.                                    *)
  overtaken,  (* Slots about to save a count of members that others have   *)
              (* changed since.                                            *)
  inexact,    (* Lists whose count somebody got wrong or made up.          *)
  ids,        (* Documents made so far.                                    *)
  served      (* Requests so far.                                          *)

vars == <<lists, requests, overtaken, inexact, ids, served>>

Idle == [op |-> "idle"]

\* The document a request has found is still there.
Present(r) == lists[requests[r].list] # NoList /\ lists[requests[r].list].id = requests[r].id

Counting(l) ==
  {r \in Slots : requests[r].op = "count" /\ requests[r].list = l /\ Present(r)}

Begin(r, request) ==
  /\ requests[r] = Idle
  /\ served < MaxRequests
  /\ served' = served + 1
  /\ requests' = [requests EXCEPT ![r] = request]

End(r) == requests' = [requests EXCEPT ![r] = Idle] /\ UNCHANGED served

Untouched == UNCHANGED <<lists, overtaken, inexact, ids>>

\* r writes the list; those who are about to save a count learn of new members.
Write(r, l, doc) ==
  /\ lists' = [lists EXCEPT ![l] = doc]
  /\ overtaken' = IF lists[l] # NoList /\ doc # NoList /\ doc.items # lists[l].items
                    THEN (overtaken \ {r}) \cup (Counting(l) \ {r})
                    ELSE overtaken \ {r}

Named(value, otherwise) == IF value = Unnamed THEN otherwise ELSE value

-----------------------------------------------------------------------------
\* (userId, mfcId) is unique: a second list of the same id is refused.
CreateList(r, l, body) ==
  /\ lists[l] = NoList
  /\ Begin(r, Idle)
  /\ LET items == Named(body.items, {}) IN
       Write(r, l, [id |-> ids, version |-> 0, name |-> body.name, items |-> items,
                    count |-> Cardinality(items)])
  /\ ids' = ids + 1
  /\ inexact' = inexact \ {l}

\* The first step of every other handler: the list is found, or 404.
Find(r, op, l, change) ==
  /\ lists[l] # NoList
  /\ Begin(r, [op |-> op, list |-> l, id |-> lists[l].id, copy |-> lists[l],
               change |-> change])
  /\ Untouched

\* The two of them that use $addToSet and $pullAll.
Moved(request, items) ==
  IF request.op = "add" THEN items \cup request.change ELSE items \ request.change

\* Faulty: the members that were found, changed, are saved.
FaultyMoveItems(r) ==
  /\ requests[r].op \in {"add", "remove"} /\ Present(r)
  /\ LET request == requests[r]  l == request.list
         doc == [lists[l] EXCEPT !.items = Moved(request, request.copy.items)] IN
       /\ Write(r, l, doc)
       /\ requests' = [requests EXCEPT ![r] = [request EXCEPT !.op = "count", !.copy = doc]]
       /\ UNCHANGED <<inexact, ids, served>>

\* The members change, and the request keeps the document it gets back.
MoveItems(r) ==
  /\ requests[r].op \in {"add", "remove"} /\ Present(r)
  /\ LET request == requests[r]  l == request.list
         doc == [lists[l] EXCEPT !.items = Moved(request, @)] IN
       /\ Write(r, l, doc)
       /\ requests' = [requests EXCEPT ![r] = [request EXCEPT !.op = "count", !.copy = doc]]
       /\ UNCHANGED <<inexact, ids, served>>

\* Faulty: the difference is added to the count.
FaultyNewCount(request) ==
  request.copy.count + Cardinality(request.change)

\* Faulty: what the body names is taken off the count.
FaultyCountDown(request) ==
  request.copy.count - Cardinality(request.change)

NewCount(request) == Cardinality(request.copy.items)

\* Faulty: the document is put back if it is gone.
FaultySaveCount(r) ==
  /\ requests[r].op = "count"
  /\ LET request == requests[r]  l == request.list IN
       /\ Write(r, l, [request.copy EXCEPT !.count = NewCount(request)])
       /\ inexact' = IF r \in overtaken THEN inexact \cup {l} ELSE inexact \ {l}
  /\ End(r) /\ UNCHANGED ids

\* The count of the members it got back is saved, if it is not the one it
\* got back: save() sends no more than that.
SaveCount(r) ==
  /\ requests[r].op = "count" /\ Present(r)
  /\ LET request == requests[r]  l == request.list  count == NewCount(request) IN
       /\ Write(r, l, [lists[l] EXCEPT !.count = IF count = request.copy.count THEN @ ELSE count])
       /\ inexact' = IF r \in overtaken \/ (count = request.copy.count /\ l \in inexact)
                       THEN inexact \cup {l} ELSE inexact \ {l}
  /\ End(r) /\ UNCHANGED ids

\* Object.assign and save: what is named and differs from the copy.
SavePut(r) ==
  /\ requests[r].op = "put" /\ Present(r)
  /\ LET request == requests[r]  l == request.list  put == request.change
         newName == Named(put.name, request.copy.name) # request.copy.name
         newItems == Named(put.items, request.copy.items) # request.copy.items
         newCount == Named(put.count, request.copy.count) # request.copy.count
     IN /\ newItems => request.copy.version = lists[l].version
        /\ Write(r, l, [lists[l] EXCEPT !.name = IF newName THEN put.name ELSE @,
                                        !.items = IF newItems THEN put.items ELSE @,
                                        !.count = IF newCount THEN put.count ELSE @,
                                        !.version = IF newItems THEN @ + 1 ELSE @])
        /\ inexact' = IF newItems \/ newCount THEN inexact \cup {l} ELSE inexact
  /\ End(r) /\ UNCHANGED ids

DeleteList(r) ==
  /\ requests[r].op = "delete" /\ Present(r)
  /\ Write(r, requests[r].list, NoList)
  /\ End(r) /\ UNCHANGED <<inexact, ids>>

\* The document is gone, the version is another, the database fails.
Abandon(r) ==
  /\ requests[r] # Idle
  /\ inexact' = IF requests[r].op = "count" /\ Present(r)
                  THEN inexact \cup {requests[r].list} ELSE inexact
  /\ overtaken' = overtaken \ {r}
  /\ End(r) /\ UNCHANGED <<lists, ids>>

-----------------------------------------------------------------------------
StartSync(r, sync) == Begin(r, [op |-> "sync", rest |-> sync]) /\ Untouched

\* Without members the old ones stay and the count is what the scraper says.
Synced(doc, entry) ==
  [doc EXCEPT !.name = entry.name, !.items = Named(entry.items, @),
              !.count = IF entry.items = Unnamed THEN entry.count ELSE Cardinality(entry.items)]

\* One list of a sync after the other; a failure leaves the rest undone: Abandon.
SyncNext(r) ==
  /\ requests[r].op = "sync" /\ requests[r].rest # <<>>
  /\ LET entry == Head(requests[r].rest)  l == entry.list
         new == [id |-> ids, version |-> 0, name |-> entry.name, items |-> {}, count |-> 0]
     IN /\ Write(r, l, Synced(IF lists[l] = NoList THEN new ELSE lists[l], entry))
        /\ inexact' = IF entry.items = Unnamed THEN inexact \cup {l} ELSE inexact \ {l}
        /\ ids' = IF lists[l] = NoList THEN ids + 1 ELSE ids
  /\ requests' = [requests EXCEPT ![r].rest = Tail(@)]
  /\ UNCHANGED served

EndSync(r) == requests[r].op = "sync" /\ requests[r].rest = <<>> /\ End(r) /\ Untouched

-----------------------------------------------------------------------------
Init ==
  /\ lists = [l \in Lists |-> NoList]
  /\ requests = [r \in Slots |-> Idle]
  /\ overtaken = {}
  /\ inexact = {}
  /\ ids = 0
  /\ served = 0

Start(r) ==
  \/ \E l \in Lists, body \in NewLists : CreateList(r, l, body)
  \/ \E l \in Lists, op \in {"add", "remove"}, items \in SUBSET Items : Find(r, op, l, items)
  \/ \E l \in Lists, put \in Puts : Find(r, "put", l, put)
  \/ \E l \in Lists : Find(r, "delete", l, {})
  \/ \E sync \in Syncs : StartSync(r, sync)

Next ==
  \E r \in Slots :
    \/ Start(r)
    \/ MoveItems(r) \/ SaveCount(r) \/ SavePut(r) \/ DeleteList(r)
    \/ SyncNext(r) \/ EndSync(r)
    \/ Abandon(r)

Spec == Init /\ [][Next]_vars

-----------------------------------------------------------------------------
Found(ops, changes) ==
  [op : ops, list : Lists, id : Nat, copy : Doc, change : changes]

Request ==
  {Idle} \cup Found({"add", "remove", "count", "delete"}, SUBSET Items)
         \cup Found({"put"}, Puts) \cup [op : {"sync"}, rest : Seq(Entries)]

\* Documents and requests keep their shape, ids are not used twice, and only
\* requests that are about to save a count can be overtaken.
ListTypeOK ==
  /\ lists \in [Lists -> Doc \cup {NoList}]
  /\ requests \in [Slots -> Request]
  /\ ids \in Nat /\ served \in 0 .. MaxRequests
  /\ \A l \in Lists : lists[l] # NoList => lists[l].id < ids
  /\ \A r \in Slots : requests[r].op \notin {"idle", "sync"} => requests[r].id < ids
  /\ overtaken \subseteq {r \in Slots : requests[r].op = "count"}
  /\ inexact \subseteq Lists

\* The count of a list is the number of its members, but while a request is
\* between its two writes, and after one of four things: a change overtook
\* another between the two; a request failed there; a PUT named members or a
\* count; a sync came without members.  The next add or remove mends it,
\* unless the count it got back happens to look right.
CountIsExplained ==
  \A l \in Lists :
    lists[l] # NoList /\ l \notin inexact /\ Counting(l) = {}
      => lists[l].count = Cardinality(lists[l].items)

\* The request names the item to be removed, or the members that are left.
Tells(request, item, items) ==
  \/ request.op = "remove" /\ item \in request.change
  \/ request.op = "put" /\ request.change.items = items
  \/ request.op = "sync" /\ request.rest # <<>> /\ Head(request.rest).items = items

\* A member leaves a list only by a request that names it or sends all members:
\* no save of a count, a name or a flag puts old members back, however stale
\* the copy it is made from.
MembersLeaveOnlyIfTold ==
  [][ \A l \in Lists :
        lists[l] # NoList /\ lists'[l] # NoList
          => \A item \in lists[l].items \ lists'[l].items :
               \E r \in Slots :
                 requests'[r] # requests[r] /\ Tells(requests[r], item, lists'[l].items) ]_vars

\* A list that is deleted while requests about it are under way stays deleted:
\* whatever takes its place is a new document.
ListsDoNotComeBack ==
  [][ \A l \in Lists :
        lists'[l] # NoList /\ (lists[l] = NoList \/ lists[l].id # lists'[l].id)
          => lists[l] = NoList /\ lists'[l].id = ids ]_vars

-----------------------------------------------------------------------------
\* The lists without their counts, and what the requests are still to do with
\* them: the count of a request that has moved its items is not part of it.
Seen(doc) ==
  [id |-> doc.id, edits |-> doc.version, name |-> doc.name, items |-> doc.items]

Pending(request) ==
  CASE request.op \in {"idle", "count"} -> [op |-> "nothing"]
    [] request.op = "sync" -> request
    [] OTHER -> [op |-> request.op, list |-> request.list, found |-> Seen(request.copy),
                 change |-> request.change]

shelf == [l \in Lists |-> IF lists[l] = NoList THEN [gone |-> TRUE] ELSE Seen(lists[l])]

asked == [r \in Slots |-> Pending(requests[r])]

Shelf == INSTANCE ListShelf WITH shelf <- shelf, asked <- asked, born <- ids

\* Handlers that find a list, change their copy and save it, and that write the
\* members and their count in two steps, do each request at one moment, on top
\* of what others have done by then: no save puts an old name or old members
\* back, none writes to a list that took the place of a deleted one, and of two
\* updates that replace the same members the second is refused.
ShelfSpec == Shelf!ShelfSpec
=============================================================================
