---------------------------- MODULE MfcLists_proofs ----------------------------
(***************************************************************************)
(* Proofs about MfcLists, for every number of lists, items and requests.   *)
(***************************************************************************)
EXTENDS MfcLists, FiniteSetTheorems, TLAPS

-----------------------------------------------------------------------------
(***************************************************************************)
(* Shapes.                                                                 *)
(***************************************************************************)
LEMMA CountType ==
  ASSUME NEW items \in SUBSET Items
  PROVE  Cardinality(items) \in Nat
BY ListAssumption, FS_Subset, FS_CardinalityType

LEMMA RequestParts ==
  ASSUME NEW request \in Request, request.op # "idle", request.op # "sync"
  PROVE  /\ request.list \in Lists /\ request.id \in Nat /\ request.copy \in Doc
         /\ request.op = "put" => request \in Found({"put"}, Puts)
         /\ request.op # "put" =>
              request \in Found({"add", "remove", "count", "delete"}, SUBSET Items)
BY DEF Request, Idle, Found

LEMMA SyncParts ==
  ASSUME NEW request \in Request, request.op = "sync"
  PROVE  request.rest \in Seq(Entries)
BY DEF Request, Idle, Found

LEMMA SyncHead ==
  ASSUME ListTypeOK, NEW r \in Slots, SyncNext(r)
  PROVE  Head(requests[r].rest) \in Entries /\ Head(requests[r].rest).list \in Lists
<1>1. requests[r].rest \in Seq(Entries) /\ requests[r].rest # <<>>
  BY SyncParts DEF SyncNext, ListTypeOK
<1>2. Head(requests[r].rest) \in Entries
  BY <1>1
<1> QED BY <1>2 DEF Entries

\* What every step about one list leaves alone.
About(r, l) ==
  /\ lists' = [lists EXCEPT ![l] = lists'[l]]
  /\ requests' = [requests EXCEPT ![r] = requests'[r]]
  /\ overtaken \ {r} \subseteq overtaken'
  /\ overtaken' \subseteq overtaken \cup Counting(l)
  /\ r \notin overtaken'
  /\ \A k \in Lists \ {l} : k \in inexact' <=> k \in inexact
  /\ requests[r].op \notin {"idle", "sync"} => requests[r].list = l
  /\ requests'[r].op \notin {"idle", "sync"} => requests'[r].list = l

LEMMA WriteType ==
  ASSUME ListTypeOK, NEW r \in Slots, NEW l \in Lists, NEW doc \in Doc \cup {NoList},
         Write(r, l, doc)
  PROVE  /\ lists' \in [Lists -> Doc \cup {NoList}]
         /\ lists' = [lists EXCEPT ![l] = doc]
         /\ overtaken \ {r} \subseteq overtaken'
         /\ overtaken' \subseteq (overtaken \cup Counting(l)) \ {r}
BY DEF Write, ListTypeOK

LEMMA EndType ==
  ASSUME ListTypeOK, NEW r \in Slots, End(r)
  PROVE  /\ requests' \in [Slots -> Request] /\ served' \in 0 .. MaxRequests
         /\ requests' = [requests EXCEPT ![r] = Idle]
         /\ requests'[r] = Idle /\ Idle.op = "idle"
BY DEF End, ListTypeOK, Request, Idle

LEMMA BeginType ==
  ASSUME ListTypeOK, NEW r \in Slots, NEW request \in Request, Begin(r, request)
  PROVE  /\ requests' \in [Slots -> Request] /\ served' \in 0 .. MaxRequests
         /\ requests' = [requests EXCEPT ![r] = request]
         /\ requests'[r] = request /\ requests[r].op = "idle"
BY ListAssumption DEF Begin, ListTypeOK, Idle

LEMMA MovedType ==
  ASSUME NEW request \in Found({"add", "remove", "count", "delete"}, SUBSET Items),
         NEW doc \in Doc
  PROVE  [doc EXCEPT !.items = Moved(request, @)] \in Doc
BY DEF Moved, Found, Doc

LEMMA SyncedType ==
  ASSUME NEW doc \in Doc, NEW entry \in Entries
  PROVE  Synced(doc, entry) \in Doc /\ Synced(doc, entry).id = doc.id
<1>1. entry.items # Unnamed => entry.items \in SUBSET Items /\ Cardinality(entry.items) \in Nat
  BY CountType DEF Entries
<1> QED BY <1>1 DEF Synced, Named, Entries, Doc

LEMMA NewDocType ==
  ASSUME NEW id \in Nat, NEW name \in Names
  PROVE  [id |-> id, version |-> 0, name |-> name, items |-> {}, count |-> 0] \in Doc
BY DEF Doc

LEMMA Assemble ==
  ASSUME ListTypeOK, NEW r \in Slots, NEW l \in Lists, About(r, l),
         lists' \in [Lists -> Doc \cup {NoList}], requests' \in [Slots -> Request],
         served' \in 0 .. MaxRequests, inexact' \subseteq Lists, ids' \in Nat, ids <= ids',
         lists'[l] # NoList => lists'[l].id < ids',
         requests'[r].op \notin {"idle", "sync"} => requests'[r].id < ids'
  PROVE  ListTypeOK'
<1>1. \A k \in Lists : lists'[k] # NoList => lists'[k].id < ids'
  <2> SUFFICES ASSUME NEW k \in Lists, k # l, lists'[k] # NoList
               PROVE  lists'[k].id < ids'
    OBVIOUS
  <2>1. lists'[k] = lists[k]
    BY DEF About, ListTypeOK
  <2>2. lists[k].id < ids /\ lists[k].id \in Nat /\ ids \in Nat
    BY <2>1 DEF ListTypeOK, Doc
  <2> QED BY <2>1, <2>2
<1>2. \A s \in Slots : requests'[s].op \notin {"idle", "sync"} => requests'[s].id < ids'
  <2> SUFFICES ASSUME NEW s \in Slots, s # r, requests'[s].op \notin {"idle", "sync"}
               PROVE  requests'[s].id < ids'
    OBVIOUS
  <2>1. requests'[s] = requests[s]
    BY DEF About, ListTypeOK
  <2>2. requests[s].id < ids /\ requests[s].id \in Nat /\ ids \in Nat
    BY <2>1, RequestParts DEF ListTypeOK
  <2> QED BY <2>1, <2>2
<1>3. overtaken' \subseteq {s \in Slots : requests'[s].op = "count"}
  <2> SUFFICES ASSUME NEW s \in overtaken'
               PROVE  s \in Slots /\ requests'[s].op = "count"
    OBVIOUS
  <2>1. s \in Slots /\ s # r /\ requests[s].op = "count"
    BY DEF About, Counting, ListTypeOK
  <2> QED BY <2>1 DEF About, ListTypeOK
<1> QED BY <1>1, <1>2, <1>3 DEF ListTypeOK

-----------------------------------------------------------------------------
(***************************************************************************)
(* The count.  A request that nobody overtook holds the members as they    *)
(* are, and if their number is what it got back as count, so is the count. *)
(***************************************************************************)
Exact(l) == lists[l].count = Cardinality(lists[l].items)

Fresh(r) == requests[r].copy

CountInv(l) ==
  lists[l] # NoList =>
    /\ \A r \in Counting(l) \ overtaken : Fresh(r).items = lists[l].items
    /\ l \notin inexact =>
         /\ Counting(l) = {} => Exact(l)
         /\ \A r \in Counting(l) \ overtaken :
              Fresh(r).count = Cardinality(Fresh(r).items) => Exact(l)

\* A step about one list is none about another.
LEMMA OtherLists ==
  ASSUME ListTypeOK, NEW r \in Slots, NEW l \in Lists, About(r, l),
         NEW k \in Lists, k # l, CountInv(k)
  PROVE  CountInv(k)'
<1>1. lists'[k] = lists[k] /\ (k \in inexact' <=> k \in inexact)
  BY DEF About, ListTypeOK
<1>2. ASSUME NEW s \in Slots
      PROVE  /\ s \in Counting(k)' <=> s \in Counting(k)
             /\ s \in Counting(k) => /\ requests'[s] = requests[s]
                                     /\ s \in overtaken' <=> s \in overtaken
  <2>1. CASE s = r
    BY <2>1 DEF About, Counting
  <2>2. CASE s # r
    <3>1. requests'[s] = requests[s]
      BY <2>2 DEF About, ListTypeOK
    <3>2. s \in Counting(k)' <=> s \in Counting(k)
      BY <1>1, <3>1 DEF Counting, Present
    <3>3. s \in Counting(k) => s \notin Counting(l)
      BY DEF Counting
    <3> QED BY <2>2, <3>1, <3>2, <3>3 DEF About
  <2> QED BY <2>1, <2>2
<1>3. Counting(k)' = Counting(k)
  BY <1>2 DEF Counting
<1> QED BY <1>1, <1>2, <1>3 DEF CountInv, Exact, Fresh, Counting

\* What one step does to the count of its list, from what it does to the document.
LEMMA SameMembers ==
  ASSUME ListTypeOK, NEW r \in Slots, NEW l \in Lists, About(r, l), CountInv(l),
         r \notin Counting(l)',
         lists[l] # NoList, lists'[l] # NoList, lists'[l].id = lists[l].id,
         \/ lists'[l].items = lists[l].items
         \/ \A s \in Counting(l) \ {r} : s \in overtaken',
         l \notin inexact' => \/ Exact(l)'
                             \/ /\ l \notin inexact /\ r \notin Counting(l)
                                /\ lists'[l].items = lists[l].items
                                /\ lists'[l].count = lists[l].count
  PROVE  CountInv(l)'
<1>1. ASSUME NEW s \in Slots, s # r
      PROVE  /\ requests'[s] = requests[s]
             /\ s \in Counting(l)' <=> s \in Counting(l)
             /\ s \in overtaken => s \in overtaken'
  BY <1>1 DEF About, ListTypeOK, Counting, Present
<1>2. Counting(l)' = Counting(l) \ {r}
  BY <1>1 DEF Counting
<1>3. \A s \in Counting(l)' \ overtaken' :
        s \in Counting(l) \ overtaken /\ s # r /\ requests'[s] = requests[s]
  BY <1>1, <1>2 DEF Counting
<1>4. \A s \in Counting(l)' \ overtaken' : Fresh(s)'.items = lists'[l].items
  BY <1>2, <1>3 DEF CountInv, Fresh
<1>5. ASSUME l \notin inexact'
      PROVE  /\ Counting(l)' = {} => Exact(l)'
             /\ \A s \in Counting(l)' \ overtaken' :
                  Fresh(s)'.count = Cardinality(Fresh(s)'.items) => Exact(l)'
  <2>1. CASE Exact(l)'
    BY <2>1
  <2>2. CASE /\ l \notin inexact /\ r \notin Counting(l)
             /\ lists'[l].items = lists[l].items
             /\ lists'[l].count = lists[l].count
    BY <1>2, <1>3, <2>2 DEF CountInv, Fresh, Exact
  <2> QED BY <1>5, <2>1, <2>2
<1> QED BY <1>4, <1>5 DEF CountInv

LEMMA NewMembers ==
  ASSUME ListTypeOK, NEW r \in Slots, NEW l \in Lists, About(r, l),
         r \notin Counting(l)', lists'[l] # NoList, lists'[l].id = ids,
         l \notin inexact' => Exact(l)'
  PROVE  CountInv(l)'
<1>1. \A s \in Slots : s # r => requests'[s] = requests[s]
  BY DEF About, ListTypeOK
<1>2. ASSUME NEW s \in Slots, s # r, requests[s].op = "count"
      PROVE  requests[s].id # ids
  <2>1. requests[s].id < ids /\ requests[s].id \in Nat /\ ids \in Nat
    BY <1>2, RequestParts DEF ListTypeOK
  <2> QED BY <2>1
<1>3. Counting(l)' = {}
  BY <1>1, <1>2 DEF Counting, Present
<1> QED BY <1>3 DEF CountInv

LEMMA CreateStep ==
  ASSUME ListTypeOK, NEW r \in Slots, NEW l \in Lists, NEW body \in NewLists,
         CreateList(r, l, body)
  PROVE  ListTypeOK' /\ About(r, l) /\ CountInv(l)'
<1> DEFINE items == Named(body.items, {})
           doc == [id |-> ids, version |-> 0, name |-> body.name, items |-> items,
                   count |-> Cardinality(items)]
<1>1. body \in Change /\ body.name \in Names
  BY BodyAssumption DEF Change
<1>2. items \in SUBSET Items /\ Cardinality(items) \in Nat
  <2>1. items \in SUBSET Items
    BY <1>1 DEF Change, Named
  <2> QED BY <2>1, CountType
<1>3. doc \in Doc /\ doc.id = ids /\ doc.count = Cardinality(doc.items)
  <2> HIDE DEF items
  <2> QED BY <1>1, <1>2 DEF Doc, ListTypeOK
<1>4. /\ Begin(r, Idle) /\ Write(r, l, doc)
      /\ ids' = ids + 1 /\ inexact' = inexact \ {l}
  BY DEF CreateList
<1> HIDE DEF doc
<1>5. Idle \in Request /\ Idle.op = "idle"
  BY DEF Request, Idle
<1>6. /\ requests' \in [Slots -> Request] /\ served' \in 0 .. MaxRequests
      /\ requests' = [requests EXCEPT ![r] = Idle] /\ requests'[r] = Idle
      /\ requests[r].op = "idle"
  BY <1>4, <1>5, BeginType
<1>7. /\ lists' \in [Lists -> Doc \cup {NoList}]
      /\ lists' = [lists EXCEPT ![l] = doc] /\ lists'[l] = doc
      /\ overtaken \ {r} \subseteq overtaken'
      /\ overtaken' \subseteq (overtaken \cup Counting(l)) \ {r}
  BY <1>3, <1>4, WriteType DEF ListTypeOK
<1>8. About(r, l)
  BY <1>4, <1>5, <1>6, <1>7 DEF About
<1>9. doc # NoList /\ lists'[l].id = ids /\ Exact(l)' /\ r \notin Counting(l)'
  BY <1>3, <1>5, <1>6, <1>7, ListAssumption DEF Exact, Counting
<1>10. ids \in Nat /\ ids' \in Nat /\ ids < ids' /\ inexact' \subseteq Lists
  BY <1>4 DEF ListTypeOK
<1>11. ListTypeOK'
  BY <1>5, <1>6, <1>7, <1>8, <1>9, <1>10, Assemble
<1> QED BY <1>7, <1>8, <1>9, <1>11, NewMembers

LEMMA FindStep ==
  ASSUME ListTypeOK, NEW r \in Slots, NEW l \in Lists,
         NEW op \in {"add", "remove", "put", "delete"}, NEW change,
         op = "put" => change \in Puts, op # "put" => change \in SUBSET Items,
         Find(r, op, l, change)
  PROVE  ListTypeOK' /\ About(r, l) /\ (CountInv(l) => CountInv(l)')
<1> DEFINE request == [op |-> op, list |-> l, id |-> lists[l].id, copy |-> lists[l],
                       change |-> change]
<1>1. lists[l] \in Doc /\ lists[l].id \in Nat /\ lists[l].id < ids
  BY DEF Find, ListTypeOK, Doc
<1>2. request \in Request
  BY <1>1 DEF Request, Found
<1>3. Begin(r, request) /\ Untouched /\ lists[l] # NoList
  BY DEF Find
<1>4. /\ request.op # "count" /\ request.list = l /\ request.id < ids
  BY <1>1
<1> HIDE DEF request
<1>5. /\ requests' \in [Slots -> Request] /\ served' \in 0 .. MaxRequests
      /\ requests' = [requests EXCEPT ![r] = request] /\ requests'[r] = request
      /\ requests[r].op = "idle"
  BY <1>2, <1>3, BeginType
<1>6. r \notin overtaken
  BY <1>5 DEF ListTypeOK
<1>7. About(r, l)
  BY <1>3, <1>4, <1>5, <1>6 DEF About, Untouched, ListTypeOK
<1>8. ListTypeOK'
  <2>1. lists'[l] # NoList => lists'[l].id < ids'
    BY <1>1, <1>3 DEF Untouched
  <2>2. requests'[r].id < ids'
    BY <1>3, <1>4, <1>5 DEF Untouched
  <2>3. /\ lists' \in [Lists -> Doc \cup {NoList}] /\ inexact' \subseteq Lists
        /\ ids' \in Nat /\ ids <= ids'
    BY <1>3 DEF Untouched, ListTypeOK
  <2> QED BY <1>5, <1>7, <2>1, <2>2, <2>3, Assemble
<1>9. CountInv(l) => CountInv(l)'
  BY <1>3, <1>4, <1>5, <1>7, SameMembers DEF Untouched, Counting
<1> QED BY <1>7, <1>8, <1>9

LEMMA MoveStep ==
  ASSUME ListTypeOK, NEW r \in Slots, NEW l \in Lists, l = requests[r].list, MoveItems(r)
  PROVE  ListTypeOK' /\ About(r, l) /\ (CountInv(l) => CountInv(l)')
<1> DEFINE request == requests[r]
           doc == [lists[l] EXCEPT !.items = Moved(request, @)]
           next == [request EXCEPT !.op = "count", !.copy = doc]
<1>1. /\ request.op \in {"add", "remove"} /\ Present(r) /\ Write(r, l, doc)
      /\ requests' = [requests EXCEPT ![r] = next]
      /\ inexact' = inexact /\ ids' = ids /\ served' = served
  BY DEF MoveItems
<1>2. /\ request \in Found({"add", "remove", "count", "delete"}, SUBSET Items)
      /\ l \in Lists /\ request.id \in Nat /\ request.id < ids
  BY <1>1, RequestParts DEF ListTypeOK
<1>3. /\ lists[l] \in Doc /\ lists[l] # NoList
      /\ lists[l].id = request.id /\ lists[l].id < ids
  BY <1>1, <1>2 DEF Present, ListTypeOK
<1>4. doc \in Doc /\ doc.id = lists[l].id /\ doc.count = lists[l].count
  BY <1>2, <1>3, MovedType DEF Doc
<1>5. /\ next \in Request /\ next.op = "count" /\ next.list = l
      /\ next.id = request.id /\ next.copy = doc
  BY <1>2, <1>4 DEF Request, Found
<1>6. doc # NoList
  BY <1>4, ListAssumption
<1> HIDE DEF request, doc, next
<1>7. /\ lists' \in [Lists -> Doc \cup {NoList}]
      /\ lists' = [lists EXCEPT ![l] = doc] /\ lists'[l] = doc
      /\ overtaken \ {r} \subseteq overtaken'
      /\ overtaken' \subseteq (overtaken \cup Counting(l)) \ {r}
  BY <1>1, <1>2, <1>4, WriteType DEF ListTypeOK
<1>8. /\ requests' \in [Slots -> Request] /\ requests'[r] = next
      /\ requests' = [requests EXCEPT ![r] = requests'[r]]
  BY <1>1, <1>5 DEF ListTypeOK
<1>9. About(r, l)
  BY <1>1, <1>5, <1>7, <1>8 DEF About, request
<1>10. ListTypeOK'
  <2>1. served' \in 0 .. MaxRequests /\ inexact' \subseteq Lists /\ ids' \in Nat /\ ids <= ids'
    BY <1>1 DEF ListTypeOK
  <2>2. lists'[l].id < ids' /\ requests'[r].id < ids'
    BY <1>1, <1>2, <1>3, <1>4, <1>5, <1>7, <1>8
  <2> QED BY <1>2, <1>7, <1>8, <1>9, <2>1, <2>2, Assemble
<1>11. ASSUME CountInv(l)
       PROVE  CountInv(l)'
  <2>1. ASSUME NEW s \in Slots, s # r
        PROVE  /\ requests'[s] = requests[s]
               /\ s \in Counting(l)' <=> s \in Counting(l)
               /\ s \in overtaken => s \in overtaken'
    BY <1>3, <1>4, <1>6, <1>7, <1>9, <2>1 DEF About, ListTypeOK, Counting, Present
  <2>2. r \in Counting(l)' /\ Fresh(r)' = lists'[l]
    BY <1>3, <1>4, <1>5, <1>6, <1>7, <1>8 DEF Counting, Present, Fresh
  <2>3. \/ lists'[l].items = lists[l].items /\ lists'[l].count = lists[l].count
        \/ \A s \in Counting(l) \ {r} : s \in overtaken'
    <3>1. CASE doc.items = lists[l].items
      BY <1>4, <1>7, <3>1
    <3>2. CASE doc.items # lists[l].items
      BY <1>1, <1>3, <1>6, <3>2 DEF Write
    <3> QED BY <3>1, <3>2
  <2>4. ASSUME NEW s \in Counting(l)' \ overtaken', s # r
        PROVE  /\ s \in Counting(l) \ overtaken /\ Fresh(s)' = Fresh(s)
               /\ lists'[l].items = lists[l].items /\ lists'[l].count = lists[l].count
    BY <2>1, <2>3, <2>4 DEF Counting, Fresh
  <2>5. \A s \in Counting(l)' \ overtaken' : Fresh(s)'.items = lists'[l].items
    BY <1>3, <1>11, <2>2, <2>4 DEF CountInv
  <2>6. ASSUME l \notin inexact', NEW s \in Counting(l)' \ overtaken',
               Fresh(s)'.count = Cardinality(Fresh(s)'.items)
        PROVE  Exact(l)'
    <3>1. CASE s = r
      BY <2>2, <2>6, <3>1 DEF Exact
    <3>2. CASE s # r
      BY <1>1, <1>3, <1>11, <2>4, <2>6, <3>2 DEF CountInv, Exact
    <3> QED BY <3>1, <3>2
  <2> QED BY <2>2, <2>5, <2>6 DEF CountInv
<1> QED BY <1>9, <1>10, <1>11

\* The steps that end a request about a list that is there.
LEMMA EndStep ==
  ASSUME ListTypeOK, NEW r \in Slots, NEW l \in Lists, l = requests[r].list,
         NEW doc \in Doc \cup {NoList}, Write(r, l, doc), End(r), ids' = ids,
         doc # NoList => doc.id < ids,
         \/ inexact' = inexact
         \/ inexact' = inexact \cup {l}
         \/ inexact' = inexact \ {l}
  PROVE  /\ ListTypeOK' /\ About(r, l) /\ lists'[l] = doc
         /\ r \notin Counting(l)'
<1>2. /\ requests' \in [Slots -> Request] /\ served' \in 0 .. MaxRequests
      /\ requests' = [requests EXCEPT ![r] = Idle]
      /\ requests'[r] = Idle /\ Idle.op = "idle"
  BY EndType
<1>3. /\ lists' \in [Lists -> Doc \cup {NoList}]
      /\ lists' = [lists EXCEPT ![l] = doc]
      /\ overtaken \ {r} \subseteq overtaken'
      /\ overtaken' \subseteq (overtaken \cup Counting(l)) \ {r}
  BY WriteType
<1>4. lists'[l] = doc
  BY <1>3 DEF ListTypeOK
<1>5. About(r, l)
  BY <1>2, <1>3, <1>4 DEF About
<1>6. ids' \in Nat /\ ids <= ids' /\ inexact' \subseteq Lists
  BY DEF ListTypeOK
<1>7. ListTypeOK'
  BY <1>2, <1>3, <1>4, <1>5, <1>6, Assemble
<1> QED BY <1>2, <1>4, <1>5, <1>7 DEF Counting

LEMMA SaveCountStep ==
  ASSUME ListTypeOK, NEW r \in Slots, NEW l \in Lists, l = requests[r].list, SaveCount(r)
  PROVE  ListTypeOK' /\ About(r, l) /\ (CountInv(l) => CountInv(l)')
<1> DEFINE request == requests[r]
           count == NewCount(request)
           doc == [lists[l] EXCEPT !.count = IF count = request.copy.count THEN @ ELSE count]
<1>1. /\ request.op = "count" /\ Present(r) /\ Write(r, l, doc) /\ End(r) /\ ids' = ids
      /\ inexact' = IF r \in overtaken \/ (count = request.copy.count /\ l \in inexact)
                      THEN inexact \cup {l} ELSE inexact \ {l}
  BY DEF SaveCount
<1>2. l \in Lists /\ request.copy \in Doc
  BY <1>1, RequestParts DEF ListTypeOK
<1>3. lists[l] \in Doc /\ lists[l] # NoList /\ lists[l].id < ids
  BY <1>1, <1>2 DEF Present, ListTypeOK
<1>4. count \in Nat /\ count = Cardinality(request.copy.items)
  BY <1>2, CountType DEF NewCount, Doc
<1>5. /\ doc \in Doc /\ doc.id = lists[l].id /\ doc.items = lists[l].items
      /\ doc.count = IF count = request.copy.count THEN lists[l].count ELSE count
  <2> HIDE DEF count
  <2> QED BY <1>3, <1>4 DEF Doc
<1> HIDE DEF doc, count
<1>6. ListTypeOK' /\ About(r, l) /\ lists'[l] = doc /\ r \notin Counting(l)'
  BY <1>1, <1>3, <1>5, EndStep
<1>7. ASSUME CountInv(l)
      PROVE  CountInv(l)'
  <2>1. r \in Counting(l)
    BY <1>1 DEF Counting
  <2>2. ASSUME l \notin inexact'
        PROVE  Exact(l)'
    <3>1. r \notin overtaken /\ ~(count = request.copy.count /\ l \in inexact)
      BY <1>1, <2>2
    <3>2. request.copy.items = lists[l].items
      BY <1>3, <1>7, <2>1, <3>1 DEF CountInv, Fresh
    <3>3. count = request.copy.count => Exact(l)
      BY <1>3, <1>4, <1>7, <2>1, <3>1 DEF CountInv, Fresh
    <3> QED BY <1>4, <1>5, <1>6, <3>2, <3>3 DEF Exact
  <2>3. doc # NoList
    BY <1>5, ListAssumption
  <2> QED BY <1>2, <1>3, <1>5, <1>6, <1>7, <2>2, <2>3, SameMembers
<1> QED BY <1>6, <1>7

LEMMA SavePutStep ==
  ASSUME ListTypeOK, NEW r \in Slots, NEW l \in Lists, l = requests[r].list, SavePut(r)
  PROVE  ListTypeOK' /\ About(r, l) /\ (CountInv(l) => CountInv(l)')
<1> DEFINE copy == requests[r].copy
           put == requests[r].change
           newName == Named(put.name, copy.name) # copy.name
           newItems == Named(put.items, copy.items) # copy.items
           newCount == Named(put.count, copy.count) # copy.count
           name == IF newName THEN put.name ELSE lists[l].name
           doc == [lists[l] EXCEPT !.name = IF newName THEN put.name ELSE @,
                                   !.items = IF newItems THEN put.items ELSE @,
                                   !.count = IF newCount THEN put.count ELSE @,
                                   !.version = IF newItems THEN @ + 1 ELSE @]
<1>1. /\ requests[r].op = "put" /\ Present(r) /\ Write(r, l, doc) /\ End(r) /\ ids' = ids
      /\ inexact' = IF newItems \/ newCount THEN inexact \cup {l} ELSE inexact
  BY DEF SavePut
<1>2. copy \in Doc /\ put \in Change
  <2>1. requests[r] \in Found({"put"}, Puts)
    BY <1>1, RequestParts DEF ListTypeOK
  <2> QED BY <2>1, BodyAssumption DEF Found
<1>3. lists[l] \in Doc /\ lists[l] # NoList /\ lists[l].id < ids
  BY <1>1 DEF Present, ListTypeOK
<1>4. /\ newItems => put.items \in SUBSET Items
      /\ newCount => put.count \in Nat
      /\ name \in Names
  BY <1>2, <1>3 DEF Named, Change, Doc
<1>5. /\ doc \in Doc /\ doc.id = lists[l].id
      /\ ~newItems => doc.items = lists[l].items
      /\ ~newCount => doc.count = lists[l].count
  <2> DEFINE items == IF newItems THEN put.items ELSE lists[l].items
             count == IF newCount THEN put.count ELSE lists[l].count
             version == IF newItems THEN lists[l].version + 1 ELSE lists[l].version
  <2>1. /\ items \in SUBSET Items /\ count \in Nat /\ version \in Nat
        /\ ~newItems => items = lists[l].items
        /\ ~newCount => count = lists[l].count
    BY <1>3, <1>4 DEF Doc
  <2>2. doc = [lists[l] EXCEPT !.name = name, !.items = items,
                               !.count = count, !.version = version]
    BY <1>3 DEF Doc
  <2> HIDE DEF newItems, newCount, put, copy, name, items, count, version, doc
  <2> QED BY <1>3, <1>4, <2>1, <2>2 DEF Doc
<1>6. doc # NoList
  BY <1>5, ListAssumption
<1> HIDE DEF doc, newItems, newCount
<1>7. ListTypeOK' /\ About(r, l) /\ lists'[l] = doc /\ r \notin Counting(l)'
  BY <1>1, <1>3, <1>5, EndStep
<1>8. \/ doc.items = lists[l].items
      \/ \A s \in Counting(l) \ {r} : s \in overtaken'
  BY <1>1, <1>3, <1>6 DEF Write
<1>9. r \notin Counting(l)
  BY <1>1 DEF Counting
<1>10. l \notin inexact' => l \notin inexact /\ ~newItems /\ ~newCount
  BY <1>1
<1> QED BY <1>3, <1>5, <1>6, <1>7, <1>8, <1>9, <1>10, SameMembers

LEMMA DeleteStep ==
  ASSUME ListTypeOK, NEW r \in Slots, NEW l \in Lists, l = requests[r].list, DeleteList(r)
  PROVE  ListTypeOK' /\ About(r, l) /\ CountInv(l)'
<1>1. ListTypeOK' /\ About(r, l) /\ lists'[l] = NoList
  BY EndStep DEF DeleteList
<1> QED BY <1>1 DEF CountInv

LEMMA AbandonStep ==
  ASSUME ListTypeOK, NEW r \in Slots, NEW l \in Lists, l = requests[r].list,
         requests[r].op # "sync", Abandon(r)
  PROVE  ListTypeOK' /\ About(r, l) /\ (CountInv(l) => CountInv(l)')
<1>1. /\ requests[r] # Idle /\ End(r) /\ lists' = lists /\ ids' = ids
      /\ overtaken' = overtaken \ {r}
      /\ inexact' = IF requests[r].op = "count" /\ Present(r)
                      THEN inexact \cup {l} ELSE inexact
  BY DEF Abandon
<1>2. /\ lists[l] \in Doc \cup {NoList}
      /\ lists[l] # NoList => lists[l].id < ids
      /\ Write(r, l, lists[l])
  <2>1. lists = [lists EXCEPT ![l] = lists[l]]
    BY DEF ListTypeOK
  <2> QED BY <1>1, <2>1 DEF ListTypeOK, Write
<1>3. ListTypeOK' /\ About(r, l) /\ r \notin Counting(l)'
  BY <1>1, <1>2, EndStep
<1>4. l \notin inexact' => l \notin inexact /\ r \notin Counting(l)
  BY <1>1 DEF Counting
<1>5. CASE lists[l] = NoList
  BY <1>1, <1>3, <1>5 DEF CountInv
<1>6. CASE lists[l] # NoList
  BY <1>1, <1>3, <1>4, <1>6, SameMembers
<1> QED BY <1>3, <1>5, <1>6

LEMMA SyncNextStep ==
  ASSUME ListTypeOK, NEW r \in Slots, NEW l \in Lists, l = Head(requests[r].rest).list,
         SyncNext(r)
  PROVE  ListTypeOK' /\ About(r, l) /\ (CountInv(l) => CountInv(l)')
<1> DEFINE entry == Head(requests[r].rest)
           new == [id |-> ids, version |-> 0, name |-> entry.name, items |-> {}, count |-> 0]
           old == IF lists[l] = NoList THEN new ELSE lists[l]
           doc == Synced(old, entry)
           next == [requests[r] EXCEPT !.rest = Tail(@)]
<1>1. /\ requests[r].op = "sync" /\ requests[r].rest # <<>> /\ Write(r, l, doc)
      /\ inexact' = IF entry.items = Unnamed THEN inexact \cup {l} ELSE inexact \ {l}
      /\ ids' = IF lists[l] = NoList THEN ids + 1 ELSE ids
      /\ requests' = [requests EXCEPT ![r] = next]
      /\ served' = served
  BY DEF SyncNext
<1>2. requests[r].rest \in Seq(Entries) /\ entry \in Entries
  BY <1>1, SyncParts DEF ListTypeOK
<1>3. next \in Request /\ next.op = "sync"
  <2>1. requests[r] \in [op : {"sync"}, rest : Seq(Entries)]
    BY <1>1 DEF ListTypeOK, Request, Idle, Found
  <2>2. Tail(requests[r].rest) \in Seq(Entries)
    BY <1>1, <1>2
  <2> QED BY <2>1, <2>2 DEF Request
<1>4. old \in Doc /\ old.id = IF lists[l] = NoList THEN ids ELSE lists[l].id
  BY <1>2, NewDocType DEF Entries, ListTypeOK
<1>5. /\ doc \in Doc /\ doc.id = IF lists[l] = NoList THEN ids ELSE lists[l].id
  <2> HIDE DEF old, entry
  <2> QED BY <1>2, <1>4, SyncedType
<1>6. doc # NoList
  BY <1>5, ListAssumption
<1>7. entry.items # Unnamed => doc.count = Cardinality(doc.items)
  <2>1. entry.items # Unnamed => entry.items \in SUBSET Items /\ Cardinality(entry.items) \in Nat
    BY <1>2, CountType DEF Entries
  <2> HIDE DEF old, entry
  <2> QED BY <1>4, <2>1 DEF Synced, Named, Doc
<1> HIDE DEF doc, old, next, entry
<1>8. /\ lists' \in [Lists -> Doc \cup {NoList}]
      /\ lists' = [lists EXCEPT ![l] = doc] /\ lists'[l] = doc
      /\ overtaken \ {r} \subseteq overtaken'
      /\ overtaken' \subseteq (overtaken \cup Counting(l)) \ {r}
  BY <1>1, <1>5, WriteType DEF ListTypeOK
<1>9. /\ requests' \in [Slots -> Request] /\ requests'[r] = next
      /\ requests' = [requests EXCEPT ![r] = requests'[r]]
  BY <1>1, <1>3 DEF ListTypeOK
<1>10. About(r, l)
  BY <1>1, <1>3, <1>8, <1>9 DEF About
<1>11. r \notin Counting(l)' /\ r \notin Counting(l)
  BY <1>1, <1>3, <1>9 DEF Counting
<1>12. ListTypeOK'
  <2>1. /\ served' \in 0 .. MaxRequests /\ inexact' \subseteq Lists
        /\ ids' \in Nat /\ ids <= ids'
    BY <1>1 DEF ListTypeOK
  <2>2. lists'[l].id < ids'
    BY <1>1, <1>5, <1>8 DEF ListTypeOK
  <2> QED BY <1>3, <1>8, <1>9, <1>10, <2>1, <2>2, Assemble
<1>13. l \notin inexact' => Exact(l)'
  BY <1>1, <1>7, <1>8 DEF Exact
<1>14. CASE lists[l] = NoList
  BY <1>5, <1>6, <1>8, <1>10, <1>11, <1>12, <1>13, <1>14, NewMembers
<1>15. CASE lists[l] # NoList
  <2>1. \/ lists'[l].items = lists[l].items
        \/ \A s \in Counting(l) \ {r} : s \in overtaken'
    BY <1>1, <1>6, <1>8, <1>15 DEF Write
  <2> QED BY <1>5, <1>6, <1>8, <1>10, <1>11, <1>12, <1>13, <1>15, <2>1, SameMembers
<1> QED BY <1>10, <1>12, <1>14, <1>15

\* Steps that are about no list.
LEMMA NoListStep ==
  ASSUME ListTypeOK, NEW r \in Slots, requests[r].op \in {"idle", "sync"},
         NEW request \in Request, request.op \in {"idle", "sync"},
         requests' = [requests EXCEPT ![r] = request], served' \in 0 .. MaxRequests,
         lists' = lists, inexact' = inexact, ids' = ids, overtaken' = overtaken \ {r}
  PROVE  ListTypeOK' /\ \A l \in Lists : CountInv(l) => CountInv(l)'
<1>1. requests' \in [Slots -> Request] /\ requests'[r] = request
  BY DEF ListTypeOK
<1>2. \A s \in Slots : s # r => requests'[s] = requests[s]
  BY DEF ListTypeOK
<1>3. r \notin overtaken /\ overtaken' = overtaken
  BY DEF ListTypeOK
<1>4. ListTypeOK'
  BY <1>1, <1>2, <1>3 DEF ListTypeOK
<1>5. ASSUME NEW l \in Lists
      PROVE  Counting(l)' = Counting(l)
  BY <1>1, <1>2 DEF Counting, Present
<1>6. ASSUME NEW l \in Lists, CountInv(l)
      PROVE  CountInv(l)'
  <2>1. \A s \in Counting(l) : requests'[s] = requests[s]
    BY <1>2 DEF Counting
  <2> QED BY <1>3, <1>5, <1>6, <2>1 DEF CountInv, Exact, Fresh
<1> QED BY <1>4, <1>6

-----------------------------------------------------------------------------
ListInv == ListTypeOK /\ \A l \in Lists : CountInv(l)

LEMMA InitInv == Init => ListInv
<1> SUFFICES ASSUME Init PROVE ListInv
  OBVIOUS
<1>1. Idle \in Request /\ Idle.op = "idle"
  BY DEF Request, Idle
<1>2. ListTypeOK
  BY <1>1, ListAssumption DEF Init, ListTypeOK
<1>3. \A l \in Lists : CountInv(l)
  BY DEF Init, CountInv
<1> QED BY <1>2, <1>3 DEF ListInv

LEMMA StartInv ==
  ASSUME ListInv, NEW r \in Slots, Start(r)
  PROVE  ListInv'
<1> USE DEF ListInv
<1>1. CASE \E l \in Lists, body \in NewLists : CreateList(r, l, body)
  BY <1>1, CreateStep, OtherLists
<1>2. CASE \E l \in Lists, op \in {"add", "remove"}, items \in SUBSET Items :
             Find(r, op, l, items)
  BY <1>2, FindStep, OtherLists
<1>3. CASE \E l \in Lists, put \in Puts : Find(r, "put", l, put)
  BY <1>3, FindStep, OtherLists
<1>4. CASE \E l \in Lists : Find(r, "delete", l, {})
  BY <1>4, FindStep, OtherLists
<1>5. CASE \E sync \in Syncs : StartSync(r, sync)
  <2> PICK sync \in Syncs : StartSync(r, sync)
    BY <1>5
  <2> DEFINE request == [op |-> "sync", rest |-> sync]
  <2>1. request \in Request /\ request.op = "sync"
    BY BodyAssumption DEF Request
  <2>2. Begin(r, request) /\ Untouched
    BY DEF StartSync
  <2> HIDE DEF request
  <2>3. /\ requests' = [requests EXCEPT ![r] = request] /\ served' \in 0 .. MaxRequests
        /\ requests[r].op = "idle"
    BY <2>1, <2>2, BeginType
  <2>4. r \notin overtaken
    BY <2>3 DEF ListTypeOK
  <2> QED BY <2>1, <2>2, <2>3, <2>4, NoListStep DEF Untouched
<1> QED BY <1>1, <1>2, <1>3, <1>4, <1>5 DEF Start

LEMMA SlotInv ==
  ASSUME ListInv, NEW r \in Slots,
         \/ MoveItems(r) \/ SaveCount(r) \/ SavePut(r) \/ DeleteList(r)
         \/ SyncNext(r) \/ EndSync(r)
         \/ Abandon(r)
  PROVE  ListInv'
<1> USE DEF ListInv
<1>1. CASE requests[r].op \notin {"idle", "sync"}
  <2> PICK l \in Lists : l = requests[r].list
    BY <1>1, RequestParts DEF ListTypeOK
  <2>1. CASE MoveItems(r)
    BY <2>1, MoveStep, OtherLists
  <2>2. CASE SaveCount(r)
    BY <2>2, SaveCountStep, OtherLists
  <2>3. CASE SavePut(r)
    BY <2>3, SavePutStep, OtherLists
  <2>4. CASE DeleteList(r)
    BY <2>4, DeleteStep, OtherLists
  <2>5. CASE Abandon(r)
    BY <1>1, <2>5, AbandonStep, OtherLists
  <2> QED BY <1>1, <2>1, <2>2, <2>3, <2>4, <2>5 DEF SyncNext, EndSync
<1>2. CASE SyncNext(r)
  <2>1. Head(requests[r].rest).list \in Lists
    BY <1>2, SyncHead DEF ListInv
  <2> PICK l \in Lists : l = Head(requests[r].rest).list
    BY <2>1
  <2> QED BY <1>2, SyncNextStep, OtherLists
<1>3. CASE requests[r].op \in {"idle", "sync"} /\ (EndSync(r) \/ Abandon(r))
  <2>1. /\ End(r) /\ lists' = lists /\ inexact' = inexact /\ ids' = ids
        /\ r \notin overtaken /\ overtaken' = overtaken \ {r}
    BY <1>3 DEF EndSync, Abandon, Untouched, ListTypeOK
  <2>2. Idle \in Request
    BY DEF Request
  <2> QED BY <1>3, <2>1, <2>2, EndType, NoListStep
<1> QED BY <1>1, <1>2, <1>3 DEF MoveItems, SaveCount, SavePut, DeleteList

LEMMA StepInv == ListInv /\ [Next]_vars => ListInv'
<1> SUFFICES ASSUME ListInv, [Next]_vars PROVE ListInv'
  OBVIOUS
<1>1. CASE UNCHANGED vars
  BY <1>1 DEF vars, ListInv, ListTypeOK, CountInv, Counting, Present, Exact, Fresh
<1>2. CASE Next
  BY <1>2, StartInv, SlotInv DEF Next
<1> QED BY <1>1, <1>2

LEMMA ListsKeepInv == Spec => []ListInv
BY InitInv, StepInv, PTL DEF Spec

\* Lists and requests keep their shape, whatever the bodies name (listController.ts).
THEOREM ListsTypeCorrect == Spec => []ListTypeOK
<1>1. ListInv => ListTypeOK
  BY DEF ListInv
<1> QED BY <1>1, ListsKeepInv, PTL

\* A count that is not the number of members has one of the named causes: between
\* the two writes of addItemsToList and removeItemsFromList, every request that
\* nobody overtook holds the members as they are.
THEOREM CountsAreExplained == Spec => []CountIsExplained
<1>1. ListInv => CountIsExplained
  BY DEF ListInv, CountIsExplained, CountInv, Exact
<1> QED BY <1>1, ListsKeepInv, PTL

-----------------------------------------------------------------------------
(***************************************************************************)
(* What one step does to one list.                                         *)
(***************************************************************************)
Kept(l) ==
  lists'[l] # NoList =>
    \/ lists[l] # NoList /\ lists'[l].id = lists[l].id
    \/ lists[l] = NoList /\ lists'[l].id = ids

LEMMA StartKeeps ==
  ASSUME ListTypeOK, NEW r \in Slots, Start(r), NEW l \in Lists
  PROVE  /\ Kept(l)
         /\ lists[l] # NoList => lists'[l] = lists[l]
<1>1. CASE \E k \in Lists, body \in NewLists : CreateList(r, k, body)
  <2> PICK k \in Lists, body \in NewLists : CreateList(r, k, body)
    BY <1>1
  <2>1. lists[k] = NoList /\ lists'[k].id = ids
    BY DEF CreateList, Write, ListTypeOK
  <2>2. k # l => lists'[l] = lists[l]
    BY DEF CreateList, Write, ListTypeOK
  <2> QED BY <2>1, <2>2 DEF Kept
<1>2. CASE UNCHANGED lists
  BY <1>2 DEF Kept
<1> QED BY <1>1, <1>2 DEF Start, Find, StartSync, Untouched

LEMMA SlotKeeps ==
  ASSUME ListTypeOK, NEW r \in Slots, NEW l \in Lists,
         \/ MoveItems(r) \/ SaveCount(r) \/ SavePut(r) \/ DeleteList(r)
         \/ SyncNext(r) \/ EndSync(r)
         \/ Abandon(r)
  PROVE  Kept(l)
<1>1. CASE MoveItems(r) \/ SaveCount(r) \/ SavePut(r)
  <2>1. PICK k \in Lists : /\ lists[k] # NoList /\ lists' = [lists EXCEPT ![k] = lists'[k]]
                           /\ lists'[k].id = lists[k].id
    <3> DEFINE k == requests[r].list
    <3>1. k \in Lists
      BY <1>1, RequestParts DEF ListTypeOK, MoveItems, SaveCount, SavePut
    <3>2. lists[k] \in Doc /\ lists[k] # NoList
      BY <1>1, <3>1 DEF MoveItems, SaveCount, SavePut, Present, ListTypeOK
    <3>3. lists' = [lists EXCEPT ![k] = lists'[k]] /\ lists'[k].id = lists[k].id
      <4>1. CASE MoveItems(r)
        BY <3>1, <3>2, <4>1 DEF MoveItems, Write, ListTypeOK, Doc
      <4>2. CASE SaveCount(r)
        BY <3>1, <3>2, <4>2 DEF SaveCount, Write, ListTypeOK, Doc
      <4>3. CASE SavePut(r)
        BY <3>1, <3>2, <4>3 DEF SavePut, Write, ListTypeOK, Doc
      <4> QED BY <1>1, <4>1, <4>2, <4>3
    <3> QED BY <3>1, <3>2, <3>3
  <2> QED BY <2>1 DEF Kept, ListTypeOK
<1>2. CASE DeleteList(r)
  <2>1. requests[r].list \in Lists
    BY <1>2, RequestParts DEF ListTypeOK, DeleteList
  <2> QED BY <1>2, <2>1 DEF DeleteList, Write, Kept, ListTypeOK
<1>3. CASE SyncNext(r)
  <2> DEFINE entry == Head(requests[r].rest)
             k == entry.list
             new == [id |-> ids, version |-> 0, name |-> entry.name, items |-> {}, count |-> 0]
             old == IF lists[k] = NoList THEN new ELSE lists[k]
  <2>1. entry \in Entries /\ k \in Lists
    BY <1>3, SyncHead
  <2>2. lists' = [lists EXCEPT ![k] = Synced(old, entry)]
    BY <1>3 DEF SyncNext, Write
  <2>3. old \in Doc /\ old.id = IF lists[k] = NoList THEN ids ELSE lists[k].id
    BY <2>1, NewDocType DEF Entries, ListTypeOK
  <2>4. Synced(old, entry).id = old.id
    <3> HIDE DEF old, entry
    <3> QED BY <2>1, <2>3, SyncedType
  <2> HIDE DEF old
  <2> QED BY <2>1, <2>2, <2>3, <2>4 DEF Kept, ListTypeOK
<1>4. CASE EndSync(r) \/ Abandon(r)
  BY <1>4 DEF EndSync, Abandon, Untouched, Kept
<1> QED BY <1>1, <1>2, <1>3, <1>4

\* A deleted list stays deleted: addItemsToList, removeItemsFromList, updateList
\* and the sync write to the document they found or make a new one.
THEOREM ListsStayDeleted == Spec => ListsDoNotComeBack
<1>1. ListInv /\ [Next]_vars =>
        [ \A l \in Lists :
            lists'[l] # NoList /\ (lists[l] = NoList \/ lists[l].id # lists'[l].id)
              => lists[l] = NoList /\ lists'[l].id = ids ]_vars
  <2> SUFFICES ASSUME ListTypeOK, Next, NEW l \in Lists
               PROVE  Kept(l)
    BY DEF ListInv, Kept
  <2> QED BY StartKeeps, SlotKeeps DEF Next
<1> QED BY <1>1, ListsKeepInv, PTL DEF Spec, ListsDoNotComeBack

Told(l, item) ==
  \E r \in Slots : requests'[r] # requests[r] /\ Tells(requests[r], item, lists'[l].items)

LEMMA ShorterTail ==
  ASSUME NEW S, NEW s \in Seq(S), s # <<>>
  PROVE  Tail(s) # s
<1>1. Len(s) \in Nat /\ Len(Tail(s)) = Len(s) - 1
  OBVIOUS
<1>2. \A n \in Nat : n # n - 1
  OBVIOUS
<1> QED BY <1>1, <1>2, Zenon

LEMMA SlotTells ==
  ASSUME ListTypeOK, NEW r \in Slots, NEW l \in Lists,
         \/ MoveItems(r) \/ SaveCount(r) \/ SavePut(r) \/ DeleteList(r)
         \/ SyncNext(r) \/ EndSync(r)
         \/ Abandon(r),
         lists[l] # NoList, lists'[l] # NoList,
         NEW item \in lists[l].items \ lists'[l].items
  PROVE  Told(l, item)
<1> DEFINE request == requests[r]
<1>0. request \in Request /\ lists[l] \in Doc
  BY DEF ListTypeOK
<1>1. CASE MoveItems(r)
  <2>1. requests'[r].op = "count" /\ request.op \in {"add", "remove"}
    <3>1. request \in Found({"add", "remove", "count", "delete"}, SUBSET Items)
      BY <1>0, <1>1, RequestParts DEF MoveItems
    <3> QED BY <1>1, <3>1 DEF MoveItems, ListTypeOK, Found
  <2>2. lists'[l].items \in {lists[l].items, Moved(request, lists[l].items)}
    BY <1>0, <1>1 DEF MoveItems, Write, ListTypeOK, Doc
  <2>3. request.op = "remove" /\ item \in request.change
    BY <2>1, <2>2 DEF Moved
  <2> QED BY <2>1, <2>3 DEF Told, Tells
<1>2. CASE SaveCount(r)
  BY <1>0, <1>2 DEF SaveCount, Write, ListTypeOK, Doc
<1>3. CASE SavePut(r)
  <2> DEFINE put == request.change
             newItems == Named(put.items, request.copy.items) # request.copy.items
  <2>1. request.op = "put" /\ requests'[r] = Idle /\ Idle.op = "idle"
    BY <1>3 DEF SavePut, End, ListTypeOK, Idle
  <2>2. lists'[l].items # lists[l].items => lists'[l].items = put.items
    BY <1>0, <1>3 DEF SavePut, Write, ListTypeOK, Doc
  <2> QED BY <2>1, <2>2 DEF Told, Tells
<1>4. CASE DeleteList(r)
  BY <1>4 DEF DeleteList, Write, ListTypeOK
<1>5. CASE SyncNext(r)
  <2> DEFINE entry == Head(request.rest)
  <2>1. request.op = "sync" /\ request.rest # <<>> /\ request.rest \in Seq(Entries)
    BY <1>0, <1>5, SyncParts DEF SyncNext
  <2>2. request \in [op : {"sync"}, rest : Seq(Entries)]
    BY <1>0, <2>1 DEF Request, Idle, Found
  <2>3. requests'[r].rest = Tail(request.rest)
    BY <1>5, <2>2 DEF SyncNext, ListTypeOK
  <2>4. Tail(request.rest) # request.rest
    BY <2>1, ShorterTail
  <2>5. lists'[l].items # lists[l].items => lists'[l] = Synced(lists[l], entry)
    BY <1>5 DEF SyncNext, Write, ListTypeOK
  <2>6. Synced(lists[l], entry).items = Named(entry.items, lists[l].items)
    BY <1>0 DEF Synced, Doc
  <2>7. lists'[l].items = entry.items
    BY <2>5, <2>6 DEF Named
  <2> QED BY <2>1, <2>3, <2>4, <2>7 DEF Told, Tells
<1>6. CASE EndSync(r) \/ Abandon(r)
  BY <1>6 DEF EndSync, Abandon, Untouched
<1> QED BY <1>1, <1>2, <1>3, <1>4, <1>5, <1>6

\* No write puts old members back: an item leaves a list only by a request that
\* names it or that sends all members (listController.ts, syncRoutes.ts).
THEOREM ListsLoseNoMember == Spec => MembersLeaveOnlyIfTold
<1>1. ListInv /\ [Next]_vars =>
        [ \A l \in Lists :
            lists[l] # NoList /\ lists'[l] # NoList
              => \A item \in lists[l].items \ lists'[l].items :
                   \E r \in Slots :
                     requests'[r] # requests[r] /\ Tells(requests[r], item, lists'[l].items) ]_vars
  <2> SUFFICES ASSUME ListTypeOK, Next, NEW l \in Lists,
                      lists[l] # NoList, lists'[l] # NoList,
                      NEW item \in lists[l].items \ lists'[l].items
               PROVE  Told(l, item)
    BY DEF ListInv, Told
  <2> QED BY StartKeeps, SlotTells DEF Next
<1> QED BY <1>1, ListsKeepInv, PTL DEF Spec, MembersLeaveOnlyIfTold

-----------------------------------------------------------------------------
(***************************************************************************)
(* The implementation of ListShelf.  The moment of a request is its write  *)
(* of members, name or existence; finding is the question, saving a count  *)
(* a stutter.  The copy of a request is of the document it has found, so   *)
(* the copy's id is the request's (CopiesKeepIds).                         *)
(***************************************************************************)
CopiesKeepIds ==
  \A r \in Slots : requests[r].op \notin {"idle", "sync"} => requests[r].copy.id = requests[r].id

ShelfOf(l) == IF lists[l] = NoList THEN Shelf!Gone ELSE Seen(lists[l])

LEMMA SeenIsThere ==
  ASSUME NEW doc
  PROVE  Seen(doc) # Shelf!Gone
<1>1. "gone" \notin DOMAIN Seen(doc) /\ "gone" \in DOMAIN Shelf!Gone
  BY DEF Seen, Shelf!Gone
<1> QED BY <1>1

\* A request that is done, or has none of its members left to write, is nothing.
LEMMA PendingCases ==
  ASSUME NEW request \in Request
  PROVE  /\ request.op \in {"idle", "count"} => Pending(request) = Shelf!Nothing
         /\ request.op = "sync" => Pending(request) = request
         /\ request.op \notin {"idle", "count", "sync"} =>
              Pending(request) = [op |-> request.op, list |-> request.list,
                                  found |-> Seen(request.copy), change |-> request.change]
         /\ request.op \notin {"idle", "count"} => Pending(request) # Shelf!Nothing
<1>1. request.op # "nothing"
  BY DEF Request, Idle, Found
<1> QED BY <1>1 DEF Pending, Shelf!Nothing

\* A write to one list is one to the shelf.
LEMMA ShelfWrites ==
  ASSUME ListTypeOK, NEW l \in Lists, NEW doc \in Doc \cup {NoList},
         lists' = [lists EXCEPT ![l] = doc]
  PROVE  shelf' = [shelf EXCEPT ![l] = IF doc = NoList THEN Shelf!Gone ELSE Seen(doc)]
<1> DEFINE seen == IF doc = NoList THEN Shelf!Gone ELSE Seen(doc)
<1>1. \A k \in Lists : ShelfOf(k)' = IF k = l THEN seen ELSE ShelfOf(k)
  BY DEF ShelfOf, Seen, Shelf!Gone, ListTypeOK
<1> HIDE DEF seen
<1>2. shelf' = [k \in Lists |-> IF k = l THEN seen ELSE ShelfOf(k)]
  BY <1>1 DEF shelf, ShelfOf, Shelf!Gone
<1>3. [shelf EXCEPT ![l] = seen] = [k \in Lists |-> IF k = l THEN seen ELSE ShelfOf(k)]
  BY DEF shelf, ShelfOf, Shelf!Gone
<1> QED BY <1>2, <1>3 DEF seen

LEMMA AskedChanges ==
  ASSUME ListTypeOK, NEW r \in Slots, NEW request,
         requests' = [requests EXCEPT ![r] = request]
  PROVE  /\ asked' = [asked EXCEPT ![r] = Pending(request)]
         /\ asked[r] = Pending(requests[r])
<1>1. \A s \in Slots : Pending(requests'[s]) = IF s = r THEN Pending(request)
                                                        ELSE Pending(requests[s])
  BY DEF ListTypeOK
<1>2. asked' = [s \in Slots |-> Pending(requests'[s])]
  BY DEF asked
<1>3. asked' = [s \in Slots |-> IF s = r THEN Pending(request) ELSE Pending(requests[s])]
  BY <1>1, <1>2
<1> QED BY <1>3 DEF asked

LEMMA OnShelf ==
  ASSUME NEW l \in Lists
  PROVE  /\ lists[l] = NoList => shelf[l] = Shelf!Gone
         /\ lists[l] # NoList => shelf[l] = Seen(lists[l]) /\ shelf[l] # Shelf!Gone
<1>1. shelf[l] = ShelfOf(l)
  BY DEF shelf, ShelfOf, Shelf!Gone
<1> QED BY <1>1, SeenIsThere DEF ShelfOf

LEMMA SameShelf == lists' = lists => shelf' = shelf
BY DEF shelf

LEMMA CreateShelf ==
  ASSUME ListTypeOK, NEW r \in Slots, NEW l \in Lists, NEW body \in NewLists,
         CreateList(r, l, body)
  PROVE  Shelf!Question(r)
<1> DEFINE items == Named(body.items, {})
           doc == [id |-> ids, version |-> 0, name |-> body.name, items |-> items,
                   count |-> Cardinality(items)]
           list == Shelf!NewList(body.name, IF body.items = Unnamed THEN {} ELSE body.items)
<1>1. body \in Change /\ body.name \in Names
  BY BodyAssumption DEF Change
<1>2. items \in SUBSET Items /\ Cardinality(items) \in Nat
  <2>1. items \in SUBSET Items
    BY <1>1 DEF Change, Named
  <2> QED BY <2>1, CountType
<1>3. doc \in Doc /\ Seen(doc) = list
  <2>1. Seen(doc) = list
    BY DEF Seen, Shelf!NewList, Named
  <2> HIDE DEF items, list
  <2> QED BY <1>1, <1>2, <2>1 DEF Doc, ListTypeOK
<1>4. /\ Begin(r, Idle) /\ Write(r, l, doc) /\ lists[l] = NoList
      /\ ids' = ids + 1
  BY DEF CreateList
<1> HIDE DEF doc, list
<1>5. shelf' = [shelf EXCEPT ![l] = list]
  <2>1. lists' = [lists EXCEPT ![l] = doc]
    BY <1>4 DEF Write
  <2>2. doc # NoList
    BY <1>3, ListAssumption
  <2> QED BY <1>3, <2>1, <2>2, ShelfWrites
<1>6. asked[r] = Shelf!Nothing /\ asked' = asked
  <2>1. requests' = [requests EXCEPT ![r] = Idle] /\ requests[r] = Idle
    BY <1>4 DEF Begin
  <2>2. Pending(Idle) = Shelf!Nothing
    BY DEF Pending, Idle, Shelf!Nothing
  <2>3. asked' = [asked EXCEPT ![r] = asked[r]] /\ asked[r] = Shelf!Nothing
    BY <2>1, <2>2, AskedChanges
  <2> QED BY <2>3 DEF asked
<1>7. Shelf!Create(r, l, body)
  BY <1>4, <1>5, <1>6, OnShelf DEF Shelf!Create, Shelf!Put, list
<1> QED BY <1>7 DEF Shelf!Question

\* What beginning and ending do to what is asked.
LEMMA BeginAsks ==
  ASSUME ListTypeOK, NEW r \in Slots, NEW request, Begin(r, request)
  PROVE  asked[r] = Shelf!Nothing /\ Shelf!Set(r, Pending(request))
<1>1. requests' = [requests EXCEPT ![r] = request] /\ requests[r] = Idle
  BY DEF Begin
<1>2. Pending(Idle) = Shelf!Nothing
  BY DEF Pending, Idle, Shelf!Nothing
<1> QED BY <1>1, <1>2, AskedChanges DEF Shelf!Set

LEMMA EndAnswers ==
  ASSUME ListTypeOK, NEW r \in Slots, End(r)
  PROVE  asked[r] = Pending(requests[r]) /\ Shelf!Set(r, Shelf!Nothing)
<1>1. requests' = [requests EXCEPT ![r] = Idle]
  BY DEF End
<1>2. Pending(Idle) = Shelf!Nothing
  BY DEF Pending, Idle, Shelf!Nothing
<1> QED BY <1>1, <1>2, AskedChanges DEF Shelf!Set

LEMMA FindShelf ==
  ASSUME ListTypeOK, NEW r \in Slots, NEW l \in Lists,
         NEW op \in {"add", "remove", "put", "delete"}, NEW change, Find(r, op, l, change)
  PROVE  Shelf!Ask(r, op, l, change)
<1> DEFINE request == [op |-> op, list |-> l, id |-> lists[l].id, copy |-> lists[l],
                       change |-> change]
<1>1. Begin(r, request) /\ Untouched /\ lists[l] # NoList
  BY DEF Find
<1>2. Pending(request) = [op |-> op, list |-> l, found |-> Seen(lists[l]), change |-> change]
  BY DEF Pending
<1> HIDE DEF request
<1>3. shelf[l] = Seen(lists[l]) /\ shelf[l] # Shelf!Gone
  BY <1>1, OnShelf
<1>4. shelf' = shelf /\ ids' = ids
  BY <1>1, SameShelf DEF Untouched
<1>5. asked[r] = Shelf!Nothing /\ Shelf!Set(r, Pending(request))
  BY <1>1, BeginAsks
<1> QED BY <1>2, <1>3, <1>4, <1>5 DEF Shelf!Ask

LEMMA StartShelf ==
  ASSUME ListTypeOK, NEW r \in Slots, Start(r)
  PROVE  Shelf!Question(r)
<1>1. ASSUME NEW l \in Lists, NEW body \in NewLists, CreateList(r, l, body)
      PROVE  Shelf!Question(r)
  BY <1>1, CreateShelf
<1>2. ASSUME NEW l \in Lists, NEW op \in {"add", "remove"}, NEW items \in SUBSET Items,
             Find(r, op, l, items)
      PROVE  Shelf!Question(r)
  BY <1>2, FindShelf DEF Shelf!Question
<1>3. ASSUME NEW l \in Lists, NEW put \in Puts, Find(r, "put", l, put)
      PROVE  Shelf!Question(r)
  BY <1>3, FindShelf DEF Shelf!Question
<1>4. ASSUME NEW l \in Lists, Find(r, "delete", l, {})
      PROVE  Shelf!Question(r)
  BY <1>4, FindShelf DEF Shelf!Question
<1>5. ASSUME NEW sync \in Syncs, StartSync(r, sync)
      PROVE  Shelf!Question(r)
  <2> DEFINE request == [op |-> "sync", rest |-> sync]
  <2>1. Begin(r, request) /\ Untouched
    BY <1>5 DEF StartSync
  <2>2. Pending(request) = request
    BY DEF Pending
  <2>3. asked[r] = Shelf!Nothing /\ Shelf!Set(r, request)
    BY <2>1, <2>2, BeginAsks
  <2>4. shelf' = shelf /\ ids' = ids
    BY <2>1, SameShelf DEF Untouched
  <2>5. Shelf!AskSync(r, sync)
    BY <2>3, <2>4 DEF Shelf!AskSync
  <2> QED BY <2>5 DEF Shelf!Question
<1> QED BY <1>1, <1>2, <1>3, <1>4, <1>5 DEF Start

ShelfInv == ListTypeOK /\ CopiesKeepIds

LEMMA FoundOnShelf ==
  ASSUME ShelfInv, NEW r \in Slots, NEW l \in Lists, l = requests[r].list, Present(r),
         requests[r].op \in {"add", "remove", "put", "delete"}
  PROVE  /\ lists[l] \in Doc /\ lists[l] # NoList /\ lists[l].id < ids
         /\ asked[r] = [op |-> requests[r].op, list |-> l, found |-> Seen(requests[r].copy),
                        change |-> requests[r].change]
         /\ shelf[l] = Seen(lists[l]) /\ shelf[l] # Shelf!Gone
         /\ shelf[l].id = asked[r].found.id
<1>1. lists[l] \in Doc /\ lists[l] # NoList /\ lists[l].id = requests[r].id
  BY DEF Present, ShelfInv, ListTypeOK
<1>2. lists[l].id < ids /\ requests[r].copy.id = requests[r].id
  BY <1>1 DEF ShelfInv, ListTypeOK, CopiesKeepIds
<1>3. asked[r] = [op |-> requests[r].op, list |-> l, found |-> Seen(requests[r].copy),
                  change |-> requests[r].change]
  BY DEF asked, Pending
<1>4. shelf[l] = Seen(lists[l]) /\ shelf[l] # Shelf!Gone
  BY <1>1, OnShelf
<1>5. shelf[l].id = asked[r].found.id
  BY <1>1, <1>2, <1>3, <1>4 DEF Seen
<1> QED BY <1>1, <1>2, <1>3, <1>4, <1>5

LEMMA ActShelf ==
  ASSUME ShelfInv, NEW r \in Slots, NEW l \in Lists, l = requests[r].list, Present(r),
         requests[r].op \in {"add", "remove", "put", "delete"},
         NEW doc \in Doc \cup {NoList}, Write(r, l, doc),
         Shelf!Set(r, Shelf!Nothing), ids' = ids,
         ~Shelf!Refused(asked[r], shelf[l]),
         Shelf!After(asked[r], shelf[l]) = IF doc = NoList THEN Shelf!Gone ELSE Seen(doc)
  PROVE  Shelf!Act(r)
<1>1. shelf' = [shelf EXCEPT ![l] = Shelf!After(asked[r], shelf[l])]
  <2>1. lists' = [lists EXCEPT ![l] = doc]
    BY DEF Write
  <2> QED BY <2>1, ShelfWrites DEF ShelfInv
<1>2. asked[r].op = requests[r].op /\ asked[r].list = l
  <2>1. asked[r] = [op |-> requests[r].op, list |-> l, found |-> Seen(requests[r].copy),
                    change |-> requests[r].change]
    BY FoundOnShelf
  <2> QED BY <2>1
<1>3. shelf[l] # Shelf!Gone /\ shelf[l].id = asked[r].found.id
  BY FoundOnShelf
<1> QED BY <1>1, <1>2, <1>3 DEF Shelf!Act, Shelf!Put

LEMMA MoveShelf ==
  ASSUME ShelfInv, NEW r \in Slots, MoveItems(r)
  PROVE  Shelf!Act(r)
<1> DEFINE request == requests[r]
           l == request.list
           doc == [lists[l] EXCEPT !.items = Moved(request, @)]
           next == [request EXCEPT !.op = "count", !.copy = doc]
<1>1. /\ request.op \in {"add", "remove"} /\ Present(r) /\ Write(r, l, doc)
      /\ requests' = [requests EXCEPT ![r] = next] /\ ids' = ids
  BY DEF MoveItems
<1>2. /\ request \in Found({"add", "remove", "count", "delete"}, SUBSET Items)
      /\ l \in Lists
  BY <1>1, RequestParts DEF ShelfInv, ListTypeOK
<1>3. /\ lists[l] \in Doc
      /\ asked[r] = [op |-> request.op, list |-> l, found |-> Seen(request.copy),
                     change |-> request.change]
      /\ shelf[l] = Seen(lists[l])
  BY <1>1, <1>2, FoundOnShelf
<1>4. doc \in Doc /\ doc # NoList
  BY <1>2, <1>3, MovedType, ListAssumption
<1>5. Shelf!After(asked[r], shelf[l]) = Seen(doc)
  <2>1. Seen(doc) = [Seen(lists[l]) EXCEPT !.items = Moved(request, @)]
    BY <1>3 DEF Seen, Doc
  <2>2. /\ request.op = "add" => Shelf!After(asked[r], shelf[l]) =
             [Seen(lists[l]) EXCEPT !.items = @ \cup request.change]
        /\ request.op = "remove" => Shelf!After(asked[r], shelf[l]) =
             [Seen(lists[l]) EXCEPT !.items = @ \ request.change]
    BY <1>3 DEF Shelf!After
  <2> QED BY <1>1, <2>1, <2>2 DEF Moved
<1>6. ~Shelf!Refused(asked[r], shelf[l])
  BY <1>1, <1>3 DEF Shelf!Refused
<1>7. Pending(next) = Shelf!Nothing
  BY <1>2 DEF Pending, Shelf!Nothing, Found
<1> HIDE DEF doc, next
<1>8. Shelf!Set(r, Shelf!Nothing)
  BY <1>1, <1>7, AskedChanges DEF ShelfInv, Shelf!Set
<1> QED BY <1>1, <1>2, <1>4, <1>5, <1>6, <1>8, ActShelf

LEMMA DeleteShelf ==
  ASSUME ShelfInv, NEW r \in Slots, DeleteList(r)
  PROVE  Shelf!Act(r)
<1> DEFINE l == requests[r].list
<1>1. /\ requests[r].op = "delete" /\ Present(r) /\ Write(r, l, NoList) /\ End(r)
      /\ ids' = ids
  BY DEF DeleteList
<1>2. l \in Lists
  BY <1>1, RequestParts DEF ShelfInv, ListTypeOK
<1>3. asked[r].op = "delete"
  <2>1. asked[r] = [op |-> requests[r].op, list |-> l, found |-> Seen(requests[r].copy),
                    change |-> requests[r].change]
    BY <1>1, <1>2, FoundOnShelf
  <2> QED BY <1>1, <2>1
<1>4. ~Shelf!Refused(asked[r], shelf[l]) /\ Shelf!After(asked[r], shelf[l]) = Shelf!Gone
  BY <1>3 DEF Shelf!Refused, Shelf!After
<1>5. Shelf!Set(r, Shelf!Nothing)
  BY <1>1, EndAnswers DEF ShelfInv
<1> QED BY <1>1, <1>2, <1>4, <1>5, ActShelf

\* What a save sends is what the body names and differs from the copy.
LEMMA SentIsNew ==
  ASSUME NEW value, NEW old, old # Unnamed
  PROVE  Named(value, old) # old <=> ~Shelf!Kept(value, old)
BY DEF Named, Shelf!Kept

Volume == [id : Nat, edits : Nat, name : Names, items : SUBSET Items]

LEMMA EditedVolume ==
  ASSUME NEW list \in Volume, NEW items \in SUBSET Items
  PROVE  [list EXCEPT !.items = items, !.edits = @ + 1] =
         [id |-> list.id, edits |-> list.edits + 1, name |-> list.name, items |-> items]
<1> DEFINE edits == list.edits + 1
           new == [list EXCEPT !.items = items, !.edits = edits]
<1>0. edits \in Nat
  BY DEF Volume
<1>1. /\ new \in Volume /\ new.id = list.id /\ new.edits = edits
      /\ new.name = list.name /\ new.items = items
  <2> HIDE DEF edits
  <2> QED BY <1>0 DEF Volume
<1> HIDE DEF new
<1>2. new = [id |-> new.id, edits |-> new.edits, name |-> new.name, items |-> new.items]
  BY <1>1 DEF Volume
<1>3. new = [id |-> list.id, edits |-> list.edits + 1, name |-> list.name, items |-> items]
  BY <1>1, <1>2
<1> QED BY <1>3 DEF new

LEMMA SyncedVolume ==
  ASSUME NEW list \in Volume, NEW name \in Names, NEW items \in SUBSET Items
  PROVE  [list EXCEPT !.name = name, !.items = items] =
         [id |-> list.id, edits |-> list.edits, name |-> name, items |-> items]
<1> DEFINE new == [list EXCEPT !.name = name, !.items = items]
<1>1. /\ new \in Volume /\ new.id = list.id /\ new.edits = list.edits
      /\ new.name = name /\ new.items = items
  BY DEF Volume
<1> HIDE DEF new
<1>2. new = [id |-> new.id, edits |-> new.edits, name |-> new.name, items |-> new.items]
  BY <1>1 DEF Volume
<1>3. new = [id |-> list.id, edits |-> list.edits, name |-> name, items |-> items]
  BY <1>1, <1>2
<1> QED BY <1>3 DEF new

LEMMA PutShelf ==
  ASSUME ShelfInv, NEW r \in Slots, SavePut(r)
  PROVE  Shelf!Act(r)
<1> DEFINE l == requests[r].list
           copy == requests[r].copy
           put == requests[r].change
           newName == Named(put.name, copy.name) # copy.name
           newItems == Named(put.items, copy.items) # copy.items
           newCount == Named(put.count, copy.count) # copy.count
           name == IF newName THEN put.name ELSE lists[l].name
           items == IF newItems THEN put.items ELSE lists[l].items
           count == IF newCount THEN put.count ELSE lists[l].count
           version == IF newItems THEN lists[l].version + 1 ELSE lists[l].version
           doc == [lists[l] EXCEPT !.name = name, !.items = items,
                                   !.count = count, !.version = version]
<1>1. /\ requests[r].op = "put" /\ Present(r) /\ End(r) /\ ids' = ids
      /\ newItems => copy.version = lists[l].version
  BY DEF SavePut
<1>2. /\ l \in Lists /\ copy \in Doc /\ put \in Change
      /\ requests[r] \in Found({"put"}, Puts)
  <2>1. requests[r] \in Found({"put"}, Puts) /\ l \in Lists /\ copy \in Doc
    BY <1>1, RequestParts DEF ShelfInv, ListTypeOK
  <2> QED BY <2>1, BodyAssumption DEF Found
<1>3. /\ lists[l] \in Doc /\ lists[l] # NoList
      /\ asked[r] = [op |-> "put", list |-> l, found |-> Seen(copy), change |-> put]
      /\ shelf[l] = Seen(lists[l])
  BY <1>1, <1>2, FoundOnShelf
<1>4. Write(r, l, doc)
  BY <1>3 DEF SavePut, Doc
<1>5. /\ newName <=> ~Shelf!Kept(put.name, copy.name)
      /\ newItems <=> ~Shelf!Kept(put.items, copy.items)
  BY <1>2, ListAssumption, SentIsNew DEF Doc
<1>6. name \in Names /\ items \in SUBSET Items /\ count \in Nat /\ version \in Nat
  BY <1>2, <1>3 DEF Named, Change, Doc
<1>7. doc \in Doc /\ doc # NoList
  <2> HIDE DEF name, items, count, version
  <2> QED BY <1>3, <1>6, ListAssumption DEF Doc
<1>8. Seen(doc) = [id |-> lists[l].id, edits |-> version, name |-> name, items |-> items]
  <2> HIDE DEF name, items, count, version
  <2> QED BY <1>3 DEF Seen, Doc
<1>9. Seen(copy).name = copy.name /\ Seen(copy).items = copy.items /\ Seen(copy).edits = copy.version
  BY DEF Seen
<1>10. ~Shelf!Refused(asked[r], shelf[l])
  BY <1>1, <1>3, <1>5, <1>9 DEF Shelf!Refused, Seen
<1>11. Shelf!After(asked[r], shelf[l]) = Seen(doc)
  <2>1. Shelf!After(asked[r], shelf[l]) = Shelf!Updated(asked[r], shelf[l])
    BY <1>3 DEF Shelf!After
  <2>2. Shelf!Renamed(asked[r], shelf[l]) =
          [id |-> lists[l].id, edits |-> lists[l].version, name |-> name, items |-> lists[l].items]
    BY <1>3, <1>5, <1>9 DEF Shelf!Renamed, Seen
  <2>3. CASE newItems
    <3> DEFINE list == Shelf!Renamed(asked[r], shelf[l])
    <3>1. items = put.items /\ version = lists[l].version + 1
      BY <2>3
    <3>2. /\ list \in Volume /\ list.id = lists[l].id /\ list.edits = lists[l].version
          /\ list.name = name /\ put.items \in SUBSET Items
      <4> HIDE DEF items, name
      <4> QED BY <1>3, <1>6, <2>2, <3>1 DEF Volume, Doc
    <3>3. Shelf!Updated(asked[r], shelf[l]) =
            [id |-> list.id, edits |-> list.edits + 1, name |-> list.name, items |-> put.items]
      <4>1. asked[r].change = put /\ ~Shelf!Kept(put.items, asked[r].found.items)
        BY <1>3, <1>5, <1>9, <2>3
      <4> HIDE DEF list, newItems, put
      <4>2. Shelf!Updated(asked[r], shelf[l]) =
              [list EXCEPT !.items = put.items, !.edits = @ + 1]
        BY <4>1 DEF Shelf!Updated, list
      <4> QED BY <3>2, <4>2, EditedVolume
    <3> HIDE DEF items, version, name, newItems, list
    <3> QED BY <1>8, <2>1, <3>1, <3>2, <3>3
  <2>4. CASE ~newItems
    BY <1>3, <1>5, <1>8, <1>9, <2>1, <2>2, <2>4 DEF Shelf!Updated, Seen
  <2> QED BY <2>3, <2>4
<1>12. Shelf!Set(r, Shelf!Nothing)
  BY <1>1, EndAnswers DEF ShelfInv
<1> HIDE DEF doc
<1> QED BY <1>1, <1>2, <1>4, <1>7, <1>10, <1>11, <1>12, ActShelf

LEMMA SeenSynced ==
  ASSUME NEW doc \in Doc, NEW entry \in Entries
  PROVE  Seen(Synced(doc, entry)) = Shelf!Replaced(Seen(doc), entry)
<1> DEFINE items == IF entry.items = Unnamed THEN doc.items ELSE entry.items
           new == Synced(doc, entry)
<1>1. new.id = doc.id /\ new.version = doc.version /\ new.name = entry.name /\ new.items = items
  BY DEF Synced, Named, Doc
<1>2. Seen(new) = [id |-> doc.id, edits |-> doc.version, name |-> entry.name, items |-> items]
  <2> HIDE DEF new, items
  <2> QED BY <1>1 DEF Seen
<1>3. Seen(doc) \in Volume /\ entry.name \in Names /\ items \in SUBSET Items
  BY DEF Seen, Volume, Doc, Entries
<1>4. [Seen(doc) EXCEPT !.name = entry.name, !.items = items] =
      [id |-> doc.id, edits |-> doc.version, name |-> entry.name, items |-> items]
  <2>1. [Seen(doc) EXCEPT !.name = entry.name, !.items = items] =
        [id |-> Seen(doc).id, edits |-> Seen(doc).edits, name |-> entry.name, items |-> items]
    <3> HIDE DEF items
    <3> QED BY <1>3, SyncedVolume
  <2> QED BY <2>1 DEF Seen
<1>5. Seen(doc).items = doc.items
  BY DEF Seen
<1>6. Shelf!Replaced(Seen(doc), entry) = [Seen(doc) EXCEPT !.name = entry.name, !.items = items]
  BY <1>5 DEF Shelf!Replaced
<1> QED BY <1>2, <1>4, <1>6

LEMMA SyncShelf ==
  ASSUME ShelfInv, NEW r \in Slots, SyncNext(r)
  PROVE  Shelf!SyncOne(r)
<1> DEFINE rest == requests[r].rest
           entry == Head(rest)
           l == entry.list
           new == [id |-> ids, version |-> 0, name |-> entry.name, items |-> {}, count |-> 0]
           old == IF lists[l] = NoList THEN new ELSE lists[l]
           doc == Synced(old, entry)
           next == [requests[r] EXCEPT !.rest = Tail(@)]
           list == IF shelf[l] = Shelf!Gone THEN Shelf!NewList(entry.name, {}) ELSE shelf[l]
<1>1. /\ requests[r].op = "sync" /\ rest # <<>> /\ Write(r, l, doc)
      /\ ids' = IF lists[l] = NoList THEN ids + 1 ELSE ids
      /\ requests' = [requests EXCEPT ![r] = next]
  BY DEF SyncNext
<1>2. entry \in Entries /\ l \in Lists
  BY SyncHead DEF ShelfInv
<1>3. old \in Doc
  BY <1>2, NewDocType DEF Entries, ShelfInv, ListTypeOK
<1>4. doc \in Doc /\ doc # NoList
  <2> HIDE DEF old, entry
  <2> QED BY <1>2, <1>3, SyncedType, ListAssumption
<1>5. list = Seen(old) /\ (shelf[l] = Shelf!Gone <=> lists[l] = NoList)
  BY <1>2, OnShelf DEF Seen, Shelf!NewList
<1>6. Seen(doc) = Shelf!Replaced(list, entry)
  <2> HIDE DEF old, entry
  <2> HIDE DEF list
  <2> QED BY <1>2, <1>3, <1>5, SeenSynced
<1>7. requests[r] = [op |-> "sync", rest |-> rest] /\ next = [op |-> "sync", rest |-> Tail(rest)]
  <2>1. requests[r] \in [op : {"sync"}, rest : Seq(Entries)]
    BY <1>1 DEF ShelfInv, ListTypeOK, Request, Idle, Found
  <2>2. Tail(rest) \in Seq(Entries)
    BY <1>1, <2>1
  <2>3. ASSUME NEW request \in [op : {"sync"}, rest : Seq(Entries)], NEW tail \in Seq(Entries)
        PROVE  /\ request = [op |-> "sync", rest |-> request.rest]
               /\ [request EXCEPT !.rest = tail] = [op |-> "sync", rest |-> tail]
    OBVIOUS
  <2> QED BY <2>1, <2>2, <2>3
<1>8. Pending(requests[r]) = requests[r] /\ Pending(next) = next
  BY <1>7 DEF Pending
<1> HIDE DEF doc, next, old, rest, entry
<1>9. asked[r] = [op |-> "sync", rest |-> rest] /\ Shelf!Set(r, [op |-> "sync", rest |-> Tail(rest)])
  <2>1. ListTypeOK /\ requests' = [requests EXCEPT ![r] = next]
    BY <1>1 DEF ShelfInv
  <2>2. asked' = [asked EXCEPT ![r] = Pending(next)] /\ asked[r] = Pending(requests[r])
    BY <2>1, AskedChanges
  <2>3. Pending(next) = [op |-> "sync", rest |-> Tail(rest)]
    BY <1>7, <1>8
  <2>4. Pending(requests[r]) = [op |-> "sync", rest |-> rest]
    BY <1>7, <1>8
  <2> QED BY <2>2, <2>3, <2>4 DEF Shelf!Set
<1>10. Shelf!Put(l, Seen(doc))
  <2>1. lists' = [lists EXCEPT ![l] = doc]
    BY <1>1 DEF Write
  <2> QED BY <1>2, <1>4, <2>1, ShelfWrites DEF ShelfInv, Shelf!Put
<1>11. asked[r].op = "sync" /\ asked[r].rest = rest
  BY <1>9
<1> QED BY <1>1, <1>5, <1>6, <1>9, <1>10, <1>11 DEF Shelf!SyncOne, entry

\* A request ends without having written, or with its count.
LEMMA EndShelf ==
  ASSUME ShelfInv, NEW r \in Slots, EndSync(r) \/ Abandon(r)
  PROVE  Shelf!GiveUp(r) \/ UNCHANGED Shelf!shelfVars
<1>1. requests[r] # Idle /\ End(r) /\ lists' = lists /\ ids' = ids
  BY DEF EndSync, Abandon, Untouched, Idle
<1>2. shelf' = shelf
  BY <1>1, SameShelf
<1>3. asked[r] = Pending(requests[r]) /\ Shelf!Set(r, Shelf!Nothing)
  BY <1>1, EndAnswers DEF ShelfInv
<1>4. CASE asked[r] = Shelf!Nothing
  <2>1. asked' = asked
    BY <1>3, <1>4 DEF Shelf!Set, asked
  <2> QED BY <1>1, <1>2, <2>1 DEF Shelf!shelfVars
<1>5. CASE asked[r] # Shelf!Nothing
  BY <1>1, <1>2, <1>3, <1>5 DEF Shelf!GiveUp
<1> QED BY <1>4, <1>5

LEMMA CountShelf ==
  ASSUME ShelfInv, NEW r \in Slots, SaveCount(r)
  PROVE  UNCHANGED Shelf!shelfVars
<1> DEFINE request == requests[r]
           l == request.list
           count == NewCount(request)
           doc == [lists[l] EXCEPT !.count = IF count = request.copy.count THEN @ ELSE count]
<1>1. /\ request.op = "count" /\ Present(r) /\ Write(r, l, doc) /\ End(r) /\ ids' = ids
  BY DEF SaveCount
<1>2. l \in Lists /\ request.copy \in Doc
  BY <1>1, RequestParts DEF ShelfInv, ListTypeOK
<1>3. lists[l] \in Doc /\ lists[l] # NoList
  BY <1>1, <1>2 DEF Present, ShelfInv, ListTypeOK
<1>4. count \in Nat
  BY <1>2, CountType DEF NewCount, Doc
<1>5. doc \in Doc /\ doc # NoList /\ Seen(doc) = Seen(lists[l])
  <2> HIDE DEF count
  <2> QED BY <1>3, <1>4, ListAssumption DEF Doc, Seen
<1> HIDE DEF doc
<1>6. shelf' = shelf
  <2>1. lists' = [lists EXCEPT ![l] = doc]
    BY <1>1 DEF Write
  <2>2. shelf' = [shelf EXCEPT ![l] = Seen(doc)]
    BY <1>2, <1>5, <2>1, ShelfWrites DEF ShelfInv
  <2>3. shelf[l] = Seen(doc)
    BY <1>2, <1>3, <1>5, OnShelf
  <2> QED BY <2>2, <2>3 DEF shelf
<1>7. asked' = asked
  <2>1. asked[r] = Shelf!Nothing
    BY <1>1 DEF asked, Pending, Shelf!Nothing
  <2>2. Shelf!Set(r, Shelf!Nothing)
    BY <1>1, EndAnswers DEF ShelfInv
  <2> QED BY <2>1, <2>2 DEF Shelf!Set, asked
<1> QED BY <1>1, <1>6, <1>7 DEF Shelf!shelfVars

LEMMA NextShelf ==
  ASSUME ShelfInv, Next
  PROVE  (\E r \in Slots : Shelf!Question(r) \/ Shelf!Answer(r)) \/ UNCHANGED Shelf!shelfVars
<1>1. ASSUME NEW r \in Slots, Start(r)
      PROVE  Shelf!Question(r)
  BY <1>1, StartShelf DEF ShelfInv
<1>2. ASSUME NEW r \in Slots, MoveItems(r) \/ SavePut(r) \/ DeleteList(r)
      PROVE  Shelf!Answer(r)
  BY <1>2, MoveShelf, PutShelf, DeleteShelf DEF Shelf!Answer
<1>3. ASSUME NEW r \in Slots, SyncNext(r)
      PROVE  Shelf!Answer(r)
  BY <1>3, SyncShelf DEF Shelf!Answer
<1>4. ASSUME NEW r \in Slots, EndSync(r) \/ Abandon(r)
      PROVE  Shelf!Answer(r) \/ UNCHANGED Shelf!shelfVars
  BY <1>4, EndShelf DEF Shelf!Answer
<1>5. ASSUME NEW r \in Slots, SaveCount(r)
      PROVE  UNCHANGED Shelf!shelfVars
  BY <1>5, CountShelf
<1> QED BY <1>1, <1>2, <1>3, <1>4, <1>5 DEF Next

-----------------------------------------------------------------------------
LEMMA RequestKeepsId ==
  ASSUME ListTypeOK, CopiesKeepIds, NEW r \in Slots, NEW request,
         requests' = [requests EXCEPT ![r] = request],
         request.op \notin {"idle", "sync"} => request.copy.id = request.id
  PROVE  CopiesKeepIds'
BY DEF CopiesKeepIds, ListTypeOK

LEMMA StepKeepsIds ==
  ASSUME ListTypeOK, CopiesKeepIds, Next
  PROVE  CopiesKeepIds'
<1>1. ASSUME NEW r \in Slots, Start(r)
      PROVE  CopiesKeepIds'
  <2>1. ASSUME NEW request, Begin(r, request),
               request.op \notin {"idle", "sync"} => request.copy.id = request.id
        PROVE  CopiesKeepIds'
    BY <2>1, RequestKeepsId DEF Begin
  <2>2. ASSUME NEW l \in Lists, NEW body \in NewLists, CreateList(r, l, body)
        PROVE  CopiesKeepIds'
    BY <2>1, <2>2 DEF CreateList, Idle
  <2>3. ASSUME NEW l \in Lists, NEW op, NEW change, Find(r, op, l, change)
        PROVE  CopiesKeepIds'
    BY <2>1, <2>3 DEF Find
  <2>4. ASSUME NEW sync \in Syncs, StartSync(r, sync)
        PROVE  CopiesKeepIds'
    BY <2>1, <2>4 DEF StartSync
  <2> QED BY <1>1, <2>2, <2>3, <2>4 DEF Start
<1>2. ASSUME NEW r \in Slots, MoveItems(r)
      PROVE  CopiesKeepIds'
  <2> DEFINE request == requests[r]
             l == request.list
             doc == [lists[l] EXCEPT !.items = Moved(request, @)]
             next == [request EXCEPT !.op = "count", !.copy = doc]
  <2>1. /\ request.op \in {"add", "remove"} /\ Present(r)
        /\ requests' = [requests EXCEPT ![r] = next]
    BY <1>2 DEF MoveItems
  <2>2. /\ request \in Found({"add", "remove", "count", "delete"}, SUBSET Items)
        /\ l \in Lists
    BY <2>1, RequestParts DEF ListTypeOK
  <2>3. lists[l] \in Doc /\ lists[l].id = request.id
    BY <2>1, <2>2 DEF Present, ListTypeOK
  <2>4. next.copy.id = next.id
    BY <2>2, <2>3 DEF Found, Doc
  <2> HIDE DEF next
  <2> QED BY <2>1, <2>4, RequestKeepsId
<1>3. ASSUME NEW r \in Slots, End(r)
      PROVE  CopiesKeepIds'
  BY <1>3, RequestKeepsId DEF End, Idle
<1>4. ASSUME NEW r \in Slots, SyncNext(r)
      PROVE  CopiesKeepIds'
  <2> DEFINE next == [requests[r] EXCEPT !.rest = Tail(@)]
  <2>1. requests[r].op = "sync" /\ requests' = [requests EXCEPT ![r] = next]
    BY <1>4 DEF SyncNext
  <2>2. next.op = "sync"
    BY <2>1 DEF ListTypeOK, Request, Idle, Found
  <2> HIDE DEF next
  <2> QED BY <2>1, <2>2, RequestKeepsId
<1> QED BY <1>1, <1>2, <1>3, <1>4 DEF Next, SaveCount, SavePut, DeleteList, EndSync, Abandon

LEMMA ShelfInvKept == Spec => []ShelfInv
<1>1. Init => CopiesKeepIds
  BY DEF Init, Idle, CopiesKeepIds
<1>2. ListInv /\ CopiesKeepIds /\ [Next]_vars => CopiesKeepIds'
  BY StepKeepsIds DEF ListInv, vars, CopiesKeepIds
<1>3. ListInv /\ CopiesKeepIds => ShelfInv
  BY DEF ListInv, ShelfInv
<1> QED BY <1>1, <1>2, <1>3, ListsKeepInv, PTL DEF Spec

\* addItemsToList, removeItemsFromList, updateList, deleteList and the sync do
\* each request as ListShelf does: at the moment of its one write of members,
\* name or existence, on top of what the others have written by then.
THEOREM ImplementsShelf == Spec => ShelfSpec
<1>1. Init => Shelf!ShelfInit
  <2> SUFFICES ASSUME Init PROVE Shelf!ShelfInit
    OBVIOUS
  <2>1. shelf = [l \in Lists |-> Shelf!Gone]
    BY DEF Init, shelf, Shelf!Gone
  <2>2. asked = [r \in Slots |-> Shelf!Nothing]
    BY DEF Init, asked, Pending, Idle, Shelf!Nothing
  <2> QED BY <2>1, <2>2 DEF Init, Shelf!ShelfInit
<1>2. ShelfInv /\ [Next]_vars => [\E r \in Slots : Shelf!Question(r) \/ Shelf!Answer(r)]_(Shelf!shelfVars)
  <2>1. CASE UNCHANGED vars
    BY <2>1 DEF vars, Shelf!shelfVars, shelf, asked
  <2> QED BY <2>1, NextShelf
<1> QED BY <1>1, <1>2, ShelfInvKept, PTL DEF Spec, ShelfSpec, Shelf!ShelfSpec
=============================================================================
